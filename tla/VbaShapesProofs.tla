-------------------------- MODULE VbaShapesProofs ---------------------------
(***************************************************************************)
(* Proofs about VbaMacro: what a macro has set of shapes, and of controls, *)
(* names and comments reads as it was set after any call of theirs.        *)
(***************************************************************************)
EXTENDS VbaFormatProofs

-----------------------------------------------------------------------------
(* Sequences without some of their elements *)

\* Among finitely many positions every rank is taken, by one of them.
LEMMA RanksAre ==
    ASSUME NEW N \in Nat, NEW K \in SUBSET (1 .. N)
    PROVE  LET r == [i \in K |-> Cardinality({k \in K : k <= i})]
           IN  /\ IsFiniteSet(K) /\ Cardinality(K) \in Nat
               /\ r \in [K -> 1 .. Cardinality(K)]
               /\ \A i, j \in K : r[i] = r[j] => i = j
               /\ \A n \in 1 .. Cardinality(K) : \E i \in K : r[i] = n
<1> DEFINE U(i) == {k \in K : k <= i}
           r == [i \in K |-> Cardinality(U(i))]
           T == 1 .. Cardinality(K)
<1>1. IsFiniteSet(1 .. N)
  BY FS_Interval
<1>2. IsFiniteSet(K) /\ Cardinality(K) \in Nat
  BY <1>1, FS_Subset, FS_CardinalityType
<1>3. ASSUME NEW i \in K
      PROVE  IsFiniteSet(U(i)) /\ Cardinality(U(i)) \in T
  <2>1. U(i) \in SUBSET K /\ i \in U(i)
    OBVIOUS
  <2>2. IsFiniteSet(U(i)) /\ Cardinality(U(i)) <= Cardinality(K)
    BY <1>2, <2>1, FS_Subset
  <2>3. Cardinality(U(i)) \in Nat /\ Cardinality(U(i)) # 0
    BY <2>1, <2>2, FS_CardinalityType, FS_EmptySet
  <2>4. QED
    BY <1>2, <2>2, <2>3
<1>4. ASSUME NEW i \in K, NEW j \in K, i < j
      PROVE  Cardinality(U(i)) < Cardinality(U(j))
  <2>1. U(i) \in SUBSET U(j) /\ j \in U(j) /\ j \notin U(i)
    <3>1. \A k \in K : k \in Int
      OBVIOUS
    <3>2. j <= j /\ ~(j <= i) /\ \A k \in K : k <= i => k <= j
      BY <1>4, <3>1
    <3>3. QED
      BY <3>2
  <2>2. /\ Cardinality(U(i)) <= Cardinality(U(j))
        /\ Cardinality(U(j)) # Cardinality(U(i))
    BY <1>3, <2>1, FS_Subset
  <2>3. QED
    BY <1>2, <1>3, <2>2
<1>5. r \in [K -> T]
  BY <1>3
<1>6. \A i, j \in K : r[i] = r[j] => i = j
  <2>1. SUFFICES ASSUME NEW i \in K, NEW j \in K, i # j PROVE r[i] # r[j]
    OBVIOUS
  <2>2. i < j \/ j < i
    <3>1. i \in Int /\ j \in Int
      OBVIOUS
    <3>2. QED
      BY <2>1, <3>1
  <2>3. r[i] \in Int /\ r[j] \in Int
    BY <1>5
  <2>4. r[i] < r[j] \/ r[j] < r[i]
    BY <1>4, <2>2
  <2>5. QED
    BY <2>3, <2>4
<1>7. r \in Injection(K, T)
  BY <1>5, <1>6 DEF Injection, IsInjective
<1>8. IsFiniteSet(T) /\ Cardinality(T) = Cardinality(K)
  BY <1>2, FS_Interval
<1>9. r \in Surjection(K, T)
  BY <1>7, <1>8, FS_Injection
<1>10. \A n \in T : \E i \in K : r[i] = n
  BY <1>9 DEF Surjection
<1>11. QED
  BY <1>2, <1>5, <1>6, <1>10

\* What is left of a sequence are the elements at the positions of the others, each
\* position once.
LEMMA DroppingHas ==
    ASSUME NEW S, NEW s \in Seq(S), NEW out
    PROVE  LET t    == Dropping(s, out)
               rest == {i \in DOMAIN s : s[i] \notin out}
           IN  /\ t \in Seq(S) /\ IsFiniteSet(rest) /\ Len(t) = Cardinality(rest)
               /\ \E p \in [DOMAIN t -> rest] :
                     /\ \A n \in DOMAIN t : t[n] = s[p[n]]
                     /\ \A i \in rest : \E n \in DOMAIN t : p[n] = i
                     /\ \A m, n \in DOMAIN t : p[m] = p[n] => m = n
<1> DEFINE t == Dropping(s, out)
           rest == {i \in DOMAIN s : s[i] \notin out}
           r == [i \in rest |-> Cardinality({k \in rest : k <= i})]
           N == Cardinality(rest)
           p == [n \in 1 .. N |-> CHOOSE i \in rest : r[i] = n]
<1>1. Len(s) \in Nat /\ rest \in SUBSET (1 .. Len(s))
  OBVIOUS
<1>2. /\ IsFiniteSet(rest) /\ N \in Nat
      /\ r \in [rest -> 1 .. N]
      /\ \A i, j \in rest : r[i] = r[j] => i = j
      /\ \A n \in 1 .. N : \E i \in rest : r[i] = n
  <2> HIDE DEF rest
  <2>1. QED
    BY <1>1, RanksAre
<1>3. \A n \in 1 .. N : p[n] \in rest /\ r[p[n]] = n
  <2> HIDE DEF rest, r
  <2>1. QED
    BY <1>2
<1>4. t = [n \in 1 .. N |-> s[p[n]]]
  <2>1. \A n \in 1 .. N : (CHOOSE i \in rest : r[i] = n) =
                          (CHOOSE i \in rest : Cardinality({k \in rest : k <= i}) = n)
    OBVIOUS
  <2>2. t = [n \in 1 .. N |-> s[CHOOSE i \in rest : Cardinality({k \in rest : k <= i}) = n]]
    BY Zenon DEF Dropping
  <2>3. QED
    BY <2>1, <2>2
<1>5. DOMAIN t = 1 .. N /\ \A n \in 1 .. N : t[n] = s[p[n]]
  <2> HIDE DEF t, p, rest
  <2>1. QED
    BY <1>4
<1>6. \A i \in rest : s[i] \in S
  OBVIOUS
<1> HIDE DEF t, rest, r
<1>7. t \in [1 .. N -> S]
  BY <1>2, <1>3, <1>4, <1>6
<1>8. t \in Seq(S) /\ Len(t) = N
  BY <1>2, <1>7
<1>9. p \in [DOMAIN t -> rest]
  BY <1>3, <1>5
<1>10. \A i \in rest : r[i] \in 1 .. N /\ p[r[i]] = i
  BY <1>2, <1>3
<1>11. \A m, n \in 1 .. N : p[m] = p[n] => m = n
  BY <1>3
<1> HIDE DEF p
<1>12. \E q \in [DOMAIN t -> rest] :
           /\ \A n \in DOMAIN t : t[n] = s[q[n]]
           /\ \A i \in rest : \E n \in DOMAIN t : q[n] = i
           /\ \A m, n \in DOMAIN t : q[m] = q[n] => m = n
  <2>1. WITNESS p \in [DOMAIN t -> rest]
  <2>2. QED
    BY <1>5, <1>10, <1>11
<1>13. QED
  BY <1>2, <1>8, <1>12 DEF t, rest

LEMMA DroppingDrops ==
    ASSUME NEW S, NEW s \in Seq(S), NEW out
    PROVE  /\ Dropping(s, out) \in Seq(S)
           /\ \A n \in DOMAIN Dropping(s, out) :
                 Dropping(s, out)[n] \notin out /\ \E i \in DOMAIN s : Dropping(s, out)[n] = s[i]
<1> DEFINE t == Dropping(s, out)
           rest == {i \in DOMAIN s : s[i] \notin out}
<1>1. /\ t \in Seq(S) /\ IsFiniteSet(rest) /\ Len(t) = Cardinality(rest)
      /\ \E p \in [DOMAIN t -> rest] :
            /\ \A n \in DOMAIN t : t[n] = s[p[n]]
            /\ \A i \in rest : \E n \in DOMAIN t : p[n] = i
            /\ \A m, n \in DOMAIN t : p[m] = p[n] => m = n
  BY DroppingHas
<1> HIDE DEF t
<1>2. QED
  BY <1>1 DEF t

LEMMA CardinalityIs ==
    ASSUME NEW S
    PROVE  Controls!Cardinality(S) = Cardinality(S) /\ Shapes!Cardinality(S) = Cardinality(S)
<1>1. Controls!Cardinality(S) = Cardinality(S)
  BY Zenon DEF Controls!Cardinality, Cardinality
<1>2. Shapes!Cardinality(S) = Cardinality(S)
  BY Zenon DEF Shapes!Cardinality, Cardinality
<1>3. QED
  BY <1>1, <1>2

LEMMA DroppingIs ==
    ASSUME NEW s, NEW out
    PROVE  Controls!Dropping(s, out) = Dropping(s, out) /\ Shapes!Dropping(s, out)
           = Dropping(s, out)
<1>1. \A S : Controls!Cardinality(S) = Cardinality(S) /\ Shapes!Cardinality(S) = Cardinality(S)
  BY CardinalityIs
<1> DEFINE rest == {i \in DOMAIN s : s[i] \notin out}
           p(n) == CHOOSE i \in rest : Cardinality({k \in rest : k <= i}) = n
           q(n) == CHOOSE i \in rest : Controls!Cardinality({k \in rest : k <= i}) = n
           h(n) == CHOOSE i \in rest : Shapes!Cardinality({k \in rest : k <= i}) = n
<1>2. \A n : p(n) = q(n) /\ p(n) = h(n)
  BY <1>1
<1>3. Dropping(s, out) = [n \in 1..Cardinality(rest) |-> s[p(n)]]
  BY Zenon DEF Dropping
<1>4. Controls!Dropping(s, out) = [n \in 1..Controls!Cardinality(rest) |-> s[q(n)]]
  BY Zenon DEF Controls!Dropping
<1>5. Shapes!Dropping(s, out) = [n \in 1..Shapes!Cardinality(rest) |-> s[h(n)]]
  BY Zenon DEF Shapes!Dropping
<1> HIDE DEF p, q, h, rest
<1>6. QED
  BY <1>1, <1>2, <1>3, <1>4, <1>5

-----------------------------------------------------------------------------
(* Controls, names and comments *)

LEMMA ControlsReads ==
    DOMAIN names = {"one", "two"} =>
    /\ \A l \in Controls!Sides : Controls!ControlsRead(l) = Controls!GetSide(l)
    /\ \A n \in {"one", "two"} : Controls!ControlsRead(n) = Controls!GetRefersTo(n)
    /\ Controls!ControlsRead("enabled") = control.enabled
    /\ Controls!ControlsRead("live") = control.live
    /\ Controls!ControlsRead("visible") = control.visible
    /\ Controls!ControlsRead("text") = control.text
    /\ Controls!ControlsRead("maxLength") = control.max
    /\ Controls!ControlsRead("multiline") = control.lines
    /\ Controls!ControlsRead("caption") = control.label
    /\ Controls!ControlsRead("state") = Controls!GetState
    /\ Controls!ControlsRead("multiSelect") = control.many
    /\ Controls!ControlsRead("value") = Controls!GetValue
    /\ Controls!ControlsRead("selected0") = Controls!GetSelected(0)
    /\ Controls!ControlsRead("selected1") = Controls!GetSelected(1)
    /\ Controls!ControlsRead("combo") = control.combo
    /\ Controls!ControlsRead("name.visible") = "on"
    /\ Controls!ControlsRead("author") = "user"
    /\ Controls!ControlsRead("comment.visible") = comment.visible
    /\ Controls!ControlsRead("comment.text") = comment.text
  BY DEF Controls!ControlsRead, Controls!Sides, Controls!GetEnabled, Controls!GetObjectEnabled,
         Controls!GetVisible, Controls!GetText, Controls!GetMaxLength, Controls!GetMultiline,
         Controls!GetCaption, Controls!GetMultiSelect, Controls!GetCombo, Controls!GetNameVisible,
         Controls!GetAuthor, Controls!GetCommentVisible, Controls!GetCommentText

LEMMA ControlsReadsNext == ControlsReads!:'
  BY ControlsReads, PTL

\* A macro's controls, names and comments: what has been set reads as it was set.
ControlsFine ==
    /\ Controls!ControlsOK /\ Controls!ControlsAsked
    /\ \A a \in asked : Controls!ControlsLoses(a) \/ Controls!ControlsRead(a.what) = a.value

\* What a call leaves as it was but for some attributes; a name reads in the active
\* sheet, or is lost.
ControlsLeaves(C) ==
    /\ Controls!ControlsOK'
    /\ \A n \in {"one", "two"} \ C : Controls!Defined(n) => Controls!Defined(n)'
    /\ "value" \in C \/ control'.many = control.many
    /\ \A u \in Controls!ControlsWhats \ (C \cup {"one", "two"}) :
          Controls!ControlsRead(u)' = Controls!ControlsRead(u)

LEMMA NamesAre ==
    ASSUME Controls!ControlsOK PROVE DOMAIN names = {"one", "two"}
  BY DEF Controls!ControlsOK

LEMMA NamesAreNext ==
    ASSUME Controls!ControlsOK' PROVE DOMAIN names' = {"one", "two"}
  BY DEF Controls!ControlsOK

\* A name that is defined refers to the active sheet or is not there.
LEMMA NameReads ==
    ASSUME Controls!ControlsOK', NEW a, a.what \in {"one", "two"}, Controls!Defined(a.what)'
    PROVE  Controls!ControlsLoses(a)' \/ Controls!ControlsRead(a.what)' = a.value
  BY NamesAreNext, ControlsReadsNext DEF Controls!ControlsLoses, Controls!GetRefersTo

LEMMA ControlsKept ==
    ASSUME ControlsFine, NEW C, ControlsLeaves(C), NEW a \in asked, a.what \notin C
    PROVE  /\ a.what \in Controls!ControlsWhats
           /\ a.what \in {"one", "two"} => Controls!Defined(a.what)'
           /\ a.what = "value" => control'.many = "off"
           /\ Controls!ControlsLoses(a)' \/ Controls!ControlsRead(a.what)' = a.value
<1>1. DOMAIN names = {"one", "two"} /\ DOMAIN names' = {"one", "two"}
  BY NamesAre, NamesAreNext DEF ControlsFine, ControlsLeaves
<1>2. /\ a.what \in Controls!ControlsWhats
      /\ a.what \in {"one", "two"} => Controls!Defined(a.what)'
      /\ a.what = "value" => control'.many = "off"
  BY <1>1 DEF ControlsFine, Controls!ControlsAsked, ControlsLeaves
<1>3. CASE a.what \in {"one", "two"}
  BY <1>2, <1>3, NameReads DEF ControlsLeaves
<1>4. CASE a.what \notin {"one", "two"}
  <2>1. Controls!ControlsRead(a.what)' = Controls!ControlsRead(a.what)
    BY <1>2, <1>4 DEF ControlsLeaves
  <2>2. a.what \in Controls!Sides => Controls!GetSide(a.what)' = Controls!GetSide(a.what)
    BY <1>1, <2>1, ControlsReads, ControlsReadsNext
  <2>3. Controls!ControlsLoses(a)' = Controls!ControlsLoses(a)
    BY <1>1, <1>4, <2>2 DEF Controls!ControlsLoses
  <2>4. QED
    BY <1>2, <2>1, <2>3 DEF ControlsFine
<1>5. QED
  BY <1>3, <1>4

LEMMA WhatsStay ==
    ASSUME ControlsFine, Controls!ControlsOK'
    PROVE  Controls!ControlsWhats' = Controls!ControlsWhats /\ DOMAIN names' = {"one", "two"}
  BY NamesAre, NamesAreNext DEF ControlsFine, Controls!ControlsWhats, Controls!Sides,
     Controls!Selections

LEMMA ControlsSet ==
    ASSUME ControlsFine, NEW C, ControlsLeaves(C), NEW w \in Controls!ControlsWhats, NEW v,
           asked' = {a \in asked : a.what \notin C} \cup {[what |-> w, value |-> v]},
           w \in {"one", "two"} => Controls!Defined(w)',
           w = "value" => control'.many = "off",
           w \notin {"one", "two"} =>
              Controls!ControlsLoses([what |-> w, value |-> v])' \/ Controls!ControlsRead(w)' = v
    PROVE  ControlsFine'
<1>1. Controls!ControlsWhats' = Controls!ControlsWhats /\ DOMAIN names' = {"one", "two"}
  BY WhatsStay DEF ControlsLeaves
<1>2. ASSUME NEW a \in asked'
      PROVE  /\ a.what \in Controls!ControlsWhats
             /\ a.what \in {"one", "two"} => Controls!Defined(a.what)'
             /\ a.what = "value" => control'.many = "off"
             /\ Controls!ControlsLoses(a)' \/ Controls!ControlsRead(a.what)' = a.value
  <2>1. CASE a = [what |-> w, value |-> v]
    BY <2>1, NameReads DEF ControlsLeaves
  <2>2. CASE a \in asked /\ a.what \notin C
    BY <2>2, ControlsKept
  <2>3. QED
    BY <2>1, <2>2
<1>3. QED
  BY <1>1, <1>2 DEF ControlsFine, ControlsLeaves, Controls!ControlsAsked

LEMMA ControlsOther ==
    ASSUME ControlsFine, NEW C, ControlsLeaves(C), asked' = {a \in asked : a.what \notin C}
    PROVE  ControlsFine'
<1>1. Controls!ControlsWhats' = Controls!ControlsWhats /\ DOMAIN names' = {"one", "two"}
  BY WhatsStay DEF ControlsLeaves
<1>2. ASSUME NEW a \in asked'
      PROVE  /\ a.what \in Controls!ControlsWhats
             /\ a.what \in {"one", "two"} => Controls!Defined(a.what)'
             /\ a.what = "value" => control'.many = "off"
             /\ Controls!ControlsLoses(a)' \/ Controls!ControlsRead(a.what)' = a.value
  BY ControlsKept
<1>3. QED
  BY <1>1, <1>2 DEF ControlsFine, ControlsLeaves, Controls!ControlsAsked

\* What a list box says of its list, if neither the list nor what is selected changes.
LEMMA ListStays ==
    ASSUME DOMAIN names = {"one", "two"}, DOMAIN names' = {"one", "two"}, UNCHANGED <<items, picks>>
    PROVE  /\ Controls!ControlsRead("selected0")' = Controls!ControlsRead("selected0")
           /\ Controls!ControlsRead("selected1")' = Controls!ControlsRead("selected1")
           /\ control'.many = control.many =>
                 Controls!ControlsRead("value")' = Controls!ControlsRead("value")
<1>1. Controls!Picked' = Controls!Picked
  BY DEF Controls!Picked
<1>2. Controls!GetSelected(0)' = Controls!GetSelected(0) /\ Controls!GetSelected(1)'
        = Controls!GetSelected(1)
  BY <1>1 DEF Controls!GetSelected
<1>3. control'.many = control.many => Controls!GetValue' = Controls!GetValue
  BY Zenon DEF Controls!GetValue
<1>4. QED
  BY <1>2, <1>3, ControlsReads, ControlsReadsNext

LEMMA ControlsRefused ==
    ASSUME ControlsFine, UNCHANGED controlVars, UNCHANGED asked
    PROVE  ControlsFine'
<1> DEFINE C == {}
<1> USE DEF ControlsFine, controlVars
<1>1. Controls!ControlsOK'
  BY DEF Controls!ControlsOK
<1>2. /\ DOMAIN names = {"one", "two"} /\ DOMAIN names' = {"one", "two"}
      /\ UNCHANGED <<control, items, picks, names, sheet, comment>>
  BY NamesAre
<1>3. \A u \in Controls!ControlsWhats \ (C \cup {"one", "two"}) :
          Controls!ControlsRead(u)' = Controls!ControlsRead(u)
  BY <1>2, ControlsReads, ControlsReadsNext, ListStays
     DEF Controls!ControlsOK, Controls!ControlsWhats, Controls!Sides, Controls!Selections,
         Controls!GetSide, Controls!GetState
<1>4. ControlsLeaves(C)
  BY <1>1, <1>2, <1>3 DEF ControlsLeaves, Controls!Defined
<1>5. asked' = {a \in asked : a.what \notin C}
  OBVIOUS
<1> HIDE DEF C
<1>6. QED
  BY <1>4, <1>5, ControlsOther

LEMMA EnabledSetKeeps ==
    ASSUME ControlsFine, NEW b \in Controls!OnOff, Controls!SetEnabled(b)
    PROVE  ControlsFine'
<1> USE DEF ControlsFine, Controls!SetEnabled, Controls!Put
<1>1. Controls!ControlsOK'
  BY DEF Controls!ControlsOK, Controls!OnOff, Controls!Sides, Controls!Millimeters
<1>2. /\ DOMAIN names = {"one", "two"} /\ DOMAIN names' = {"one", "two"}
      /\ UNCHANGED <<items, picks, names, sheet>>
  BY NamesAre
<1>3. \A u \in Controls!ControlsWhats \ ({"enabled"} \cup {"live"} \cup {"one", "two"}) :
          Controls!ControlsRead(u)' = Controls!ControlsRead(u)
  BY <1>2, ControlsReads, ControlsReadsNext, ListStays
     DEF Controls!ControlsOK, Controls!ControlsWhats, Controls!Sides, Controls!Selections,
         Controls!GetSide, Controls!GetState
<1>4. ControlsLeaves({"enabled"} \cup {"live"})
  BY <1>1, <1>2, <1>3 DEF ControlsLeaves, Controls!Defined, Controls!ControlsOK
<1>5. asked' = {a \in asked : a.what \notin {"enabled"} \cup {"live"}}
        \cup {[what |-> "enabled", value |-> b]}
  BY DEF Controls!Wrote, Controls!WroteOver, Controls!Except
<1>6. "enabled" \in Controls!ControlsWhats
  BY DEF Controls!ControlsWhats, Controls!Sides
<1>7. Controls!ControlsLoses([what |-> "enabled", value |-> b])'
        \/ Controls!ControlsRead("enabled")' = b
  BY <1>2, ControlsReadsNext
     DEF Controls!ControlsLoses, Controls!OnOff, Controls!GetState, Controls!ControlsOK
<1>8. QED
  BY <1>4, <1>5, <1>6, <1>7, ControlsSet

LEMMA ObjectEnabledSetKeeps ==
    ASSUME ControlsFine, NEW b \in Controls!OnOff, Controls!SetObjectEnabled(b)
    PROVE  ControlsFine'
<1> USE DEF ControlsFine, Controls!SetObjectEnabled, Controls!Put
<1>1. Controls!ControlsOK'
  BY DEF Controls!ControlsOK, Controls!OnOff, Controls!Sides, Controls!Millimeters
<1>2. /\ DOMAIN names = {"one", "two"} /\ DOMAIN names' = {"one", "two"}
      /\ UNCHANGED <<items, picks, names, sheet>>
  BY NamesAre
<1>3. \A u \in Controls!ControlsWhats \ ({"live"} \cup {} \cup {"one", "two"}) :
          Controls!ControlsRead(u)' = Controls!ControlsRead(u)
  BY <1>2, ControlsReads, ControlsReadsNext, ListStays
     DEF Controls!ControlsOK, Controls!ControlsWhats, Controls!Sides, Controls!Selections,
         Controls!GetSide, Controls!GetState
<1>4. ControlsLeaves({"live"} \cup {})
  BY <1>1, <1>2, <1>3 DEF ControlsLeaves, Controls!Defined, Controls!ControlsOK
<1>5. asked' = {a \in asked : a.what \notin {"live"} \cup {}} \cup {[what |-> "live", value |-> b]}
  BY DEF Controls!Wrote, Controls!WroteOver, Controls!Except
<1>6. "live" \in Controls!ControlsWhats
  BY DEF Controls!ControlsWhats, Controls!Sides
<1>7. Controls!ControlsLoses([what |-> "live", value |-> b])' \/ Controls!ControlsRead("live")' = b
  BY <1>2, ControlsReadsNext
     DEF Controls!ControlsLoses, Controls!OnOff, Controls!GetState, Controls!ControlsOK
<1>8. QED
  BY <1>4, <1>5, <1>6, <1>7, ControlsSet

LEMMA ObjectVisibleSetKeeps ==
    ASSUME ControlsFine, NEW b \in Controls!OnOff, Controls!SetObjectVisible(b)
    PROVE  ControlsFine'
<1> USE DEF ControlsFine, Controls!SetObjectVisible, Controls!Put
<1>1. Controls!ControlsOK'
  BY DEF Controls!ControlsOK, Controls!OnOff, Controls!Sides, Controls!Millimeters
<1>2. /\ DOMAIN names = {"one", "two"} /\ DOMAIN names' = {"one", "two"}
      /\ UNCHANGED <<items, picks, names, sheet>>
  BY NamesAre
<1>3. \A u \in Controls!ControlsWhats \ ({"visible"} \cup {} \cup {"one", "two"}) :
          Controls!ControlsRead(u)' = Controls!ControlsRead(u)
  BY <1>2, ControlsReads, ControlsReadsNext, ListStays
     DEF Controls!ControlsOK, Controls!ControlsWhats, Controls!Sides, Controls!Selections,
         Controls!GetSide, Controls!GetState
<1>4. ControlsLeaves({"visible"} \cup {})
  BY <1>1, <1>2, <1>3 DEF ControlsLeaves, Controls!Defined, Controls!ControlsOK
<1>5. asked' = {a \in asked : a.what \notin {"visible"} \cup {}}
        \cup {[what |-> "visible", value |-> b]}
  BY DEF Controls!Wrote, Controls!WroteOver, Controls!Except
<1>6. "visible" \in Controls!ControlsWhats
  BY DEF Controls!ControlsWhats, Controls!Sides
<1>7. Controls!ControlsLoses([what |-> "visible", value |-> b])'
        \/ Controls!ControlsRead("visible")' = b
  BY <1>2, ControlsReadsNext
     DEF Controls!ControlsLoses, Controls!OnOff, Controls!GetState, Controls!ControlsOK
<1>8. QED
  BY <1>4, <1>5, <1>6, <1>7, ControlsSet

LEMMA TextSetKeeps ==
    ASSUME ControlsFine, NEW v, Controls!SetText(v)
    PROVE  ControlsFine'
<1> USE DEF ControlsFine, Controls!SetText, Controls!Put
<1>1. Controls!ControlsOK'
  BY DEF Controls!ControlsOK, Controls!OnOff, Controls!Sides, Controls!Millimeters
<1>2. /\ DOMAIN names = {"one", "two"} /\ DOMAIN names' = {"one", "two"}
      /\ UNCHANGED <<items, picks, names, sheet>>
  BY NamesAre
<1>3. \A u \in Controls!ControlsWhats \ ({"text"} \cup {} \cup {"one", "two"}) :
          Controls!ControlsRead(u)' = Controls!ControlsRead(u)
  BY <1>2, ControlsReads, ControlsReadsNext, ListStays
     DEF Controls!ControlsOK, Controls!ControlsWhats, Controls!Sides, Controls!Selections,
         Controls!GetSide, Controls!GetState
<1>4. ControlsLeaves({"text"} \cup {})
  BY <1>1, <1>2, <1>3 DEF ControlsLeaves, Controls!Defined, Controls!ControlsOK
<1>5. asked' = {a \in asked : a.what \notin {"text"} \cup {}} \cup {[what |-> "text", value |-> v]}
  BY DEF Controls!Wrote, Controls!WroteOver, Controls!Except
<1>6. "text" \in Controls!ControlsWhats
  BY DEF Controls!ControlsWhats, Controls!Sides
<1>7. Controls!ControlsLoses([what |-> "text", value |-> v])' \/ Controls!ControlsRead("text")' = v
  BY <1>2, ControlsReadsNext
     DEF Controls!ControlsLoses, Controls!OnOff, Controls!GetState, Controls!ControlsOK
<1>8. QED
  BY <1>4, <1>5, <1>6, <1>7, ControlsSet

LEMMA MaxLengthSetKeeps ==
    ASSUME ControlsFine, NEW n, Controls!SetMaxLength(n)
    PROVE  ControlsFine'
<1> USE DEF ControlsFine, Controls!SetMaxLength, Controls!Put
<1>1. Controls!ControlsOK'
  BY DEF Controls!ControlsOK, Controls!OnOff, Controls!Sides, Controls!Millimeters
<1>2. /\ DOMAIN names = {"one", "two"} /\ DOMAIN names' = {"one", "two"}
      /\ UNCHANGED <<items, picks, names, sheet>>
  BY NamesAre
<1>3. \A u \in Controls!ControlsWhats \ ({"maxLength"} \cup {} \cup {"one", "two"}) :
          Controls!ControlsRead(u)' = Controls!ControlsRead(u)
  BY <1>2, ControlsReads, ControlsReadsNext, ListStays
     DEF Controls!ControlsOK, Controls!ControlsWhats, Controls!Sides, Controls!Selections,
         Controls!GetSide, Controls!GetState
<1>4. ControlsLeaves({"maxLength"} \cup {})
  BY <1>1, <1>2, <1>3 DEF ControlsLeaves, Controls!Defined, Controls!ControlsOK
<1>5. asked' = {a \in asked : a.what \notin {"maxLength"} \cup {}}
        \cup {[what |-> "maxLength", value |-> n]}
  BY DEF Controls!Wrote, Controls!WroteOver, Controls!Except
<1>6. "maxLength" \in Controls!ControlsWhats
  BY DEF Controls!ControlsWhats, Controls!Sides
<1>7. Controls!ControlsLoses([what |-> "maxLength", value |-> n])'
        \/ Controls!ControlsRead("maxLength")' = n
  BY <1>2, ControlsReadsNext
     DEF Controls!ControlsLoses, Controls!OnOff, Controls!GetState, Controls!ControlsOK
<1>8. QED
  BY <1>4, <1>5, <1>6, <1>7, ControlsSet

LEMMA MultilineSetKeeps ==
    ASSUME ControlsFine, NEW b \in Controls!OnOff, Controls!SetMultiline(b)
    PROVE  ControlsFine'
<1> USE DEF ControlsFine, Controls!SetMultiline, Controls!Put
<1>1. Controls!ControlsOK'
  BY DEF Controls!ControlsOK, Controls!OnOff, Controls!Sides, Controls!Millimeters
<1>2. /\ DOMAIN names = {"one", "two"} /\ DOMAIN names' = {"one", "two"}
      /\ UNCHANGED <<items, picks, names, sheet>>
  BY NamesAre
<1>3. \A u \in Controls!ControlsWhats \ ({"multiline"} \cup {} \cup {"one", "two"}) :
          Controls!ControlsRead(u)' = Controls!ControlsRead(u)
  BY <1>2, ControlsReads, ControlsReadsNext, ListStays
     DEF Controls!ControlsOK, Controls!ControlsWhats, Controls!Sides, Controls!Selections,
         Controls!GetSide, Controls!GetState
<1>4. ControlsLeaves({"multiline"} \cup {})
  BY <1>1, <1>2, <1>3 DEF ControlsLeaves, Controls!Defined, Controls!ControlsOK
<1>5. asked' = {a \in asked : a.what \notin {"multiline"} \cup {}}
        \cup {[what |-> "multiline", value |-> b]}
  BY DEF Controls!Wrote, Controls!WroteOver, Controls!Except
<1>6. "multiline" \in Controls!ControlsWhats
  BY DEF Controls!ControlsWhats, Controls!Sides
<1>7. Controls!ControlsLoses([what |-> "multiline", value |-> b])'
        \/ Controls!ControlsRead("multiline")' = b
  BY <1>2, ControlsReadsNext
     DEF Controls!ControlsLoses, Controls!OnOff, Controls!GetState, Controls!ControlsOK
<1>8. QED
  BY <1>4, <1>5, <1>6, <1>7, ControlsSet

LEMMA LabelSetKeeps ==
    ASSUME ControlsFine, NEW v, Controls!SetCaption(v)
    PROVE  ControlsFine'
<1> USE DEF ControlsFine, Controls!SetCaption, Controls!Put
<1>1. Controls!ControlsOK'
  BY DEF Controls!ControlsOK, Controls!OnOff, Controls!Sides, Controls!Millimeters
<1>2. /\ DOMAIN names = {"one", "two"} /\ DOMAIN names' = {"one", "two"}
      /\ UNCHANGED <<items, picks, names, sheet>>
  BY NamesAre
<1>3. \A u \in Controls!ControlsWhats \ ({"caption"} \cup {} \cup {"one", "two"}) :
          Controls!ControlsRead(u)' = Controls!ControlsRead(u)
  BY <1>2, ControlsReads, ControlsReadsNext, ListStays
     DEF Controls!ControlsOK, Controls!ControlsWhats, Controls!Sides, Controls!Selections,
         Controls!GetSide, Controls!GetState
<1>4. ControlsLeaves({"caption"} \cup {})
  BY <1>1, <1>2, <1>3 DEF ControlsLeaves, Controls!Defined, Controls!ControlsOK
<1>5. asked' = {a \in asked : a.what \notin {"caption"} \cup {}}
        \cup {[what |-> "caption", value |-> v]}
  BY DEF Controls!Wrote, Controls!WroteOver, Controls!Except
<1>6. "caption" \in Controls!ControlsWhats
  BY DEF Controls!ControlsWhats, Controls!Sides
<1>7. Controls!ControlsLoses([what |-> "caption", value |-> v])'
        \/ Controls!ControlsRead("caption")' = v
  BY <1>2, ControlsReadsNext
     DEF Controls!ControlsLoses, Controls!OnOff, Controls!GetState, Controls!ControlsOK
<1>8. QED
  BY <1>4, <1>5, <1>6, <1>7, ControlsSet

LEMMA StateOfSetKeeps ==
    ASSUME ControlsFine, NEW b \in Controls!OnOff, Controls!SetState(b)
    PROVE  ControlsFine'
<1> USE DEF ControlsFine, Controls!SetState, Controls!Put
<1>1. Controls!ControlsOK'
  BY DEF Controls!ControlsOK, Controls!OnOff, Controls!Sides, Controls!Millimeters
<1>2. /\ DOMAIN names = {"one", "two"} /\ DOMAIN names' = {"one", "two"}
      /\ UNCHANGED <<items, picks, names, sheet>>
  BY NamesAre
<1>3. \A u \in Controls!ControlsWhats \ ({"state"} \cup {} \cup {"one", "two"}) :
          Controls!ControlsRead(u)' = Controls!ControlsRead(u)
  BY <1>2, ControlsReads, ControlsReadsNext, ListStays
     DEF Controls!ControlsOK, Controls!ControlsWhats, Controls!Sides, Controls!Selections,
         Controls!GetSide, Controls!GetState
<1>4. ControlsLeaves({"state"} \cup {})
  BY <1>1, <1>2, <1>3 DEF ControlsLeaves, Controls!Defined, Controls!ControlsOK
<1>5. asked' = {a \in asked : a.what \notin {"state"} \cup {}}
        \cup {[what |-> "state", value |-> b]}
  BY DEF Controls!Wrote, Controls!WroteOver, Controls!Except
<1>6. "state" \in Controls!ControlsWhats
  BY DEF Controls!ControlsWhats, Controls!Sides
<1>7. Controls!ControlsLoses([what |-> "state", value |-> b])'
        \/ Controls!ControlsRead("state")' = b
  BY <1>2, ControlsReadsNext
     DEF Controls!ControlsLoses, Controls!OnOff, Controls!GetState, Controls!ControlsOK
<1>8. QED
  BY <1>4, <1>5, <1>6, <1>7, ControlsSet

LEMMA ComboSetKeeps ==
    ASSUME ControlsFine, NEW v, Controls!SetCombo(v)
    PROVE  ControlsFine'
<1> USE DEF ControlsFine, Controls!SetCombo, Controls!Put
<1>1. Controls!ControlsOK'
  BY DEF Controls!ControlsOK, Controls!OnOff, Controls!Sides, Controls!Millimeters
<1>2. /\ DOMAIN names = {"one", "two"} /\ DOMAIN names' = {"one", "two"}
      /\ UNCHANGED <<items, picks, names, sheet>>
  BY NamesAre
<1>3. \A u \in Controls!ControlsWhats \ ({"combo"} \cup {} \cup {"one", "two"}) :
          Controls!ControlsRead(u)' = Controls!ControlsRead(u)
  BY <1>2, ControlsReads, ControlsReadsNext, ListStays
     DEF Controls!ControlsOK, Controls!ControlsWhats, Controls!Sides, Controls!Selections,
         Controls!GetSide, Controls!GetState
<1>4. ControlsLeaves({"combo"} \cup {})
  BY <1>1, <1>2, <1>3 DEF ControlsLeaves, Controls!Defined, Controls!ControlsOK
<1>5. asked' = {a \in asked : a.what \notin {"combo"} \cup {}}
        \cup {[what |-> "combo", value |-> v]}
  BY DEF Controls!Wrote, Controls!WroteOver, Controls!Except
<1>6. "combo" \in Controls!ControlsWhats
  BY DEF Controls!ControlsWhats, Controls!Sides
<1>7. Controls!ControlsLoses([what |-> "combo", value |-> v])'
        \/ Controls!ControlsRead("combo")' = v
  BY <1>2, ControlsReadsNext
     DEF Controls!ControlsLoses, Controls!OnOff, Controls!GetState, Controls!ControlsOK
<1>8. QED
  BY <1>4, <1>5, <1>6, <1>7, ControlsSet

LEMMA AuthorSetKeeps ==
    ASSUME ControlsFine, NEW v, Controls!SetAuthor(v)
    PROVE  ControlsFine'
<1> USE DEF ControlsFine, Controls!SetAuthor, Controls!Same, Controls!controlVars
<1>1. Controls!ControlsOK'
  BY DEF Controls!ControlsOK, Controls!OnOff, Controls!Sides, Controls!Millimeters
<1>2. /\ DOMAIN names = {"one", "two"} /\ DOMAIN names' = {"one", "two"}
      /\ UNCHANGED <<items, picks, names, sheet>>
  BY NamesAre
<1>3. \A u \in Controls!ControlsWhats \ ({"author"} \cup {} \cup {"one", "two"}) :
          Controls!ControlsRead(u)' = Controls!ControlsRead(u)
  BY <1>2, ControlsReads, ControlsReadsNext, ListStays
     DEF Controls!ControlsOK, Controls!ControlsWhats, Controls!Sides, Controls!Selections,
         Controls!GetSide, Controls!GetState
<1>4. ControlsLeaves({"author"} \cup {})
  BY <1>1, <1>2, <1>3 DEF ControlsLeaves, Controls!Defined, Controls!ControlsOK
<1>5. asked' = {a \in asked : a.what \notin {"author"} \cup {}}
        \cup {[what |-> "author", value |-> v]}
  BY DEF Controls!Wrote, Controls!WroteOver, Controls!Except
<1>6. "author" \in Controls!ControlsWhats
  BY DEF Controls!ControlsWhats, Controls!Sides
<1>7. Controls!ControlsLoses([what |-> "author", value |-> v])'
        \/ Controls!ControlsRead("author")' = v
  BY <1>2, ControlsReadsNext
     DEF Controls!ControlsLoses, Controls!OnOff, Controls!GetState, Controls!ControlsOK
<1>8. QED
  BY <1>4, <1>5, <1>6, <1>7, ControlsSet

LEMMA NameVisibleSetKeeps ==
    ASSUME ControlsFine, NEW b \in Controls!OnOff, Controls!SetNameVisible(b)
    PROVE  ControlsFine'
<1> USE DEF ControlsFine, Controls!SetNameVisible, Controls!Same, Controls!controlVars
<1>1. Controls!ControlsOK'
  BY DEF Controls!ControlsOK, Controls!OnOff, Controls!Sides, Controls!Millimeters
<1>2. /\ DOMAIN names = {"one", "two"} /\ DOMAIN names' = {"one", "two"}
      /\ UNCHANGED <<items, picks, names, sheet>>
  BY NamesAre
<1>3. \A u \in Controls!ControlsWhats \ ({"name.visible"} \cup {} \cup {"one", "two"}) :
          Controls!ControlsRead(u)' = Controls!ControlsRead(u)
  BY <1>2, ControlsReads, ControlsReadsNext, ListStays
     DEF Controls!ControlsOK, Controls!ControlsWhats, Controls!Sides, Controls!Selections,
         Controls!GetSide, Controls!GetState
<1>4. ControlsLeaves({"name.visible"} \cup {})
  BY <1>1, <1>2, <1>3 DEF ControlsLeaves, Controls!Defined, Controls!ControlsOK
<1>5. asked' = {a \in asked : a.what \notin {"name.visible"} \cup {}}
        \cup {[what |-> "name.visible", value |-> b]}
  BY DEF Controls!Wrote, Controls!WroteOver, Controls!Except
<1>6. "name.visible" \in Controls!ControlsWhats
  BY DEF Controls!ControlsWhats, Controls!Sides
<1>7. Controls!ControlsLoses([what |-> "name.visible", value |-> b])'
        \/ Controls!ControlsRead("name.visible")' = b
  BY <1>2, ControlsReadsNext
     DEF Controls!ControlsLoses, Controls!OnOff, Controls!GetState, Controls!ControlsOK
<1>8. QED
  BY <1>4, <1>5, <1>6, <1>7, ControlsSet

LEMMA CommentVisibleSetKeeps ==
    ASSUME ControlsFine, NEW b \in Controls!OnOff, Controls!SetCommentVisible(b)
    PROVE  ControlsFine'
<1> USE DEF ControlsFine, Controls!SetCommentVisible, Controls!PutComment
<1>1. Controls!ControlsOK'
  BY DEF Controls!ControlsOK, Controls!OnOff, Controls!Sides, Controls!Millimeters
<1>2. /\ DOMAIN names = {"one", "two"} /\ DOMAIN names' = {"one", "two"}
      /\ UNCHANGED <<items, picks, names, sheet>>
  BY NamesAre
<1>3. \A u \in Controls!ControlsWhats \ ({"comment.visible"} \cup {} \cup {"one", "two"}) :
          Controls!ControlsRead(u)' = Controls!ControlsRead(u)
  BY <1>2, ControlsReads, ControlsReadsNext, ListStays
     DEF Controls!ControlsOK, Controls!ControlsWhats, Controls!Sides, Controls!Selections,
         Controls!GetSide, Controls!GetState
<1>4. ControlsLeaves({"comment.visible"} \cup {})
  BY <1>1, <1>2, <1>3 DEF ControlsLeaves, Controls!Defined, Controls!ControlsOK
<1>5. asked' = {a \in asked : a.what \notin {"comment.visible"} \cup {}}
        \cup {[what |-> "comment.visible", value |-> b]}
  BY DEF Controls!Wrote, Controls!WroteOver, Controls!Except
<1>6. "comment.visible" \in Controls!ControlsWhats
  BY DEF Controls!ControlsWhats, Controls!Sides
<1>7. Controls!ControlsLoses([what |-> "comment.visible", value |-> b])'
        \/ Controls!ControlsRead("comment.visible")' = b
  BY <1>2, ControlsReadsNext
     DEF Controls!ControlsLoses, Controls!OnOff, Controls!GetState, Controls!ControlsOK
<1>8. QED
  BY <1>4, <1>5, <1>6, <1>7, ControlsSet

LEMMA CommentTextSetKeeps ==
    ASSUME ControlsFine, NEW t, Controls!SetCommentText(t)
    PROVE  ControlsFine'
<1> USE DEF ControlsFine, Controls!SetCommentText, Controls!PutComment
<1>1. Controls!ControlsOK'
  BY DEF Controls!ControlsOK, Controls!OnOff, Controls!Sides, Controls!Millimeters
<1>2. /\ DOMAIN names = {"one", "two"} /\ DOMAIN names' = {"one", "two"}
      /\ UNCHANGED <<items, picks, names, sheet>>
  BY NamesAre
<1>3. \A u \in Controls!ControlsWhats \ ({"comment.text"} \cup {} \cup {"one", "two"}) :
          Controls!ControlsRead(u)' = Controls!ControlsRead(u)
  BY <1>2, ControlsReads, ControlsReadsNext, ListStays
     DEF Controls!ControlsOK, Controls!ControlsWhats, Controls!Sides, Controls!Selections,
         Controls!GetSide, Controls!GetState
<1>4. ControlsLeaves({"comment.text"} \cup {})
  BY <1>1, <1>2, <1>3 DEF ControlsLeaves, Controls!Defined, Controls!ControlsOK
<1>5. asked' = {a \in asked : a.what \notin {"comment.text"} \cup {}}
        \cup {[what |-> "comment.text", value |-> t]}
  BY DEF Controls!Wrote, Controls!WroteOver, Controls!Except
<1>6. "comment.text" \in Controls!ControlsWhats
  BY DEF Controls!ControlsWhats, Controls!Sides
<1>7. Controls!ControlsLoses([what |-> "comment.text", value |-> t])'
        \/ Controls!ControlsRead("comment.text")' = t
  BY <1>2, ControlsReadsNext
     DEF Controls!ControlsLoses, Controls!OnOff, Controls!GetState, Controls!ControlsOK
<1>8. QED
  BY <1>4, <1>5, <1>6, <1>7, ControlsSet

LEMMA SideSetKeeps ==
    ASSUME ControlsFine, NEW l \in Controls!Sides, NEW n \in {0, 34}, Controls!SetSide(l, n)
    PROVE  ControlsFine'
<1> USE DEF ControlsFine, Controls!SetSide, Controls!Put
<1>1. Controls!ControlsOK'
  BY DEF Controls!ControlsOK, Controls!OnOff, Controls!Sides, Controls!Millimeters
<1>2. /\ DOMAIN names = {"one", "two"} /\ DOMAIN names' = {"one", "two"}
      /\ UNCHANGED <<items, picks, names, sheet>>
  BY NamesAre
<1>3. \A u \in Controls!ControlsWhats \ ({l} \cup {} \cup {"one", "two"}) :
          Controls!ControlsRead(u)' = Controls!ControlsRead(u)
  BY <1>2, ControlsReads, ControlsReadsNext, ListStays
     DEF Controls!ControlsOK, Controls!ControlsWhats, Controls!Sides, Controls!Selections,
         Controls!GetSide, Controls!GetState
<1>4. ControlsLeaves({l} \cup {})
  BY <1>1, <1>2, <1>3 DEF ControlsLeaves, Controls!Defined, Controls!ControlsOK
<1>5. asked' = {a \in asked : a.what \notin {l} \cup {}} \cup {[what |-> l, value |-> n]}
  BY DEF Controls!Wrote, Controls!WroteOver, Controls!Except
<1>6. l \in Controls!ControlsWhats
  BY DEF Controls!ControlsWhats, Controls!Sides
<1>7. n - Controls!GetSide(l)' \in 0..3
  <2>1. /\ (0 * 3528) \div 10000 = 0 /\ (0 * 28345 + 5000) \div 10000 = 0
        /\ (34 * 3528) \div 10000 = 11 /\ (11 * 28345 + 5000) \div 10000 = 31
    OBVIOUS
  <2>2. control'.at[l] = Controls!Millimeters(n)
    BY DEF Controls!ControlsOK
  <2>3. n = 0 => Controls!GetSide(l)' = 0
    BY <2>1, <2>2 DEF Controls!GetSide, Controls!Millimeters, Controls!InPoints
  <2>4. n = 34 => Controls!GetSide(l)' = 31
    BY <2>1, <2>2 DEF Controls!GetSide, Controls!Millimeters, Controls!InPoints
  <2>5. QED
    BY <2>3, <2>4
<1>8. Controls!ControlsLoses([what |-> l, value |-> n])'
  BY <1>7 DEF Controls!ControlsLoses
<1>9. QED
  BY <1>4, <1>5, <1>6, <1>8, ControlsSet DEF Controls!Sides

\* Turning many selections on forgets the value; while they are on none is set.
LEMMA MultiSelectKeeps ==
    ASSUME ControlsFine, NEW b \in Controls!OnOff, Controls!SetMultiSelect(b)
    PROVE  ControlsFine'
<1> DEFINE C == {"multiSelect"} \cup (IF b = "on" \/ control.many = "on" THEN {"value"} ELSE {})
<1> USE DEF ControlsFine, Controls!SetMultiSelect, Controls!Put
<1>1. Controls!ControlsOK' /\ control'.many = b
  BY DEF Controls!ControlsOK
<1>2. /\ DOMAIN names = {"one", "two"} /\ DOMAIN names' = {"one", "two"}
      /\ UNCHANGED <<items, picks, names, sheet, comment>>
  BY NamesAre
<1>3. \A u \in Controls!ControlsWhats \ {"multiSelect", "value", "one", "two"} :
          Controls!ControlsRead(u)' = Controls!ControlsRead(u)
  BY <1>2, ControlsReads, ControlsReadsNext, ListStays
     DEF Controls!ControlsOK, Controls!ControlsWhats, Controls!Sides, Controls!Selections,
         Controls!GetSide, Controls!GetState
<1>4. "value" \notin C => control'.many = control.many
  BY <1>1 DEF Controls!ControlsOK, Controls!OnOff
<1>5. "value" \notin C => Controls!ControlsRead("value")' = Controls!ControlsRead("value")
  BY <1>2, <1>4, ListStays
<1>6. "multiSelect" \in C /\ C \subseteq {"multiSelect", "value"}
  OBVIOUS
<1>7. \A a \in asked : a.what = "value" => control.many = "off"
  BY DEF Controls!ControlsAsked
<1>8. asked' = {a \in asked : a.what \notin C} \cup {[what |-> "multiSelect", value |-> b]}
  <2>1. CASE b = "on"
    BY <2>1 DEF Controls!WroteOver, Controls!Except
  <2>2. CASE b # "on"
    <3>1. asked' = {a \in asked : a.what \notin {"multiSelect"}}
            \cup {[what |-> "multiSelect", value |-> b]}
      BY <2>2 DEF Controls!WroteOver, Controls!Except
    <3>2. \A a \in asked : a.what \notin C <=> a.what \notin {"multiSelect"}
      BY <1>7, <2>2
    <3>3. QED
      BY <3>1, <3>2
  <2>3. QED
    BY <2>1, <2>2
<1> HIDE DEF C
<1>9. ControlsLeaves(C)
  BY <1>1, <1>2, <1>3, <1>4, <1>5, <1>6 DEF ControlsLeaves, Controls!Defined
<1>10. "multiSelect" \in Controls!ControlsWhats
  BY DEF Controls!ControlsWhats
<1>11. Controls!ControlsRead("multiSelect")' = b
  BY <1>1, <1>2, ControlsReadsNext
<1> HIDE DEF ControlsFine, Controls!SetMultiSelect
<1>12. QED
  BY <1>8, <1>9, <1>10, <1>11, ControlsSet

\* What is selected, of as many items as there are: nothing else reads otherwise.
LEMMA PickLeaves ==
    ASSUME ControlsFine, picks' \in Seq(Nat), items' \in Seq({"a", "b", "c"}), index' \in {0, 1},
           NEW C, Controls!Selections \subseteq C, UNCHANGED <<names, sheet, comment>>,
           \/ control' = control
           \/ "combo" \in C /\ \E v : control' = [control EXCEPT !.combo = v]
    PROVE  ControlsLeaves(C)
<1> USE DEF ControlsFine
<1>0. /\ control'.at = control.at /\ control'.enabled = control.enabled /\ control'.live
        = control.live
      /\ control'.visible = control.visible /\ control'.text = control.text /\ control'.max
           = control.max
      /\ control'.lines = control.lines /\ control'.label = control.label
      /\ control'.state = control.state /\ control'.many = control.many
      /\ "combo" \notin C => control'.combo = control.combo
  BY DEF Controls!ControlsOK
<1>1. Controls!ControlsOK'
  BY DEF Controls!ControlsOK
<1>2. DOMAIN names = {"one", "two"} /\ DOMAIN names' = {"one", "two"}
  BY NamesAre
<1>3. \A u \in Controls!ControlsWhats \ (Controls!Selections \cup {"combo", "one", "two"}) :
          Controls!ControlsRead(u)' = Controls!ControlsRead(u)
  BY <1>0, <1>2, ControlsReads, ControlsReadsNext
     DEF Controls!ControlsOK, Controls!ControlsWhats, Controls!Sides, Controls!Selections,
         Controls!GetSide, Controls!GetState
<1>4. "combo" \notin C => Controls!ControlsRead("combo")' = Controls!ControlsRead("combo")
  BY <1>0, <1>2, ControlsReads, ControlsReadsNext
<1>5. "value" \in C
  BY DEF Controls!Selections
<1>6. QED
  BY <1>0, <1>1, <1>2, <1>3, <1>4, <1>5 DEF ControlsLeaves, Controls!Defined

\* The first item that is the value is one.
LEMMA FirstItemIs ==
    ASSUME Controls!ControlsOK, NEW v, v \in {items[i] : i \in DOMAIN items}
    PROVE  Controls!FirstItem(v) \in DOMAIN items /\ items[Controls!FirstItem(v)] = v
<1> DEFINE T == {i \in DOMAIN items : items[i] = v}
           P(i) == items[i] = v /\ \A k \in 1 .. i - 1 : items[k] # v
<1>1. Len(items) \in Nat /\ DOMAIN items = 1 .. Len(items)
  BY DEF Controls!ControlsOK
<1>2. T \subseteq Nat /\ T # {}
  BY <1>1
<1>3. PICK x \in T : \A y \in T : x <= y
  BY <1>2, LeastOfNat
<1>4. \A k \in 1 .. x - 1 : k \in DOMAIN items /\ ~(x <= k)
  BY <1>1
<1>5. x \in DOMAIN items /\ P(x)
  BY <1>3, <1>4
<1> HIDE DEF P
<1>6. (CHOOSE i \in DOMAIN items : P(i)) \in DOMAIN items /\ P(CHOOSE i \in DOMAIN items : P(i))
  BY <1>5
<1>7. Controls!FirstItem(v) = CHOOSE i \in DOMAIN items : P(i)
  BY DEF Controls!FirstItem, P
<1>8. QED
  BY <1>6, <1>7 DEF P

LEMMA ValueSetKeeps ==
    ASSUME ControlsFine, NEW v, Controls!SetValue(v)
    PROVE  ControlsFine'
<1>1. CASE UNCHANGED controlVars /\ UNCHANGED asked
  BY <1>1, ControlsRefused
<1>2. CASE /\ control.many = "off" /\ v \in {items[i] : i \in DOMAIN items}
           /\ Controls!Pick(<<Controls!FirstItem(v) - 1>>)
           /\ Controls!WroteOver("value", v, Controls!Selections)
  <2> DEFINE C == {"value"} \cup Controls!Selections
             i == Controls!FirstItem(v)
  <2>1. i \in DOMAIN items /\ items[i] = v
    BY <1>2, FirstItemIs DEF ControlsFine
  <2>2. i - 1 \in Nat /\ (i - 1) + 1 = i
    BY <2>1 DEF ControlsFine, Controls!ControlsOK
  <2> HIDE DEF i
  <2>3. picks' = <<i - 1>> /\ UNCHANGED <<control, items, index, names, sheet, comment>>
    BY <1>2 DEF Controls!Pick, i
  <2>4. picks' \in Seq(Nat) /\ items' \in Seq({"a", "b", "c"}) /\ index' \in {0, 1}
    BY <2>2, <2>3 DEF ControlsFine, Controls!ControlsOK
  <2>5. ControlsLeaves(C)
    <3>1. Controls!Selections \subseteq C
      OBVIOUS
    <3> HIDE DEF C
    <3>2. QED
      BY <2>3, <2>4, <3>1, PickLeaves
  <2>6. asked' = {a \in asked : a.what \notin C} \cup {[what |-> "value", value |-> v]}
    BY <1>2 DEF Controls!WroteOver, Controls!Except
  <2>7. control'.many = "off" /\ Controls!GetValue' = v
    BY <1>2, <2>1, <2>2, <2>3 DEF Controls!GetValue
  <2>8. Controls!ControlsRead("value")' = v /\ "value" \in Controls!ControlsWhats
    BY <2>5, <2>7, NamesAreNext, ControlsReadsNext
       DEF ControlsLeaves, Controls!ControlsWhats, Controls!Selections
  <2> HIDE DEF C
  <2>9. QED
    BY <2>5, <2>6, <2>7, <2>8, ControlsSet
<1>3. QED
  BY <1>1, <1>2 DEF Controls!SetValue, Controls!Same, Controls!Throws, Controls!controlVars,
     controlVars

\* A call after which nothing is known of what is selected.
LEMMA ListChangedKeeps ==
    ASSUME ControlsFine, picks' \in Seq(Nat), items' \in Seq({"a", "b", "c"}), index' \in {0, 1},
           NEW C, Controls!Selections \subseteq C, UNCHANGED <<names, sheet, comment>>,
           \/ control' = control
           \/ "combo" \in C /\ \E v : control' = [control EXCEPT !.combo = v],
           Controls!Changes(C)
    PROVE  ControlsFine'
<1>1. ControlsLeaves(C)
  BY PickLeaves
<1>2. asked' = {a \in asked : a.what \notin C}
  BY DEF Controls!Changes, Controls!Except
<1>3. QED
  BY <1>1, <1>2, ControlsOther

LEMMA ListIs ==
    ASSUME ControlsFine
    PROVE  /\ picks \in Seq(Nat) /\ items \in Seq({"a", "b", "c"}) /\ index \in {0, 1}
           /\ \A out : Controls!Dropping(picks, out) \in Seq(Nat)
<1>1. picks \in Seq(Nat) /\ items \in Seq({"a", "b", "c"}) /\ index \in {0, 1}
  BY DEF ControlsFine, Controls!ControlsOK
<1>2. \A out : Dropping(picks, out) \in Seq(Nat)
  BY <1>1, DroppingHas
<1>3. \A out : Controls!Dropping(picks, out) = Dropping(picks, out)
  BY DroppingIs
<1>4. QED
  BY <1>1, <1>2, <1>3

LEMMA ItemsSetKeeps ==
    ASSUME ControlsFine, NEW s \in Seq({"a", "b", "c"}), Controls!SetItems(s)
    PROVE  ControlsFine'
<1>1. picks' \in Seq(Nat)
  <2>1. <<>> \in Seq(Nat)
    OBVIOUS
  <2>2. QED
    BY <2>1, ListIs DEF Controls!SetItems
<1>2. items' = s /\ UNCHANGED <<control, index, names, sheet, comment>>
        /\ Controls!Changes(Controls!Selections)
  BY DEF Controls!SetItems, Controls!Clobbers
<1>3. index' \in {0, 1}
  BY <1>2, ListIs
<1>4. QED
  BY <1>1, <1>2, <1>3, ListChangedKeeps

LEMMA AddItemKeeps ==
    ASSUME ControlsFine, NEW v \in {"a", "b", "c"}, NEW i \in 0..Len(items), Controls!AddItem(v, i)
    PROVE  ControlsFine'
<1>1. items \in Seq({"a", "b", "c"}) /\ Len(items) \in Nat
  BY ListIs
<1>2. SubSeq(items, 1, i) \in Seq({"a", "b", "c"})
        /\ SubSeq(items, i + 1, Len(items)) \in Seq({"a", "b", "c"})
  BY <1>1
<1>3. SubSeq(items, 1, i) \o <<v>> \o SubSeq(items, i + 1, Len(items)) \in Seq({"a", "b", "c"})
  BY <1>2
<1>4. QED
  BY <1>3, ItemsSetKeeps DEF Controls!AddItem

LEMMA ClearsKeep ==
    ASSUME ControlsFine, Controls!ClearList \/ Controls!ClearCombo
    PROVE  ControlsFine'
<1>1. CASE Controls!ClearList
  <2>1. <<>> \in Seq({"a", "b", "c"})
    OBVIOUS
  <2>2. QED
    BY <1>1, <2>1, ItemsSetKeeps DEF Controls!ClearList
<1>2. CASE Controls!ClearCombo
  <2> DEFINE C == {"combo"} \cup Controls!Selections
             none == ""
  <2>1. /\ control' = [control EXCEPT !.combo = none]
        /\ items' = <<>> /\ picks' = <<>> /\ UNCHANGED <<index, names, sheet, comment>>
        /\ Controls!Changes(C)
    BY <1>2 DEF Controls!ClearCombo
  <2>2. Controls!Selections \subseteq C /\ "combo" \in C
    OBVIOUS
  <2> HIDE DEF C, none
  <2>3. items' \in Seq({"a", "b", "c"}) /\ picks' \in Seq(Nat) /\ index' \in {0, 1}
    BY <2>1, ListIs
  <2>4. QED
    BY <2>1, <2>2, <2>3, ListChangedKeeps
<1>3. QED
  BY <1>1, <1>2

\* Selecting by the index the object remembers: it is selected, or not, afterwards.
LEMMA PickedNow ==
    ASSUME ControlsFine, NEW b \in Controls!OnOff, NEW i \in {0, 1}, Controls!SetSelected(i, b)
    PROVE  picks' \in Seq(Nat) /\ (b = "on" <=> index \in Controls!Picked')
<1>1. picks \in Seq(Nat) /\ index \in Nat /\ Len(picks) \in Nat
  BY ListIs
<1>2. CASE b = "on" /\ index \in Controls!Picked
  BY <1>1, <1>2 DEF Controls!SetSelected, Controls!Pick, Controls!Picked
<1>3. CASE b = "off"
  <2>1. picks' = Controls!Dropping(picks, {index})
    BY <1>3 DEF Controls!SetSelected, Controls!Pick
  <2>2. picks' = Dropping(picks, {index})
    BY <2>1, DroppingIs
  <2> DEFINE t == Dropping(picks, {index})
  <2>3. t \in Seq(Nat)
    BY <1>1, DroppingDrops
  <2>4. \A n \in DOMAIN t : t[n] # index
    BY <1>1, DroppingDrops
  <2> HIDE DEF t
  <2>5. picks' = t
    BY <2>2 DEF t
  <2>6. QED
    BY <1>3, <2>3, <2>4, <2>5 DEF Controls!Picked
<1>4. CASE b = "on" /\ index \notin Controls!Picked
  <2>1. picks' = Append(picks, index) \/ picks' = <<index>>
    BY <1>4 DEF Controls!SetSelected, Controls!Pick
  <2>2. CASE picks' = Append(picks, index)
    <3>1. picks' \in Seq(Nat) /\ Len(picks) + 1 \in DOMAIN picks' /\ picks'[Len(picks) + 1] = index
      BY <1>1, <2>2
    <3>2. QED
      BY <1>4, <3>1 DEF Controls!Picked
  <2>3. CASE picks' = <<index>>
    <3>1. picks' \in Seq(Nat) /\ 1 \in DOMAIN picks' /\ picks'[1] = index
      BY <1>1, <2>3
    <3>2. QED
      BY <1>4, <3>1 DEF Controls!Picked
  <2>4. QED
    BY <2>1, <2>2, <2>3
<1>5. QED
  BY <1>2, <1>3, <1>4 DEF Controls!OnOff

LEMMA SelectedSetKeeps ==
    ASSUME ControlsFine, NEW b \in Controls!OnOff, NEW i \in {0, 1}, Controls!SetSelected(i, b)
    PROVE  ControlsFine'
<1>1. /\ picks' \in Seq(Nat) /\ items' \in Seq({"a", "b", "c"}) /\ index' \in {0, 1}
      /\ control' = control /\ UNCHANGED <<index, names, sheet, comment>>
  BY ListIs, PickedNow DEF Controls!SetSelected, Controls!Pick
<1>2. CASE index # i
  <2>1. Controls!Changes(Controls!Selections)
    BY <1>2 DEF Controls!SetSelected, Controls!Clobbers
  <2>2. QED
    BY <1>1, <2>1, ListChangedKeeps
<1>3. CASE index = i
  <2> DEFINE w == IF i = 0 THEN "selected0" ELSE "selected1"
             C == {w} \cup Controls!Selections
  <2>1. asked' = {a \in asked : a.what \notin C} \cup {[what |-> w, value |-> b]}
    BY <1>3 DEF Controls!SetSelected, Controls!WroteOver, Controls!Except
  <2>2. Controls!Selections \subseteq C
    OBVIOUS
  <2>3. w \in Controls!ControlsWhats /\ w # "value" /\ w \notin {"one", "two"}
    BY DEF Controls!ControlsWhats, Controls!Selections
  <2>4. Controls!GetSelected(i)' = b
    <3>1. b = "on" <=> i \in Controls!Picked'
      BY <1>3, PickedNow
    <3>2. QED
      BY <3>1 DEF Controls!GetSelected, Controls!OnOff
  <2> HIDE DEF C
  <2>5. ControlsLeaves(C)
    BY <1>1, <2>2, PickLeaves
  <2>6. Controls!ControlsRead(w)' = b
    BY <2>4, <2>5, NamesAreNext, ControlsReadsNext DEF ControlsLeaves
  <2> HIDE DEF w
  <2>7. QED
    BY <2>1, <2>3, <2>5, <2>6, ControlsSet
<1>4. QED
  BY <1>2, <1>3

\* What changes nothing that is read.
LEMMA SelectedKeeps ==
    ASSUME ControlsFine, NEW i \in {0, 1}, Controls!Selected(i)
    PROVE  ControlsFine'
<1> DEFINE C == {}
<1> USE DEF ControlsFine, Controls!Selected
<1>1. Controls!ControlsOK'
  BY DEF Controls!ControlsOK
<1>2. /\ DOMAIN names = {"one", "two"} /\ DOMAIN names' = {"one", "two"}
      /\ UNCHANGED <<control, items, picks, names, sheet, comment>>
  BY NamesAre
<1>3. \A u \in Controls!ControlsWhats \ (C \cup {"one", "two"}) :
          Controls!ControlsRead(u)' = Controls!ControlsRead(u)
  BY <1>2, ControlsReads, ControlsReadsNext, ListStays
     DEF Controls!ControlsOK, Controls!ControlsWhats, Controls!Sides, Controls!Selections,
         Controls!GetSide, Controls!GetState
<1>4. ControlsLeaves(C)
  BY <1>1, <1>2, <1>3 DEF ControlsLeaves, Controls!Defined
<1>5. asked' = {a \in asked : a.what \notin C}
  BY DEF Controls!Answers
<1> HIDE DEF C
<1>6. QED
  BY <1>4, <1>5, ControlsOther

\* Names: a call that defines, changes or deletes names, or goes to another sheet.
LEMMA NamesLeave ==
    ASSUME ControlsFine, UNCHANGED <<control, items, picks, index, comment>>,
           sheet' \in Controls!Sheets,
           names' \in [one : Controls!Sheets \cup {Controls!NoSheet}, two :
           Controls!Sheets \cup {Controls!NoSheet}],
           NEW C, \A n \in {"one", "two"} \ C : Controls!Defined(n) => Controls!Defined(n)'
    PROVE  ControlsLeaves(C)
<1> USE DEF ControlsFine
<1>1. Controls!ControlsOK'
  BY DEF Controls!ControlsOK
<1>2. /\ DOMAIN names = {"one", "two"} /\ DOMAIN names' = {"one", "two"}
      /\ UNCHANGED <<control, items, picks, comment>>
  BY <1>1, NamesAre, NamesAreNext
<1>3. \A u \in Controls!ControlsWhats \ (C \cup {"one", "two"}) :
          Controls!ControlsRead(u)' = Controls!ControlsRead(u)
  BY <1>2, ControlsReads, ControlsReadsNext, ListStays
     DEF Controls!ControlsOK, Controls!ControlsWhats, Controls!Sides, Controls!Selections,
         Controls!GetSide, Controls!GetState
<1>4. QED
  BY <1>1, <1>2, <1>3 DEF ControlsLeaves

LEMMA SheetsAre ==
    ASSUME ControlsFine
    PROVE  /\ sheet \in Controls!Sheets
           /\ names \in [one : Controls!Sheets \cup {Controls!NoSheet}, two :
                Controls!Sheets \cup {Controls!NoSheet}]
           /\ \A s \in Controls!Sheets : s # Controls!NoSheet
  BY DEF ControlsFine, Controls!ControlsOK, Controls!Sheets, Controls!NoSheet

LEMMA NameSetKeeps ==
    ASSUME ControlsFine, NEW n \in {"one", "two"}, NEW s \in Controls!Sheets, NEW v,
           Controls!PutNames([names EXCEPT ![n] = s]), Controls!Wrote(n, v)
    PROVE  ControlsFine'
<1> DEFINE C == {n} \cup {}
<1>1. /\ UNCHANGED <<control, items, picks, index, comment>> /\ sheet' \in Controls!Sheets
      /\ names' \in [one : Controls!Sheets \cup {Controls!NoSheet}, two :
           Controls!Sheets \cup {Controls!NoSheet}]
  BY SheetsAre DEF Controls!PutNames
<1>2. Controls!Defined(n)' /\ \A m \in {"one", "two"} \ C :
        Controls!Defined(m) => Controls!Defined(m)'
  BY SheetsAre DEF Controls!PutNames, Controls!Defined
<1>3. asked' = {a \in asked : a.what \notin C} \cup {[what |-> n, value |-> v]}
  BY DEF Controls!Wrote, Controls!WroteOver, Controls!Except
<1>4. n \in Controls!ControlsWhats /\ n # "value"
  BY NamesAre DEF ControlsFine, Controls!ControlsWhats
<1> HIDE DEF C
<1>5. ControlsLeaves(C)
  BY <1>1, <1>2, NamesLeave
<1>6. QED
  BY <1>2, <1>3, <1>4, <1>5, ControlsSet

LEMMA DeleteNameKeeps ==
    ASSUME ControlsFine, NEW n \in {"one", "two"}, Controls!DeleteName(n)
    PROVE  ControlsFine'
<1>1. CASE UNCHANGED controlVars /\ UNCHANGED asked
  BY <1>1, ControlsRefused
<1>2. CASE Controls!PutNames([names EXCEPT ![n] = Controls!NoSheet]) /\ Controls!Changes({n})
  <2> DEFINE C == {n}
  <2>1. /\ UNCHANGED <<control, items, picks, index, comment>> /\ sheet' \in Controls!Sheets
        /\ names' \in [one : Controls!Sheets \cup {Controls!NoSheet}, two :
             Controls!Sheets \cup {Controls!NoSheet}]
    BY <1>2, SheetsAre DEF Controls!PutNames
  <2>2. \A m \in {"one", "two"} \ C : Controls!Defined(m) => Controls!Defined(m)'
    BY <1>2, SheetsAre DEF Controls!PutNames, Controls!Defined
  <2>3. asked' = {a \in asked : a.what \notin C}
    BY <1>2 DEF Controls!Changes, Controls!Except
  <2> HIDE DEF C
  <2>4. QED
    BY <2>1, <2>2, <2>3, NamesLeave, ControlsOther
<1>3. QED
  BY <1>1, <1>2 DEF Controls!DeleteName, Controls!Same, Controls!Throws, Controls!controlVars,
     controlVars

LEMMA RenameKeeps ==
    ASSUME ControlsFine, NEW n \in {"one", "two"}, NEW m \in {"one", "two"}, n # m,
           Controls!Rename(n, m)
    PROVE  ControlsFine'
<1>1. CASE UNCHANGED controlVars /\ UNCHANGED asked
  BY <1>1, ControlsRefused
<1>2. CASE /\ Controls!PutNames([names EXCEPT ![n] = Controls!NoSheet, ![m] = names[n]])
           /\ Controls!Changes({n, m})
  <2> DEFINE C == {n, m}
  <2>1. /\ UNCHANGED <<control, items, picks, index, comment>> /\ sheet' \in Controls!Sheets
        /\ names' \in [one : Controls!Sheets \cup {Controls!NoSheet}, two :
             Controls!Sheets \cup {Controls!NoSheet}]
    BY <1>2, SheetsAre DEF Controls!PutNames
  <2>2. \A k \in {"one", "two"} \ C : Controls!Defined(k) => Controls!Defined(k)'
    OBVIOUS
  <2>3. asked' = {a \in asked : a.what \notin C}
    BY <1>2 DEF Controls!Changes, Controls!Except
  <2> HIDE DEF C
  <2>4. QED
    BY <2>1, <2>2, <2>3, NamesLeave, ControlsOther
<1>3. QED
  BY <1>1, <1>2
     DEF Controls!Rename, Controls!Same, Controls!Throws, Controls!Answers,
        Controls!controlVars, controlVars

LEMMA SheetActivatedKeeps ==
    ASSUME ControlsFine, NEW s \in Controls!Sheets, Controls!ActivateSheet(s)
    PROVE  ControlsFine'
<1> DEFINE C == {}
<1>1. /\ UNCHANGED <<control, items, picks, index, comment>> /\ sheet' \in Controls!Sheets
      /\ names' \in [one : Controls!Sheets \cup {Controls!NoSheet}, two :
           Controls!Sheets \cup {Controls!NoSheet}]
  BY SheetsAre DEF Controls!ActivateSheet
<1>2. \A k \in {"one", "two"} \ C : Controls!Defined(k) => Controls!Defined(k)'
  BY DEF Controls!ActivateSheet, Controls!Defined
<1>3. asked' = {a \in asked : a.what \notin C}
  BY DEF Controls!ActivateSheet, Controls!Answers
<1> HIDE DEF C
<1>4. QED
  BY <1>1, <1>2, <1>3, NamesLeave, ControlsOther

\* Comments
LEMMA CommentLeaves ==
    ASSUME ControlsFine, UNCHANGED <<control, items, picks, index, names, sheet>>,
           DOMAIN comment' = {"there", "visible", "text"},
           NEW C, "comment.text" \in C, "comment.visible" \in C \/ comment'.visible
           = comment.visible
    PROVE  ControlsLeaves(C)
<1> USE DEF ControlsFine
<1>1. Controls!ControlsOK'
  BY DEF Controls!ControlsOK
<1>2. /\ DOMAIN names = {"one", "two"} /\ DOMAIN names' = {"one", "two"}
      /\ UNCHANGED <<control, items, picks, names>>
  BY NamesAre
<1>3. \A u \in Controls!ControlsWhats \ (C \cup {"one", "two"}) :
          Controls!ControlsRead(u)' = Controls!ControlsRead(u)
  BY <1>2, ControlsReads, ControlsReadsNext, ListStays
     DEF Controls!ControlsOK, Controls!ControlsWhats, Controls!Sides, Controls!Selections,
         Controls!GetSide, Controls!GetState
<1>4. QED
  BY <1>1, <1>2, <1>3 DEF ControlsLeaves, Controls!Defined

LEMMA CommentTextAtKeeps ==
    ASSUME ControlsFine, NEW t, NEW start, NEW b, Controls!CommentTextAt(t, start, b)
    PROVE  ControlsFine'
<1> DEFINE new == SubSeq(comment.text, 1, start - 1) \o t \o
                  (IF b THEN <<>> ELSE SubSeq(comment.text, start, Len(comment.text)))
           C == {"comment.text"} \cup {}
<1>1. Controls!PutComment([comment EXCEPT !.text = new]) /\ Controls!Wrote("comment.text", new)
  BY Zenon DEF Controls!CommentTextAt
<1> HIDE DEF new
<1>2. /\ UNCHANGED <<control, items, picks, index, names, sheet>>
      /\ DOMAIN comment' = {"there", "visible", "text"}
      /\ comment'.visible = comment.visible /\ comment'.text = new
  BY <1>1 DEF Controls!PutComment, ControlsFine, Controls!ControlsOK
<1>3. asked' = {a \in asked : a.what \notin C} \cup {[what |-> "comment.text", value |-> new]}
  BY <1>1 DEF Controls!Wrote, Controls!WroteOver, Controls!Except
<1>4. "comment.text" \in Controls!ControlsWhats /\ "comment.text" \in C
  BY DEF Controls!ControlsWhats
<1> HIDE DEF C
<1>5. ControlsLeaves(C)
  BY <1>2, <1>4, CommentLeaves
<1>6. Controls!ControlsRead("comment.text")' = new
  BY <1>2, <1>5, NamesAreNext, ControlsReadsNext DEF ControlsLeaves
<1>7. QED
  BY <1>3, <1>4, <1>5, <1>6, ControlsSet

LEMMA DeleteCommentKeeps ==
    ASSUME ControlsFine, Controls!DeleteComment
    PROVE  ControlsFine'
<1> DEFINE C == {"comment.visible", "comment.text"}
<1>1. /\ UNCHANGED <<control, items, picks, index, names, sheet>>
      /\ DOMAIN comment' = {"there", "visible", "text"}
  BY DEF Controls!DeleteComment, Controls!PutComment, Controls!NoComment
<1>2. asked' = {a \in asked : a.what \notin C}
  BY DEF Controls!DeleteComment, Controls!Changes, Controls!Except
<1>3. "comment.text" \in C /\ "comment.visible" \in C
  OBVIOUS
<1> HIDE DEF C
<1>4. QED
  BY <1>1, <1>2, <1>3, CommentLeaves, ControlsOther

\* The calls.
LEMMA SetsControlKeeps == ASSUME ControlsFine, Controls!SetsControl PROVE ControlsFine'
<1>1. ASSUME NEW l \in Controls!Sides, NEW n \in {0, 34},
             Controls!SetSide(l, n) \/ Controls!SetObjectSide(l, n)
      PROVE  ControlsFine'
  BY <1>1, SideSetKeeps DEF Controls!SetObjectSide
<1>2. ASSUME NEW b \in Controls!OnOff, Controls!SetEnabled(b) PROVE ControlsFine'
  BY <1>2, EnabledSetKeeps
<1>3. ASSUME NEW b \in Controls!OnOff, Controls!SetVisible(b) PROVE ControlsFine'
  <2>1. CASE Controls!SetObjectVisible(b)
    BY <2>1, ObjectVisibleSetKeeps
  <2>2. CASE UNCHANGED controlVars /\ UNCHANGED asked
    BY <2>2, ControlsRefused
  <2>3. QED
    BY <1>3, <2>1, <2>2
       DEF Controls!SetVisible, Controls!SetObjectVisible, Controls!Same, Controls!Throws,
           Controls!controlVars, controlVars
<1>4. ASSUME NEW b \in Controls!OnOff, Controls!SetObjectEnabled(b) PROVE ControlsFine'
  BY <1>4, ObjectEnabledSetKeeps
<1>5. ASSUME NEW b \in Controls!OnOff, Controls!SetObjectVisible(b) PROVE ControlsFine'
  BY <1>5, ObjectVisibleSetKeeps
<1>6. ASSUME NEW b \in Controls!OnOff, Controls!SetMultiline(b) PROVE ControlsFine'
  BY <1>6, MultilineSetKeeps
<1>7. ASSUME NEW b \in Controls!OnOff, Controls!SetState(b) PROVE ControlsFine'
  BY <1>7, StateOfSetKeeps
<1>8. QED
  BY <1>1, <1>2, <1>3, <1>4, <1>5, <1>6, <1>7, TextSetKeeps, LabelSetKeeps, MaxLengthSetKeeps
     DEF Controls!SetsControl

LEMMA SetsListKeeps == ASSUME ControlsFine, Controls!SetsList PROVE ControlsFine'
<1>1. ASSUME NEW b \in Controls!OnOff, Controls!SetMultiSelect(b) \/ \E i \in {0, 1} :
             Controls!SetSelected(i, b)
      PROVE  ControlsFine'
  BY <1>1, MultiSelectKeeps, SelectedSetKeeps
<1>2. ASSUME NEW v \in {"a", "b", "c"},
             Controls!SetValue(v) \/ \E i \in 0..Len(items) : Controls!AddItem(v, i)
      PROVE  ControlsFine'
  BY <1>2, ValueSetKeeps, AddItemKeeps
<1>3. ASSUME Controls!Selected(0) \/ Controls!Selected(1) PROVE ControlsFine'
  BY <1>3, SelectedKeeps
<1>4. QED
  BY <1>1, <1>2, <1>3, ClearsKeep, ComboSetKeeps DEF Controls!SetsList

LEMMA SetsNameKeeps == ASSUME ControlsFine, Controls!SetsName PROVE ControlsFine'
<1>1. DOMAIN names = {"one", "two"}
  BY NamesAre DEF ControlsFine
<1>2. ASSUME NEW n \in {"one", "two"}, NEW s \in Controls!Sheets, Controls!AddName(n, s)
      PROVE  ControlsFine'
  BY <1>2, NameSetKeeps DEF Controls!AddName
<1>3. ASSUME NEW n \in {"one", "two"}, NEW s \in Controls!Sheets, Controls!SetRefersTo(n, s)
      PROVE  ControlsFine'
  BY <1>3, NameSetKeeps, SheetsAre DEF Controls!SetRefersTo
<1>4. ASSUME Controls!AddNoRange \/ Controls!AddInvalid PROVE ControlsFine'
  BY <1>4, ControlsRefused
     DEF Controls!AddNoRange, Controls!AddInvalid, Controls!Same, Controls!Throws, Controls!Answers,
         Controls!controlVars, controlVars
<1>5. ASSUME NEW b \in Controls!OnOff, Controls!SetNameVisible(b) PROVE ControlsFine'
  BY <1>5, NameVisibleSetKeeps
<1>6. ASSUME Controls!Rename("one", "two") \/ Controls!Rename("two", "one") PROVE ControlsFine'
  BY <1>6, RenameKeeps
<1>7. QED
  BY <1>1, <1>2, <1>3, <1>4, <1>5, <1>6, DeleteNameKeeps, SheetActivatedKeeps DEF Controls!SetsName

LEMMA SetsCommentKeeps == ASSUME ControlsFine, Controls!SetsComment PROVE ControlsFine'
<1>1. ASSUME NEW b \in Controls!OnOff, Controls!SetCommentVisible(b) PROVE ControlsFine'
  BY <1>1, CommentVisibleSetKeeps
<1>2. ASSUME Controls!SetCommentText(<<"t">>) PROVE ControlsFine'
  BY <1>2, CommentTextSetKeeps
<1>3. ASSUME NEW start \in {1, 2}, NEW b \in BOOLEAN, Controls!CommentTextAt(<<"t">>, start, b)
      PROVE  ControlsFine'
  BY <1>3, CommentTextAtKeeps
<1>4. ASSUME Controls!TextRefused PROVE ControlsFine'
  BY <1>4, ControlsRefused DEF Controls!TextRefused, Controls!Same, Controls!Throws,
     Controls!controlVars, controlVars
<1>5. QED
  BY <1>1, <1>2, <1>3, <1>4, AuthorSetKeeps, DeleteCommentKeeps DEF Controls!SetsComment

LEMMA ControlsCallKeeps == ASSUME ControlsFine, Controls!ControlsCall PROVE ControlsFine'
  BY SetsControlKeeps, SetsListKeeps, SetsNameKeeps, SetsCommentKeeps DEF Controls!ControlsCall

-----------------------------------------------------------------------------
(* Shapes *)

ShapeIds == {"box", "rest", "new", "newer"}

\* What a macro reads of a shape, and of a colour and an arrow.
ArrowOf(n) == IF \E v \in DOMAIN Shapes!Arrows : Shapes!Arrows[v] = n
              THEN CHOOSE v \in DOMAIN Shapes!Arrows : Shapes!Arrows[v] = n ELSE "none"
SchemeOf(c) == CHOOSE i \in DOMAIN Shapes!Scheme :
                  /\ Shapes!Scheme[i] = Shapes!Swap(c) \/ i = Len(Shapes!Scheme)
                  /\ \A k \in 1 .. i - 1 : Shapes!Scheme[k] # Shapes!Swap(c)

LEMMA ShapesReads ==
    /\ \A l \in Shapes!Lengths \cup Shapes!Margins :
          Shapes!ShapesRead(l) = Shapes!Points(shape.at[l])
    /\ Shapes!ShapesRead("rotation") = (shape.angle \div 100) * 100
    /\ Shapes!ShapesRead("visible") = "on"
    /\ Shapes!ShapesRead("position") = Shapes!Position("box")
    /\ Shapes!ShapesRead("autoSize") = shape.grow
    /\ Shapes!ShapesRead("brightness") = Shapes!OfHundred(shape.luminance)
    /\ Shapes!ShapesRead("contrast") = Shapes!OfHundred(shape.contrast)
    /\ Shapes!ShapesRead("arrow") = ArrowOf(shape.arrow)
    /\ Shapes!ShapesRead("endArrow") = "none"
    /\ Shapes!ShapesRead("lineStyle") = "single"
    /\ Shapes!ShapesRead("line.dash") = IF shape.lineStyle = "solid" THEN "solid" ELSE shape.dash
    /\ Shapes!ShapesRead("line.weight") = (shape.weight * 10000 + 17639) \div 35278
    /\ Shapes!ShapesRead("line.visible") = IF shape.lineStyle = "none" THEN "off" ELSE "on"
    /\ Shapes!ShapesRead("line.clear") = shape.lineClear
    /\ Shapes!ShapesRead("line.fore") = Shapes!Swap(shape.lineColor)
    /\ Shapes!ShapesRead("line.back") = "black"
    /\ Shapes!ShapesRead("fill.fore") = Shapes!Swap(shape.fillColor)
    /\ Shapes!ShapesRead("fill.scheme") = SchemeOf(shape.fillColor)
    /\ Shapes!ShapesRead("fill.visible") = IF shape.fillStyle = "none" THEN "off" ELSE "on"
    /\ Shapes!ShapesRead("fill.clear") = shape.fillClear
    /\ \A id \in ShapeIds : Shapes!ShapesRead(id) = IF Shapes!On(id) THEN "on" ELSE "off"
<1>1. Shapes!GetArrow = ArrowOf(shape.arrow) /\ Shapes!GetSchemeColor = SchemeOf(shape.fillColor)
  BY Zenon DEF Shapes!GetArrow, ArrowOf, Shapes!GetSchemeColor, SchemeOf
<1>2. /\ \A l \in Shapes!Lengths \cup Shapes!Margins : Shapes!ShapesRead(l) = Shapes!GetLength(l)
      /\ Shapes!ShapesRead("rotation") = Shapes!GetRotation
      /\ Shapes!ShapesRead("visible") = Shapes!GetVisible
      /\ Shapes!ShapesRead("position") = Shapes!GetZOrderPosition
      /\ Shapes!ShapesRead("autoSize") = Shapes!GetAutoSize
      /\ Shapes!ShapesRead("brightness") = Shapes!GetBrightness
      /\ Shapes!ShapesRead("contrast") = Shapes!GetContrast
      /\ Shapes!ShapesRead("arrow") = Shapes!GetArrow
      /\ Shapes!ShapesRead("endArrow") = Shapes!GetEndArrow
      /\ Shapes!ShapesRead("lineStyle") = Shapes!GetLineStyle
      /\ Shapes!ShapesRead("line.dash") = Shapes!GetDashStyle
      /\ Shapes!ShapesRead("line.weight") = Shapes!GetWeight
      /\ Shapes!ShapesRead("line.visible") = Shapes!GetLineVisible
      /\ Shapes!ShapesRead("line.clear") = Shapes!GetLineTransparency
      /\ Shapes!ShapesRead("line.fore") = Shapes!GetLineColor
      /\ Shapes!ShapesRead("line.back") = Shapes!GetLineBackColor
      /\ Shapes!ShapesRead("fill.fore") = Shapes!GetForeColor
      /\ Shapes!ShapesRead("fill.scheme") = Shapes!GetSchemeColor
      /\ Shapes!ShapesRead("fill.visible") = Shapes!GetFillVisible
      /\ Shapes!ShapesRead("fill.clear") = Shapes!GetFillTransparency
  BY DEF Shapes!ShapesRead, Shapes!Lengths, Shapes!Margins, Shapes!GetMargin
<1>3. \A id \in ShapeIds : Shapes!ShapesRead(id) = IF Shapes!On(id) THEN "on" ELSE "off"
  BY DEF Shapes!ShapesRead, Shapes!Lengths, Shapes!Margins, ShapeIds
<1>4. QED
  BY <1>1, <1>2, <1>3 DEF Shapes!GetLength, Shapes!GetRotation, Shapes!GetVisible,
     Shapes!GetZOrderPosition, Shapes!GetAutoSize, Shapes!GetBrightness, Shapes!GetContrast,
     Shapes!GetEndArrow, Shapes!GetLineStyle, Shapes!GetDashStyle, Shapes!DashOf, Shapes!GetWeight,
     Shapes!GetLineVisible, Shapes!GetLineTransparency, Shapes!GetLineColor,
     Shapes!GetLineBackColor, Shapes!GetForeColor, Shapes!GetFillVisible, Shapes!GetFillTransparency

LEMMA ShapesReadsNext == ShapesReads!:'
  BY ShapesReads, PTL

ShapesFine ==
    /\ Shapes!ShapesOK /\ Shapes!ShapesAsked
    /\ \A a \in asked : Shapes!ShapesLoses(a) \/ Shapes!ShapesRead(a.what) = a.value

ShapesLeaves(C) ==
    /\ Shapes!ShapesOK' /\ DOMAIN kinds \subseteq DOMAIN kinds'
    /\ "position" \in C \/ (Shapes!On("box") => Shapes!On("box")')
    /\ \A u \in (Shapes!ShapesWhats \cup (DOMAIN kinds \ {"group"})) \ C :
          Shapes!ShapesRead(u)' = Shapes!ShapesRead(u)

\* A length that reads the same is off by as much as before.
LEMMA LosesSame ==
    ASSUME NEW a, Shapes!ShapesRead(a.what)' = Shapes!ShapesRead(a.what)
    PROVE  Shapes!ShapesLoses(a)' = Shapes!ShapesLoses(a)
<1>1. CASE a.what \in Shapes!Lengths \cup Shapes!Margins
  <2>1. Shapes!GetLength(a.what)' = Shapes!GetLength(a.what)
    BY <1>1, ShapesReads, ShapesReadsNext DEF Shapes!GetLength
  <2>2. QED
    BY <2>1, Zenon DEF Shapes!ShapesLoses
<1>2. CASE a.what \notin Shapes!Lengths \cup Shapes!Margins
  BY <1>2 DEF Shapes!ShapesLoses
<1>3. QED
  BY <1>1, <1>2

LEMMA ShapesKept ==
    ASSUME ShapesFine, NEW C, ShapesLeaves(C), NEW a \in asked, a.what \notin C
    PROVE  /\ a.what \in Shapes!ShapesWhats \cup (DOMAIN kinds' \ {"group"})
           /\ a.what = "position" => Shapes!On("box")'
           /\ Shapes!ShapesLoses(a)' \/ Shapes!ShapesRead(a.what)' = a.value
<1>1. /\ a.what \in Shapes!ShapesWhats \cup (DOMAIN kinds \ {"group"})
      /\ a.what = "position" => Shapes!On("box")
      /\ Shapes!ShapesLoses(a) \/ Shapes!ShapesRead(a.what) = a.value
  BY DEF ShapesFine, Shapes!ShapesAsked
<1>2. Shapes!ShapesRead(a.what)' = Shapes!ShapesRead(a.what)
  BY <1>1 DEF ShapesLeaves
<1>3. Shapes!ShapesLoses(a)' = Shapes!ShapesLoses(a)
  BY <1>2, LosesSame
<1>4. QED
  BY <1>1, <1>2, <1>3 DEF ShapesLeaves

LEMMA ShapesSet ==
    ASSUME ShapesFine, NEW C, ShapesLeaves(C), NEW w, NEW v,
           asked' = {a \in asked : a.what \notin C} \cup {[what |-> w, value |-> v]},
           w \in Shapes!ShapesWhats \cup (DOMAIN kinds' \ {"group"}),
           w = "position" => Shapes!On("box")',
           Shapes!ShapesLoses([what |-> w, value |-> v])' \/ Shapes!ShapesRead(w)' = v
    PROVE  ShapesFine'
<1>1. ASSUME NEW a \in asked'
      PROVE  /\ a.what \in Shapes!ShapesWhats \cup (DOMAIN kinds' \ {"group"})
             /\ a.what = "position" => Shapes!On("box")'
             /\ Shapes!ShapesLoses(a)' \/ Shapes!ShapesRead(a.what)' = a.value
  <2>1. CASE a = [what |-> w, value |-> v]
    BY <2>1
  <2>2. CASE a \in asked /\ a.what \notin C
    BY <2>2, ShapesKept
  <2>3. QED
    BY <2>1, <2>2
<1>2. Shapes!ShapesWhats' = Shapes!ShapesWhats
  BY DEF Shapes!ShapesWhats, Shapes!Lengths, Shapes!Margins
<1>3. QED
  BY <1>1, <1>2 DEF ShapesFine, ShapesLeaves, Shapes!ShapesAsked

LEMMA ShapesOther ==
    ASSUME ShapesFine, NEW C, ShapesLeaves(C), asked' = {a \in asked : a.what \notin C}
    PROVE  ShapesFine'
<1>1. ASSUME NEW a \in asked'
      PROVE  /\ a.what \in Shapes!ShapesWhats \cup (DOMAIN kinds' \ {"group"})
             /\ a.what = "position" => Shapes!On("box")'
             /\ Shapes!ShapesLoses(a)' \/ Shapes!ShapesRead(a.what)' = a.value
  BY ShapesKept
<1>2. Shapes!ShapesWhats' = Shapes!ShapesWhats
  BY DEF Shapes!ShapesWhats, Shapes!Lengths, Shapes!Margins
<1>3. QED
  BY <1>1, <1>2 DEF ShapesFine, ShapesLeaves, Shapes!ShapesAsked

\* The shape, and two that differ in nothing but what C names.
IsShape(s) ==
    /\ DOMAIN s = {"at", "angle", "grow", "luminance", "contrast", "lineStyle", "dash",
                   "weight", "lineColor", "lineClear", "arrow", "fillStyle",
                   "fillColor", "fillClear", "gradient"}
    /\ s.at \in [Shapes!Lengths \cup Shapes!Margins -> Int] /\ s.angle \in Int
    /\ s.luminance \in Int /\ s.contrast \in Int
    /\ s.lineStyle \in {"none", "solid", "dash"}
Alike(s, t, C) ==
    /\ \A l \in Shapes!Lengths \cup Shapes!Margins : l \in C \/ t.at[l] = s.at[l]
    /\ "rotation" \in C \/ t.angle = s.angle
    /\ "autoSize" \in C \/ t.grow = s.grow
    /\ "brightness" \in C \/ t.luminance = s.luminance
    /\ "contrast" \in C \/ t.contrast = s.contrast
    /\ "arrow" \in C \/ t.arrow = s.arrow
    /\ \/ "line.dash" \in C
       \/ (IF t.lineStyle = "solid" THEN "solid" ELSE t.dash) =
          (IF s.lineStyle = "solid" THEN "solid" ELSE s.dash)
    /\ "line.weight" \in C \/ t.weight = s.weight
    /\ "line.visible" \in C \/ (t.lineStyle = "none" <=> s.lineStyle = "none")
    /\ "line.clear" \in C \/ t.lineClear = s.lineClear
    /\ "line.fore" \in C \/ t.lineColor = s.lineColor
    /\ {"fill.fore", "fill.scheme"} \subseteq C \/ t.fillColor = s.fillColor
    /\ "fill.visible" \in C \/ (t.fillStyle = "none" <=> s.fillStyle = "none")
    /\ "fill.clear" \in C \/ t.fillClear = s.fillClear
IsPen(p)   == DOMAIN p = {"dash", "weight"}
IsBrush(b) == /\ DOMAIN b = {"style", "angle", "color", "back"}
              /\ b.style \in {"solid", "gradient"} /\ b.color \in {"none", "fore", "back"}

LEMMA ShapeIs ==
    ASSUME Shapes!ShapesOK
    PROVE  /\ IsShape(shape) /\ IsPen(pen) /\ IsBrush(brush)
           /\ page \in Seq(DOMAIN kinds)
           /\ \A i, k \in DOMAIN page : page[i] = page[k] => i = k
           /\ DOMAIN kinds \subseteq ShapeIds \cup {"group"}
  BY DEF Shapes!ShapesOK, IsShape, IsPen, IsBrush, ShapeIds

LEMMA ShapesOKNext ==
    ASSUME IsShape(shape'), IsPen(pen'), IsBrush(brush'), page' \in Seq(DOMAIN kinds'),
           \A i, k \in DOMAIN page' : page'[i] = page'[k] => i = k,
           DOMAIN kinds' \subseteq ShapeIds \cup {"group"}
    PROVE  Shapes!ShapesOK'
  BY DEF Shapes!ShapesOK, IsShape, IsPen, IsBrush, ShapeIds, Shapes!Lengths, Shapes!Margins

LEMMA OnSame ==
    ASSUME page' = page
    PROVE  /\ \A id : Shapes!On(id)' = Shapes!On(id)
           /\ Shapes!Position("box")' = Shapes!Position("box")
  BY Zenon DEF Shapes!On, Shapes!Position

\* A call that touches the shape alone changes what it says it does.
LEMMA ShapeLeaves ==
    ASSUME ShapesFine, NEW C, IsShape(shape'), Alike(shape, shape', C), IsPen(pen'),
           IsBrush(brush'),
           UNCHANGED <<page, kinds>>
    PROVE  ShapesLeaves(C)
<1>1. Shapes!ShapesOK'
  BY ShapeIs, ShapesOKNext DEF ShapesFine
<1>2. /\ \A id : Shapes!On(id)' = Shapes!On(id)
      /\ Shapes!Position("box")' = Shapes!Position("box")
  BY OnSame
<1>3. \A u \in (Shapes!Lengths \cup Shapes!Margins) \ C :
        Shapes!ShapesRead(u)' = Shapes!ShapesRead(u)
  BY ShapesReads, ShapesReadsNext DEF Alike
<1>4. \A u \in {"rotation", "autoSize", "brightness", "contrast", "arrow", "line.weight",
        "line.clear",
                "line.fore", "fill.fore", "fill.scheme", "fill.clear"} \ C :
         Shapes!ShapesRead(u)' = Shapes!ShapesRead(u)
  BY ShapesReads, ShapesReadsNext DEF Alike
<1>5. \A u \in {"line.dash", "line.visible", "fill.visible"} \ C :
         Shapes!ShapesRead(u)' = Shapes!ShapesRead(u)
  BY ShapesReads, ShapesReadsNext DEF Alike
<1>6. \A u \in {"visible", "endArrow", "lineStyle", "line.back", "position"} :
         Shapes!ShapesRead(u)' = Shapes!ShapesRead(u)
  BY <1>2, ShapesReads, ShapesReadsNext
<1>7. \A id \in ShapeIds : Shapes!ShapesRead(id)' = Shapes!ShapesRead(id)
  BY <1>2, ShapesReads, ShapesReadsNext
<1>8. \A u \in (Shapes!ShapesWhats \cup (DOMAIN kinds \ {"group"})) \ C :
         Shapes!ShapesRead(u)' = Shapes!ShapesRead(u)
  <2>1. DOMAIN kinds \ {"group"} \subseteq ShapeIds
    BY ShapeIs DEF ShapesFine
  <2>2. QED
    BY <1>3, <1>4, <1>5, <1>6, <1>7, <2>1 DEF Shapes!ShapesWhats
<1>9. QED
  BY <1>1, <1>2, <1>8 DEF ShapesLeaves

LEMMA ShapesRefused ==
    ASSUME ShapesFine, UNCHANGED <<shape, page, kinds>>, IsPen(pen'), IsBrush(brush'),
           UNCHANGED asked
    PROVE  ShapesFine'
<1>1. ShapesLeaves({})
  BY ShapeIs, ShapeLeaves DEF ShapesFine, Alike
<1>2. asked' = {a \in asked : a.what \notin {}}
  OBVIOUS
<1>3. QED
  BY <1>1, <1>2, ShapesOther

\* Setting one property of the shape changes what is read of that property alone.
LEMMA ShapeWith ==
    ASSUME NEW s, IsShape(s), NEW x
    PROVE /\ x \in Int => LET t == [s EXCEPT !.angle = x]
             IN  IsShape(t) /\ Alike(s, t, {"rotation"}) /\ t.angle = x
          /\ LET t == [s EXCEPT !.grow = x]
             IN  IsShape(t) /\ Alike(s, t, {"autoSize"}) /\ t.grow = x
          /\ x \in Int => LET t == [s EXCEPT !.luminance = x]
             IN  IsShape(t) /\ Alike(s, t, {"brightness"}) /\ t.luminance = x
          /\ x \in Int => LET t == [s EXCEPT !.contrast = x]
             IN  IsShape(t) /\ Alike(s, t, {"contrast"}) /\ t.contrast = x
          /\ LET t == [s EXCEPT !.weight = x]
             IN  IsShape(t) /\ Alike(s, t, {"line.weight"}) /\ t.weight = x
          /\ LET t == [s EXCEPT !.arrow = x]
             IN  IsShape(t) /\ Alike(s, t, {"arrow"}) /\ t.arrow = x
          /\ LET t == [s EXCEPT !.lineClear = x]
             IN  IsShape(t) /\ Alike(s, t, {"line.clear"}) /\ t.lineClear = x
          /\ LET t == [s EXCEPT !.lineColor = x]
             IN  IsShape(t) /\ Alike(s, t, {"line.fore"}) /\ t.lineColor = x
          /\ LET t == [s EXCEPT !.fillStyle = x]
             IN  IsShape(t) /\ Alike(s, t, {"fill.visible"}) /\ t.fillStyle = x
          /\ LET t == [s EXCEPT !.fillClear = x]
             IN  IsShape(t) /\ Alike(s, t, {"fill.clear"}) /\ t.fillClear = x
<1>1. x \in Int
        => LET t == [s EXCEPT !.angle = x] IN IsShape(t) /\ Alike(s, t, {"rotation"}) /\ t.angle = x
  <2> DEFINE t == [s EXCEPT !.angle = x]
  <2>1. DOMAIN t = DOMAIN s /\ t.angle = x /\ \A g \in DOMAIN s : g # "angle" => t[g] = s[g]
    BY DEF IsShape
  <2> HIDE DEF t
  <2>2. x \in Int => IsShape(t) /\ Alike(s, t, {"rotation"})
    BY <2>1 DEF IsShape, Alike
  <2>3. QED
    BY <2>1, <2>2 DEF t
<1>2. LET t == [s EXCEPT !.grow = x] IN IsShape(t) /\ Alike(s, t, {"autoSize"}) /\ t.grow = x
  <2> DEFINE t == [s EXCEPT !.grow = x]
  <2>1. DOMAIN t = DOMAIN s /\ t.grow = x /\ \A g \in DOMAIN s : g # "grow" => t[g] = s[g]
    BY DEF IsShape
  <2> HIDE DEF t
  <2>2. IsShape(t) /\ Alike(s, t, {"autoSize"})
    BY <2>1 DEF IsShape, Alike
  <2>3. QED
    BY <2>1, <2>2 DEF t
<1>3. x \in Int
        => LET t == [s EXCEPT !.luminance = x] IN IsShape(t) /\ Alike(s, t, {"brightness"})
        /\ t.luminance = x
  <2> DEFINE t == [s EXCEPT !.luminance = x]
  <2>1. DOMAIN t = DOMAIN s /\ t.luminance = x /\ \A g \in DOMAIN s : g # "luminance" => t[g] = s[g]
    BY DEF IsShape
  <2> HIDE DEF t
  <2>2. x \in Int => IsShape(t) /\ Alike(s, t, {"brightness"})
    BY <2>1 DEF IsShape, Alike
  <2>3. QED
    BY <2>1, <2>2 DEF t
<1>4. x \in Int
        => LET t == [s EXCEPT !.contrast = x] IN IsShape(t) /\ Alike(s, t, {"contrast"})
        /\ t.contrast = x
  <2> DEFINE t == [s EXCEPT !.contrast = x]
  <2>1. DOMAIN t = DOMAIN s /\ t.contrast = x /\ \A g \in DOMAIN s : g # "contrast" => t[g] = s[g]
    BY DEF IsShape
  <2> HIDE DEF t
  <2>2. x \in Int => IsShape(t) /\ Alike(s, t, {"contrast"})
    BY <2>1 DEF IsShape, Alike
  <2>3. QED
    BY <2>1, <2>2 DEF t
<1>5. LET t == [s EXCEPT !.weight = x] IN IsShape(t) /\ Alike(s, t, {"line.weight"}) /\ t.weight = x
  <2> DEFINE t == [s EXCEPT !.weight = x]
  <2>1. DOMAIN t = DOMAIN s /\ t.weight = x /\ \A g \in DOMAIN s : g # "weight" => t[g] = s[g]
    BY DEF IsShape
  <2> HIDE DEF t
  <2>2. IsShape(t) /\ Alike(s, t, {"line.weight"})
    BY <2>1 DEF IsShape, Alike
  <2>3. QED
    BY <2>1, <2>2 DEF t
<1>6. LET t == [s EXCEPT !.arrow = x] IN IsShape(t) /\ Alike(s, t, {"arrow"}) /\ t.arrow = x
  <2> DEFINE t == [s EXCEPT !.arrow = x]
  <2>1. DOMAIN t = DOMAIN s /\ t.arrow = x /\ \A g \in DOMAIN s : g # "arrow" => t[g] = s[g]
    BY DEF IsShape
  <2> HIDE DEF t
  <2>2. IsShape(t) /\ Alike(s, t, {"arrow"})
    BY <2>1 DEF IsShape, Alike
  <2>3. QED
    BY <2>1, <2>2 DEF t
<1>7. LET t == [s EXCEPT !.lineClear = x] IN IsShape(t) /\ Alike(s, t, {"line.clear"})
        /\ t.lineClear = x
  <2> DEFINE t == [s EXCEPT !.lineClear = x]
  <2>1. DOMAIN t = DOMAIN s /\ t.lineClear = x /\ \A g \in DOMAIN s : g # "lineClear" => t[g] = s[g]
    BY DEF IsShape
  <2> HIDE DEF t
  <2>2. IsShape(t) /\ Alike(s, t, {"line.clear"})
    BY <2>1 DEF IsShape, Alike
  <2>3. QED
    BY <2>1, <2>2 DEF t
<1>8. LET t == [s EXCEPT !.lineColor = x] IN IsShape(t) /\ Alike(s, t, {"line.fore"})
        /\ t.lineColor = x
  <2> DEFINE t == [s EXCEPT !.lineColor = x]
  <2>1. DOMAIN t = DOMAIN s /\ t.lineColor = x /\ \A g \in DOMAIN s : g # "lineColor" => t[g] = s[g]
    BY DEF IsShape
  <2> HIDE DEF t
  <2>2. IsShape(t) /\ Alike(s, t, {"line.fore"})
    BY <2>1 DEF IsShape, Alike
  <2>3. QED
    BY <2>1, <2>2 DEF t
<1>9. LET t == [s EXCEPT !.fillStyle = x] IN IsShape(t) /\ Alike(s, t, {"fill.visible"})
        /\ t.fillStyle = x
  <2> DEFINE t == [s EXCEPT !.fillStyle = x]
  <2>1. DOMAIN t = DOMAIN s /\ t.fillStyle = x /\ \A g \in DOMAIN s : g # "fillStyle" => t[g] = s[g]
    BY DEF IsShape
  <2> HIDE DEF t
  <2>2. IsShape(t) /\ Alike(s, t, {"fill.visible"})
    BY <2>1 DEF IsShape, Alike
  <2>3. QED
    BY <2>1, <2>2 DEF t
<1>10. LET t == [s EXCEPT !.fillClear = x] IN IsShape(t) /\ Alike(s, t, {"fill.clear"})
         /\ t.fillClear = x
  <2> DEFINE t == [s EXCEPT !.fillClear = x]
  <2>1. DOMAIN t = DOMAIN s /\ t.fillClear = x /\ \A g \in DOMAIN s : g # "fillClear" => t[g] = s[g]
    BY DEF IsShape
  <2> HIDE DEF t
  <2>2. IsShape(t) /\ Alike(s, t, {"fill.clear"})
    BY <2>1 DEF IsShape, Alike
  <2>3. QED
    BY <2>1, <2>2 DEF t
<1>11. QED
  BY <1>1, <1>2, <1>3, <1>4, <1>5, <1>6, <1>7, <1>8, <1>9, <1>10

\* So does setting a length, and moving one side with another.
LEMMA ShapeAt ==
    ASSUME NEW s, IsShape(s), NEW t, NEW C,
           DOMAIN t = DOMAIN s, \A g \in DOMAIN s : g # "at" => t[g] = s[g],
           t.at \in [Shapes!Lengths \cup Shapes!Margins -> Int],
           \A j \in Shapes!Lengths \cup Shapes!Margins : j \in C \/ t.at[j] = s.at[j]
    PROVE  IsShape(t) /\ Alike(s, t, C)
<1>1. IsShape(t)
  BY DEF IsShape
<1>2. Alike(s, t, C)
  BY DEF IsShape, Alike
<1>3. QED
  BY <1>1, <1>2

\* The lengths of a macro, in hundredths of a point, come back but for three of them.
LEMMA CutIs ==
    ASSUME NEW n \in Int
    PROVE  /\ Shapes!Cut(n, 50000) \in Int
           /\ -50000 < 50000 * Shapes!Cut(n, 50000) - n /\ 50000 * Shapes!Cut(n, 50000) - n < 50000
<1>1. CASE n >= 0
  BY <1>1 DEF Shapes!Cut
<1>2. CASE n < 0
  <2> DEFINE m == -n
  <2>1. m \in Nat /\ n = -m
    BY <1>2
  <2>2. m \div 50000 \in Int /\ 50000 * (m \div 50000) <= m /\ m < 50000 * (m \div 50000) + 50000
    BY <2>1
  <2>3. Shapes!Cut(n, 50000) = -(m \div 50000)
    BY <1>2 DEF Shapes!Cut
  <2> HIDE DEF m
  <2>4. QED
    BY <2>1, <2>2, <2>3
<1>3. QED
  BY <1>1, <1>2

LEMMA PointsAre ==
    ASSUME NEW h \in Int
    PROVE  /\ Shapes!Points(h) \in Int
           /\ 17639 * Shapes!Points(h) <= 50000 * h /\ 50000 * h < 17639 * Shapes!Points(h) + 17639
  BY DEF Shapes!Points

LEMMA PointsOfHundredths ==
    ASSUME NEW p \in Int
    PROVE  Shapes!Hundredths(p) \in Int /\ p - Shapes!Points(Shapes!Hundredths(p)) \in -3..3
<1> DEFINE h == Shapes!Cut(p * 17639, 50000)
           g == Shapes!Points(h)
<1>1. h \in Int /\ -50000 < 50000 * h - p * 17639 /\ 50000 * h - p * 17639 < 50000
  <2>1. p * 17639 \in Int
    OBVIOUS
  <2>2. QED
    BY <2>1, CutIs
<1>2. g \in Int /\ 17639 * g <= 50000 * h /\ 50000 * h < 17639 * g + 17639
  BY <1>1, PointsAre
<1>3. h = Shapes!Hundredths(p)
  BY DEF Shapes!Hundredths
<1> HIDE DEF h, g
<1>4. p - g \in Int /\ -3 <= p - g /\ p - g <= 3
  BY <1>1, <1>2
<1>5. QED
  BY <1>1, <1>3, <1>4 DEF g

LEMMA PointsOfMoved ==
    ASSUME NEW h \in Int, NEW d \in Int
    PROVE  Shapes!Moved(h, d) \in Int
           /\ (Shapes!Points(h) + d) - Shapes!Points(Shapes!Moved(h, d)) \in -3..3
<1> DEFINE n == h * 50000 + d * 17639
           m == Shapes!Cut(n, 50000)
           g == Shapes!Points(h)
           r == Shapes!Points(m)
<1>1. n \in Int /\ m = Shapes!Moved(h, d)
  BY DEF Shapes!Moved
<1>2. m \in Int /\ -50000 < 50000 * m - n /\ 50000 * m - n < 50000
  <2> HIDE DEF n
  <2>1. QED
    BY <1>1, CutIs
<1>3. g \in Int /\ 17639 * g <= 50000 * h /\ 50000 * h < 17639 * g + 17639
  BY PointsAre
<1>4. r \in Int /\ 17639 * r <= 50000 * m /\ 50000 * m < 17639 * r + 17639
  <2> HIDE DEF m
  <2>1. QED
    BY <1>2, PointsAre
<1> HIDE DEF m, g, r
<1>5. (g + d) - r \in Int /\ -3 <= (g + d) - r /\ (g + d) - r <= 3
  BY <1>2, <1>3, <1>4
<1>6. QED
  BY <1>1, <1>2, <1>5 DEF g, r

LEMMA PointsOfDouble ==
    ASSUME NEW h \in Int, NEW m \in {2 * h, 2 * h - 1}
    PROVE  m \in Int /\ 2 * Shapes!Points(h) - Shapes!Points(m) \in -3..3
<1> DEFINE g == Shapes!Points(h)
           r == Shapes!Points(m)
<1>1. m \in Int
  OBVIOUS
<1>2. g \in Int /\ 17639 * g <= 50000 * h /\ 50000 * h < 17639 * g + 17639
  BY PointsAre
<1>3. r \in Int /\ 17639 * r <= 50000 * m /\ 50000 * m < 17639 * r + 17639
  BY <1>1, PointsAre
<1> HIDE DEF g, r
<1>4. 2 * g - r \in Int /\ -3 <= 2 * g - r /\ 2 * g - r <= 3
  BY <1>2, <1>3
<1>5. QED
  BY <1>1, <1>4 DEF g, r

\* A call that sets an attribute of the shape and touches nothing but the shape, its
\* line and its fill.
LEMMA ShapeWrote ==
    ASSUME ShapesFine, NEW C, IsShape(shape'), Alike(shape, shape', C), IsPen(pen'),
           IsBrush(brush'),
           UNCHANGED <<page, kinds>>, NEW w \in Shapes!ShapesWhats, w # "position", NEW v,
           asked' = {a \in asked : a.what \notin C} \cup {[what |-> w, value |-> v]},
           Shapes!ShapesLoses([what |-> w, value |-> v])' \/ Shapes!ShapesRead(w)' = v
    PROVE  ShapesFine'
<1>1. ShapesLeaves(C)
  BY ShapeLeaves
<1>2. w \in Shapes!ShapesWhats \cup (DOMAIN kinds' \ {"group"})
  OBVIOUS
<1>3. QED
  BY <1>1, <1>2, ShapesSet

LEMMA ShapeChanges ==
    ASSUME ShapesFine, NEW C, IsShape(shape'), Alike(shape, shape', C), IsPen(pen'),
           IsBrush(brush'),
           UNCHANGED <<page, kinds>>, asked' = {a \in asked : a.what \notin C}
    PROVE  ShapesFine'
<1>1. ShapesLeaves(C)
  BY ShapeLeaves
<1>2. QED
  BY <1>1, ShapesOther

LEMMA ShapeThings ==
    ASSUME ShapesFine
    PROVE  IsShape(shape) /\ IsPen(pen) /\ IsBrush(brush)
  BY ShapeIs DEF ShapesFine

\* What is kept to within three hundredths is not lost sight of.
LEMMA LengthLost ==
    ASSUME NEW l \in Shapes!Lengths \cup Shapes!Margins, NEW v,
           v - Shapes!Points(shape'.at[l]) \in -3..3
    PROVE  Shapes!ShapesLoses([what |-> l, value |-> v])'
<1> DEFINE a == [what |-> l, value |-> v]
<1>1. a.what = l /\ a.value = v
  OBVIOUS
<1>2. Shapes!GetLength(l)' = Shapes!Points(shape'.at[l])
  BY DEF Shapes!GetLength, Shapes!Points
<1> HIDE DEF a
<1>3. a.value - Shapes!GetLength(a.what)' \in -3..3
  BY <1>1, <1>2
<1>4. Shapes!ShapesLoses(a)'
  BY <1>1, <1>3 DEF Shapes!ShapesLoses, Shapes!Lengths, Shapes!Margins
<1>5. QED
  BY <1>4 DEF a

LEMMA LengthsAreWhats ==
    ASSUME NEW l \in Shapes!Lengths \cup Shapes!Margins
    PROVE  l \in Shapes!ShapesWhats /\ l # "position"
  BY DEF Shapes!ShapesWhats, Shapes!Lengths, Shapes!Margins

LEMMA PutLengthKeeps ==
    ASSUME ShapesFine, NEW l \in Shapes!Lengths \cup Shapes!Margins, NEW x \in Int, NEW v,
           Shapes!PutShape([shape EXCEPT !.at[l] = x]),
           \/ asked' = {a \in asked : a.what \notin {l}}
           \/ /\ asked' = {a \in asked : a.what \notin {l}} \cup {[what |-> l, value |-> v]}
              /\ v - Shapes!Points(x) \in -3..3
    PROVE  ShapesFine'
<1>1. IsShape(shape) /\ IsPen(pen) /\ IsBrush(brush)
  BY ShapeThings
<1> DEFINE t == [shape EXCEPT !.at[l] = x]
<1>2. DOMAIN t = DOMAIN shape /\ \A g \in DOMAIN shape : g # "at" => t[g] = shape[g]
  BY <1>1 DEF IsShape
<1>3. t.at = [shape.at EXCEPT ![l] = x]
  BY <1>1 DEF IsShape
<1>4. shape' = t /\ UNCHANGED <<pen, brush, page, kinds>>
  BY DEF Shapes!PutShape
<1> HIDE DEF t
<1>5. /\ t.at \in [Shapes!Lengths \cup Shapes!Margins -> Int] /\ t.at[l] = x
      /\ \A j \in Shapes!Lengths \cup Shapes!Margins : j \in {l} \/ t.at[j] = shape.at[j]
  BY <1>1, <1>3 DEF IsShape
<1>6. IsShape(t) /\ Alike(shape, t, {l})
  BY <1>1, <1>2, <1>5, ShapeAt
<1>8. IsShape(shape') /\ Alike(shape, shape', {l}) /\ shape'.at[l] = x
  BY <1>4, <1>5, <1>6
<1>9. CASE asked' = {a \in asked : a.what \notin {l}}
  BY <1>1, <1>4, <1>8, <1>9, ShapeChanges
<1>10. CASE /\ asked' = {a \in asked : a.what \notin {l}} \cup {[what |-> l, value |-> v]}
            /\ v - Shapes!Points(x) \in -3..3
  <2>1. Shapes!ShapesLoses([what |-> l, value |-> v])'
    BY <1>8, <1>10, LengthLost
  <2>2. QED
    BY <1>1, <1>4, <1>8, <1>10, <2>1, LengthsAreWhats, ShapeWrote
<1>11. QED
  BY <1>9, <1>10

LEMMA SetLengthKeeps ==
    ASSUME ShapesFine, NEW l \in Shapes!Lengths \cup Shapes!Margins, NEW p \in Int,
           Shapes!SetLength(l, p)
    PROVE  ShapesFine'
<1>1. /\ Shapes!PutShape([shape EXCEPT !.at[l] = Shapes!Hundredths(p)])
      /\ asked' = {a \in asked : a.what \notin {l}} \cup {[what |-> l, value |-> p]}
  BY DEF Shapes!SetLength, Shapes!Wrote, Shapes!WroteOver, Shapes!Except
<1>2. Shapes!Hundredths(p) \in Int /\ p - Shapes!Points(Shapes!Hundredths(p)) \in -3..3
  BY PointsOfHundredths
<1>3. QED
  BY <1>1, <1>2, PutLengthKeeps

LEMMA MovedAt ==
    ASSUME ShapesFine, NEW l \in Shapes!Lengths \cup Shapes!Margins, NEW d \in Int
    PROVE  /\ [shape EXCEPT !.at[l] = Shapes!Moved(@, d)] =
              [shape EXCEPT !.at[l] = Shapes!Moved(shape.at[l], d)]
           /\ Shapes!Moved(shape.at[l], d) \in Int
           /\ (Shapes!GetLength(l) + d) - Shapes!Points(Shapes!Moved(shape.at[l], d)) \in -3..3
<1>1. shape.at[l] \in Int
  BY ShapeThings DEF IsShape
<1>2. QED
  BY <1>1, PointsOfMoved DEF Shapes!GetLength

LEMMA IncrementKeeps ==
    ASSUME ShapesFine, NEW l \in Shapes!Lengths \cup Shapes!Margins, NEW d \in Int,
           Shapes!Increment(l, d)
    PROVE  ShapesFine'
<1> DEFINE x == Shapes!Moved(shape.at[l], d)
           v == Shapes!GetLength(l) + d
<1>1. /\ Shapes!PutShape([shape EXCEPT !.at[l] = x])
      /\ asked' = {a \in asked : a.what \notin {l}} \cup {[what |-> l, value |-> v]}
  BY MovedAt DEF Shapes!Increment, Shapes!Wrote, Shapes!WroteOver, Shapes!Except
<1>2. x \in Int /\ v - Shapes!Points(x) \in -3..3
  BY MovedAt
<1> HIDE DEF x, v
<1>3. QED
  BY <1>1, <1>2, PutLengthKeeps

LEMMA IncrementRangeKeeps ==
    ASSUME ShapesFine, NEW l \in Shapes!Lengths \cup Shapes!Margins, NEW d \in Int,
           Shapes!IncrementRange(l, d)
    PROVE  ShapesFine'
<1>1. CASE Shapes!Increment(l, d)
  BY <1>1, IncrementKeeps
<1>2. CASE /\ Shapes!PutShape([shape EXCEPT !.at[l] = Shapes!Moved(@, d)])
           /\ Shapes!Spoils({l})
  <2> DEFINE x == Shapes!Moved(shape.at[l], d)
  <2>1. /\ Shapes!PutShape([shape EXCEPT !.at[l] = x])
        /\ asked' = {a \in asked : a.what \notin {l}}
    BY <1>2, MovedAt DEF Shapes!Spoils, Shapes!Except
  <2>2. x \in Int
    BY MovedAt
  <2> HIDE DEF x
  <2>3. QED
    BY <2>1, <2>2, PutLengthKeeps
<1>3. CASE UNCHANGED Shapes!shapeVars /\ (Shapes!Throws \/ Shapes!Answers)
  BY <1>3, ShapeThings, ShapesRefused DEF Shapes!shapeVars, Shapes!Throws, Shapes!Answers
<1>4. QED
  BY <1>1, <1>2, <1>3, Zenon DEF Shapes!IncrementRange

LEMMA ScaleKeeps ==
    ASSUME ShapesFine, NEW l \in Shapes!Lengths, NEW start \in Shapes!Lengths, l # start, NEW from,
           Shapes!Scale(l, start, from)
    PROVE  ShapesFine'
<1> DEFINE h == shape.at[l]
           less == CASE from = "topLeft" -> 0
                     [] from = "bottomRight" -> h
                     [] from = "middle" -> h \div 2
           C == {l} \cup (IF from = "topLeft" THEN {} ELSE {start})
<1>v. PICK v : v = 2 * Shapes!GetLength(l)
  OBVIOUS
<1>0. /\ IsShape(shape) /\ IsPen(pen) /\ IsBrush(brush)
      /\ l \in Shapes!Lengths \cup Shapes!Margins /\ start \in Shapes!Lengths \cup Shapes!Margins
  BY ShapeThings
<1>1. CASE from = "other" /\ UNCHANGED Shapes!shapeVars /\ Shapes!Throws
  BY <1>1, ShapeThings, ShapesRefused DEF Shapes!shapeVars, Shapes!Throws
<1>2. CASE /\ from \in {"topLeft", "bottomRight", "middle"}
           /\ \E size \in {2 * h, 2 * h - 1} :
                 Shapes!PutShape([shape EXCEPT !.at[l] = size, !.at[start] = @ - less])
           /\ Shapes!WroteOver(l, v, IF from = "topLeft" THEN {} ELSE {start})
  <2>1. PICK size \in {2 * h, 2 * h - 1} :
           Shapes!PutShape([shape EXCEPT !.at[l] = size, !.at[start] = @ - less])
    BY <1>2
  <2>2. asked' = {a \in asked : a.what \notin C} \cup {[what |-> l, value |-> v]}
    BY <1>2 DEF Shapes!WroteOver, Shapes!Except
  <2>3. h \in Int /\ less \in Int /\ (from = "topLeft" => less = 0)
    <3>1. h \in Int
      BY <1>0 DEF IsShape
    <3> HIDE DEF h
    <3>2. QED
      BY <1>2, <3>1
  <2>4. size \in Int /\ v - Shapes!Points(size) \in -3..3
    BY <1>v, <2>3, PointsOfDouble DEF Shapes!GetLength
  <2> DEFINE t == [shape EXCEPT !.at[l] = size, !.at[start] = @ - less]
             y == shape.at[start] - less
  <2> HIDE DEF less, h
  <2>5. DOMAIN t = DOMAIN shape /\ \A g \in DOMAIN shape : g # "at" => t[g] = shape[g]
    BY <1>0 DEF IsShape
  <2>6. t.at = [[shape.at EXCEPT ![l] = size] EXCEPT ![start] = y]
    BY <1>0 DEF IsShape
  <2>7. y \in Int
    BY <1>0, <2>3 DEF IsShape
  <2>8. shape' = t /\ UNCHANGED <<pen, brush, page, kinds>>
    BY <2>1 DEF Shapes!PutShape
  <2> HIDE DEF t
  <2>9. /\ t.at \in [Shapes!Lengths \cup Shapes!Margins -> Int] /\ t.at[l] = size
        /\ \A j \in Shapes!Lengths \cup Shapes!Margins : j = l \/ j = start \/ t.at[j] = shape.at[j]
        /\ from = "topLeft" => t.at[start] = shape.at[start]
    <3>1. shape.at \in [Shapes!Lengths \cup Shapes!Margins -> Int]
      BY <1>0 DEF IsShape
    <3>2. from = "topLeft" => y = shape.at[start]
      BY <1>0, <2>3, <3>1
    <3> HIDE DEF y
    <3>3. QED
      BY <1>0, <2>4, <2>6, <2>7, <3>1, <3>2
  <2>10. IsShape(t) /\ Alike(shape, t, C)
    <3>1. \A j \in Shapes!Lengths \cup Shapes!Margins : j \in C \/ t.at[j] = shape.at[j]
      BY <2>9
    <3> HIDE DEF C
    <3>2. QED
      BY <1>0, <2>5, <2>9, <3>1, ShapeAt
  <2> HIDE DEF C
  <2>11. Shapes!ShapesLoses([what |-> l, value |-> v])'
    BY <1>0, <2>4, <2>8, <2>9, LengthLost
  <2>12. l \in Shapes!ShapesWhats /\ l # "position"
    BY <1>0, LengthsAreWhats
  <2>13. IsShape(shape') /\ Alike(shape, shape', C) /\ IsPen(pen') /\ IsBrush(brush')
    BY <1>0, <2>8, <2>10
  <2>14. QED
    BY <2>2, <2>8, <2>11, <2>12, <2>13, ShapeWrote
<1>3. QED
  BY <1>1, <1>2, <1>v, Zenon DEF Shapes!Scale

\* A property that is set alone.
LEMMA PutFieldKeeps ==
    ASSUME ShapesFine, NEW t, shape' = t, IsShape(t), NEW w \in Shapes!ShapesWhats, w # "position",
           Alike(shape, t, {w}), UNCHANGED <<pen, brush, page, kinds>>, NEW v, Shapes!Wrote(w, v),
           Shapes!ShapesLoses([what |-> w, value |-> v])' \/ Shapes!ShapesRead(w)' = v
    PROVE  ShapesFine'
<1>1. IsPen(pen') /\ IsBrush(brush')
  BY ShapeThings
<1> DEFINE C == {w}
<1>2. asked' = {a \in asked : a.what \notin C} \cup {[what |-> w, value |-> v]}
  BY DEF Shapes!Wrote, Shapes!WroteOver, Shapes!Except
<1> HIDE DEF C
<1>3. Alike(shape, shape', C) /\ IsShape(shape')
  BY DEF C
<1>4. QED
  BY <1>1, <1>2, <1>3, ShapeWrote

LEMMA SetRotationKeeps ==
    ASSUME ShapesFine, NEW x \in Int, Shapes!SetRotation(x) PROVE ShapesFine'
<1> DEFINE t == [shape EXCEPT !.angle = x]
<1>1. IsShape(t) /\ Alike(shape, t, {"rotation"}) /\ t.angle = x
  BY ShapeThings, ShapeWith
<1>2. shape' = t /\ UNCHANGED <<pen, brush, page, kinds>> /\ Shapes!Wrote("rotation", x)
  BY DEF Shapes!SetRotation, Shapes!PutShape
<1> HIDE DEF t
<1>3. Shapes!ShapesLoses([what |-> "rotation", value |-> x])' \/ Shapes!ShapesRead("rotation")' = x
  <2>1. CASE x % 100 = 0
    <3>1. (x \div 100) * 100 = x
      BY <2>1
    <3>2. QED
      BY <1>1, <1>2, <3>1, ShapesReadsNext
  <2>2. CASE x % 100 # 0
    BY <2>2 DEF Shapes!ShapesLoses
  <2>3. QED
    BY <2>1, <2>2
<1>4. "rotation" \in Shapes!ShapesWhats
  BY DEF Shapes!ShapesWhats
<1>5. QED
  BY <1>1, <1>2, <1>3, <1>4, PutFieldKeeps

LEMMA IncrementRotationKeeps ==
    ASSUME ShapesFine, NEW d \in Int, Shapes!IncrementRotation(d) PROVE ShapesFine'
<1>1. shape.angle \in Int
  BY ShapeThings DEF IsShape
<1>2. PICK x : x = Shapes!GetRotation + d
  OBVIOUS
<1>3. x \in Int
  BY <1>1, <1>2 DEF Shapes!GetRotation
<1>4. Shapes!SetRotation(x)
  BY <1>2 DEF Shapes!IncrementRotation
<1>5. QED
  BY <1>3, <1>4, SetRotationKeeps

LEMMA SetVisibleKeeps ==
    ASSUME ShapesFine, NEW b \in Shapes!OnOff, Shapes!SetVisible(b) PROVE ShapesFine'
<1>1. UNCHANGED <<shape, pen, brush, page, kinds>> /\ Shapes!Wrote("visible", b)
  BY DEF Shapes!SetVisible, Shapes!shapeVars
<1>2. Shapes!ShapesLoses([what |-> "visible", value |-> b])' \/ Shapes!ShapesRead("visible")' = b
  BY ShapesReadsNext DEF Shapes!ShapesLoses, Shapes!OnOff
<1>3. IsShape(shape) /\ Alike(shape, shape, {"visible"})
  BY ShapeThings DEF Alike
<1>4. "visible" \in Shapes!ShapesWhats
  BY DEF Shapes!ShapesWhats
<1>5. QED
  BY <1>1, <1>2, <1>3, <1>4, PutFieldKeeps

LEMMA SetAutoSizeKeeps ==
    ASSUME ShapesFine, NEW b, Shapes!SetAutoSize(b) PROVE ShapesFine'
<1> DEFINE t == [shape EXCEPT !.grow = b]
<1>1. IsShape(t) /\ Alike(shape, t, {"autoSize"}) /\ t.grow = b
  BY ShapeThings, ShapeWith
<1>2. shape' = t /\ UNCHANGED <<pen, brush, page, kinds>> /\ Shapes!Wrote("autoSize", b)
  BY DEF Shapes!SetAutoSize, Shapes!PutShape
<1> HIDE DEF t
<1>3. Shapes!ShapesRead("autoSize")' = b
  BY <1>1, <1>2, ShapesReadsNext
<1>4. "autoSize" \in Shapes!ShapesWhats
  BY DEF Shapes!ShapesWhats
<1>5. QED
  BY <1>1, <1>2, <1>3, <1>4, PutFieldKeeps

\* A brightness or a contrast comes back, those with a rounding error too.
LEMMA LuminanceReads ==
    ASSUME NEW n \in 0 .. 100
    PROVE  Shapes!Luminance(n) \in Int /\ Shapes!OfHundred(Shapes!Luminance(n)) = n
<1>1. CASE n \in {28, 57, 58}
  <2>1. Shapes!Luminance(n) = 2 * n - 101
    BY <1>1 DEF Shapes!Luminance
  <2>2. (2 * n - 101 + 101) \div 2 = n
    BY <1>1
  <2>3. QED
    BY <1>1, <2>1, <2>2 DEF Shapes!OfHundred
<1>2. CASE n \notin {28, 57, 58}
  <2>1. Shapes!Luminance(n) = 2 * n - 100 /\ n \in Int
    BY <1>2 DEF Shapes!Luminance
  <2>2. (2 * n - 100 + 101) \div 2 = n
    BY <2>1
  <2>3. QED
    BY <2>1, <2>2 DEF Shapes!OfHundred
<1>3. QED
  BY <1>1, <1>2

LEMMA SetBrightnessKeeps ==
    ASSUME ShapesFine, NEW n \in Int, Shapes!SetBrightness(n) PROVE ShapesFine'
<1>1. CASE UNCHANGED Shapes!shapeVars /\ Shapes!Throws
  BY <1>1, ShapeThings, ShapesRefused DEF Shapes!shapeVars, Shapes!Throws
<1>2. CASE /\ n \in 0 .. 100 /\ Shapes!PutShape([shape EXCEPT !.luminance = Shapes!Luminance(n)])
           /\ Shapes!Wrote("brightness", n)
  <2> DEFINE x == Shapes!Luminance(n)
             t == [shape EXCEPT !.luminance = x]
  <2>1. x \in Int /\ Shapes!OfHundred(x) = n
    BY <1>2, LuminanceReads
  <2>2. shape' = t /\ UNCHANGED <<pen, brush, page, kinds>> /\ Shapes!Wrote("brightness", n)
    BY <1>2 DEF Shapes!PutShape
  <2> HIDE DEF x
  <2>3. IsShape(t) /\ Alike(shape, t, {"brightness"}) /\ t.luminance = x
    BY <2>1, ShapeThings, ShapeWith
  <2> HIDE DEF t
  <2>4. Shapes!ShapesRead("brightness")' = n
    BY <2>1, <2>2, <2>3, ShapesReadsNext
  <2>5. "brightness" \in Shapes!ShapesWhats
    BY DEF Shapes!ShapesWhats
  <2>6. QED
    BY <2>2, <2>3, <2>4, <2>5, PutFieldKeeps
<1>3. QED
  BY <1>1, <1>2, Zenon DEF Shapes!SetBrightness

LEMMA IncrementBrightnessKeeps ==
    ASSUME ShapesFine, NEW d \in Int, Shapes!IncrementBrightness(d) PROVE ShapesFine'
<1>1. shape.luminance \in Int
  BY ShapeThings DEF IsShape
<1>2. PICK n : n = Shapes!Within(Shapes!GetBrightness + d)
  OBVIOUS
<1>3. n \in Int
  BY <1>1, <1>2 DEF Shapes!GetBrightness, Shapes!OfHundred, Shapes!Within
<1>4. Shapes!SetBrightness(n)
  BY <1>2 DEF Shapes!IncrementBrightness
<1>5. QED
  BY <1>3, <1>4, SetBrightnessKeeps

LEMMA SetContrastKeeps ==
    ASSUME ShapesFine, NEW n \in Int, Shapes!SetContrast(n) PROVE ShapesFine'
<1>1. CASE UNCHANGED Shapes!shapeVars /\ Shapes!Throws
  BY <1>1, ShapeThings, ShapesRefused DEF Shapes!shapeVars, Shapes!Throws
<1>2. CASE /\ n \in 0 .. 100 /\ Shapes!PutShape([shape EXCEPT !.contrast = Shapes!Luminance(n)])
           /\ Shapes!Wrote("contrast", n)
  <2> DEFINE x == Shapes!Luminance(n)
             t == [shape EXCEPT !.contrast = x]
  <2>1. x \in Int /\ Shapes!OfHundred(x) = n
    BY <1>2, LuminanceReads
  <2>2. shape' = t /\ UNCHANGED <<pen, brush, page, kinds>> /\ Shapes!Wrote("contrast", n)
    BY <1>2 DEF Shapes!PutShape
  <2> HIDE DEF x
  <2>3. IsShape(t) /\ Alike(shape, t, {"contrast"}) /\ t.contrast = x
    BY <2>1, ShapeThings, ShapeWith
  <2> HIDE DEF t
  <2>4. Shapes!ShapesRead("contrast")' = n
    BY <2>1, <2>2, <2>3, ShapesReadsNext
  <2>5. "contrast" \in Shapes!ShapesWhats
    BY DEF Shapes!ShapesWhats
  <2>6. QED
    BY <2>2, <2>3, <2>4, <2>5, PutFieldKeeps
<1>3. QED
  BY <1>1, <1>2, Zenon DEF Shapes!SetContrast

LEMMA IncrementContrastKeeps ==
    ASSUME ShapesFine, NEW d \in Int, Shapes!IncrementContrast(d) PROVE ShapesFine'
<1>1. shape.contrast \in Int
  BY ShapeThings DEF IsShape
<1>2. PICK n : n = Shapes!GetContrast + d
  OBVIOUS
<1>3. n \in Int
  BY <1>1, <1>2 DEF Shapes!GetContrast, Shapes!OfHundred, Shapes!Within
<1>4. Shapes!SetContrast(n)
  BY <1>2 DEF Shapes!IncrementContrast
<1>5. QED
  BY <1>3, <1>4, SetContrastKeeps

\* The shapes of the sheet without some of them: each of the others is there once.
LEMMA DroppingOnce ==
    ASSUME NEW S, NEW s \in Seq(S), NEW out, \A i, k \in DOMAIN s : s[i] = s[k] => i = k
    PROVE  LET t == Dropping(s, out)
           IN  /\ t \in Seq(S)
               /\ \A i, k \in DOMAIN t : t[i] = t[k] => i = k
               /\ \A x : (\E n \in DOMAIN t : t[n] = x) <=> x \notin out /\ \E i \in DOMAIN s :
                    s[i] = x
<1> DEFINE t == Dropping(s, out)
           rest == {i \in DOMAIN s : s[i] \notin out}
<1>1. t \in Seq(S)
  BY DroppingHas
<1>2. PICK p \in [DOMAIN t -> rest] :
         /\ \A n \in DOMAIN t : t[n] = s[p[n]]
         /\ \A i \in rest : \E n \in DOMAIN t : p[n] = i
         /\ \A m, n \in DOMAIN t : p[m] = p[n] => m = n
  BY DroppingHas
<1> HIDE DEF t
<1>3. \A i, k \in DOMAIN t : t[i] = t[k] => i = k
  BY <1>2
<1>4. \A x : (\E n \in DOMAIN t : t[n] = x) <=> x \notin out /\ \E i \in DOMAIN s : s[i] = x
  <2>1. ASSUME NEW x, NEW n \in DOMAIN t, t[n] = x
        PROVE  x \notin out /\ \E i \in DOMAIN s : s[i] = x
    BY <1>2, <2>1
  <2>2. ASSUME NEW x, x \notin out, NEW i \in DOMAIN s, s[i] = x
        PROVE  \E n \in DOMAIN t : t[n] = x
    BY <1>2, <2>2
  <2>3. QED
    BY <2>1, <2>2
<1>5. QED
  BY <1>1, <1>3, <1>4 DEF t

LEMMA DroppingLen ==
    ASSUME NEW S, NEW s \in Seq(S), NEW out
    PROVE  Len(Dropping(s, out)) = Cardinality({i \in DOMAIN s : s[i] \notin out})
<1> DEFINE t == Dropping(s, out)
           rest == {i \in DOMAIN s : s[i] \notin out}
<1>1. /\ t \in Seq(S) /\ IsFiniteSet(rest) /\ Len(t) = Cardinality(rest)
      /\ \E p \in [DOMAIN t -> rest] :
            /\ \A n \in DOMAIN t : t[n] = s[p[n]]
            /\ \A i \in rest : \E n \in DOMAIN t : p[n] = i
            /\ \A m, n \in DOMAIN t : p[m] = p[n] => m = n
  BY DroppingHas
<1>2. QED
  BY <1>1

LEMMA DroppingOne ==
    ASSUME NEW S, NEW s \in Seq(S), \A i, k \in DOMAIN s : s[i] = s[k] => i = k, NEW j \in DOMAIN s,
           NEW out, \A x : x \in out <=> x = s[j]
    PROVE  Len(Dropping(s, out)) = Len(s) - 1
<1> DEFINE rest == {i \in DOMAIN s : s[i] \notin out}
           T == 1 .. Len(s)
<1>1. Len(Dropping(s, out)) = Cardinality(rest)
  BY DroppingLen
<1>2. Len(s) \in Nat /\ DOMAIN s = T /\ rest = T \ {j} /\ j \in T
  OBVIOUS
<1>3. IsFiniteSet(T) /\ Cardinality(T) = Len(s)
  <2>1. Len(s) \in Nat
    OBVIOUS
  <2>2. IsFiniteSet(1 .. Len(s)) /\ Cardinality(1 .. Len(s)) = IF 1 > Len(s) THEN 0
          ELSE Len(s) - 1 + 1
    BY <2>1, FS_Interval
  <2>3. QED
    BY <2>1, <2>2
<1> HIDE DEF T
<1>4. Cardinality(T \ {j}) = Len(s) - 1
  BY <1>2, <1>3, FS_RemoveElement
<1>5. QED
  BY <1>1, <1>2, <1>4

\* An element is put at a place between the others.
Placed(s, i, x) == SubSeq(s, 1, i - 1) \o <<x>> \o SubSeq(s, i, Len(s))

LEMMA PutAt ==
    ASSUME NEW S, NEW s \in Seq(S), NEW i \in 1 .. Len(s) + 1, NEW x \in S
    PROVE  LET t == Placed(s, i, x) IN
           /\ t \in Seq(S) /\ Len(t) = Len(s) + 1
           /\ \A k \in 1 .. Len(s) + 1 :
                 t[k] = IF k < i THEN s[k] ELSE IF k = i THEN x ELSE s[k - 1]
<1> DEFINE a == SubSeq(s, 1, i - 1)
           b == SubSeq(s, i, Len(s))
           t == Placed(s, i, x)
<1>1. Len(s) \in Nat /\ i \in Int
  OBVIOUS
<1>2. a \in Seq(S) /\ Len(a) = i - 1 /\ \A k \in 1 .. i - 1 : a[k] = s[k]
  BY <1>1
<1>3. b \in Seq(S) /\ Len(b) = Len(s) - i + 1 /\ \A k \in 1 .. Len(s) - i + 1 : b[k] = s[k + i - 1]
  BY <1>1
<1>4. <<x>> \in Seq(S) /\ Len(<<x>>) = 1 /\ <<x>>[1] = x
  OBVIOUS
<1> HIDE DEF a, b
<1> DEFINE c == a \o <<x>>
<1>5. c \in Seq(S) /\ Len(c) = i /\ \A k \in 1 .. i : c[k] = IF k < i THEN s[k] ELSE x
  BY <1>1, <1>2, <1>4
<1> HIDE DEF c
<1>6. /\ c \o b \in Seq(S) /\ Len(c \o b) = Len(s) + 1
      /\ \A k \in 1 .. Len(s) + 1 : (c \o b)[k] = IF k <= i THEN c[k] ELSE b[k - i]
  <2>1. c \o b \in Seq(S) /\ Len(c \o b) = Len(c) + Len(b)
    <3>1. c \in Seq(S) /\ b \in Seq(S)
      BY <1>3, <1>5
    <3>2. QED
      BY <3>1
  <2>2. Len(c) + Len(b) = Len(s) + 1
    BY <1>1, <1>3, <1>5
  <2>3. \A k \in 1 .. Len(c) + Len(b) : (c \o b)[k] = IF k <= Len(c) THEN c[k] ELSE b[k - Len(c)]
    BY <1>3, <1>5
  <2>4. QED
    BY <1>5, <2>1, <2>2, <2>3
<1>7. t = c \o b
  BY DEF a, b, c, Placed
<1>8. ASSUME NEW k \in 1 .. Len(s) + 1
      PROVE  t[k] = IF k < i THEN s[k] ELSE IF k = i THEN x ELSE s[k - 1]
  <2> HIDE DEF t
  <2>1. CASE k <= i
    <3>1. k \in 1 .. i
      BY <1>1, <2>1
    <3>2. QED
      BY <1>1, <1>5, <1>6, <1>7, <2>1, <3>1
  <2>2. CASE k > i
    <3>1. k - i \in 1 .. Len(s) - i + 1 /\ (k - i) + i - 1 = k - 1
      BY <1>1, <2>2
    <3>2. b[k - i] = s[k - 1]
      BY <1>3, <3>1
    <3>3. QED
      BY <1>1, <1>6, <1>7, <2>2, <3>2
  <2>3. QED
    BY <1>1, <2>1, <2>2
<1> HIDE DEF t
<1>9. QED
  BY <1>6, <1>7, <1>8 DEF t

\* What is on the sheet, once.
Paged(p, D) == p \in Seq(D) /\ \A i, k \in DOMAIN p : p[i] = p[k] => i = k

LEMMA PageIs ==
    ASSUME ShapesFine
    PROVE  Paged(page, DOMAIN kinds)
  BY ShapeIs DEF ShapesFine, Paged

LEMMA OffIs ==
    ASSUME ShapesFine, NEW id
    PROVE  /\ Paged(Shapes!Off(id), DOMAIN kinds)
           /\ \A u : (\E n \in DOMAIN Shapes!Off(id) : Shapes!Off(id)[n] = u) <=> u # id
                /\ Shapes!On(u)
           /\ Shapes!On(id) => Len(Shapes!Off(id)) = Len(page) - 1
<1>1. page \in Seq(DOMAIN kinds) /\ \A i, k \in DOMAIN page : page[i] = page[k] => i = k
  BY PageIs DEF Paged
<1> DEFINE out == {id}
           t == Dropping(page, out)
<1>2. t = Shapes!Off(id)
  BY DroppingIs DEF Shapes!Off
<1>3. /\ t \in Seq(DOMAIN kinds)
      /\ \A i, k \in DOMAIN t : t[i] = t[k] => i = k
      /\ \A u : (\E n \in DOMAIN t : t[n] = u) <=> u \notin out /\ \E i \in DOMAIN page :
           page[i] = u
  BY <1>1, DroppingOnce
<1>4. Shapes!On(id) => Len(t) = Len(page) - 1
  <2>1. ASSUME NEW j \in DOMAIN page, page[j] = id PROVE Len(t) = Len(page) - 1
    <3>1. \A x : x \in out <=> x = page[j]
      BY <2>1
    <3> HIDE DEF out
    <3>2. QED
      BY <1>1, <3>1, DroppingOne
  <2> HIDE DEF t
  <2>2. QED
    BY <2>1 DEF Shapes!On
<1>5. \A u : (\E n \in DOMAIN t : t[n] = u) <=> u # id /\ Shapes!On(u)
  <2> HIDE DEF t
  <2>1. \A u : (\E i \in DOMAIN page : page[i] = u) <=> Shapes!On(u)
    BY DEF Shapes!On
  <2>2. QED
    BY <1>3, <2>1
<1>6. Paged(t, DOMAIN kinds)
  <2> HIDE DEF t
  <2>1. QED
    BY <1>3 DEF Paged
<1> HIDE DEF t
<1>7. QED
  BY <1>2, <1>4, <1>5, <1>6

LEMMA ShapeAtIs ==
    ASSUME ShapesFine, NEW id \in DOMAIN kinds, Shapes!On(id), NEW i \in 1 .. Len(page)
    PROVE  LET t == Shapes!At(id, i)
           IN  /\ Paged(t, DOMAIN kinds) /\ i \in DOMAIN t /\ t[i] = id
               /\ \A u : (\E n \in DOMAIN t : t[n] = u) <=> Shapes!On(u)
<1> DEFINE s == Shapes!Off(id)
           t == Shapes!At(id, i)
<1>1. /\ s \in Seq(DOMAIN kinds) /\ \A m, k \in DOMAIN s : s[m] = s[k] => m = k
      /\ \A u : (\E n \in DOMAIN s : s[n] = u) <=> u # id /\ Shapes!On(u)
      /\ Len(s) = Len(page) - 1
  BY OffIs DEF Paged
<1>2. page \in Seq(DOMAIN kinds)
  BY PageIs DEF Paged
<1>3. Len(s) \in Nat /\ Len(page) \in Nat /\ Len(page) = Len(s) + 1 /\ i \in 1 .. Len(s) + 1
  BY <1>1, <1>2
<1>4. t = Placed(s, i, id)
  BY <1>1 DEF Shapes!At, Placed
<1> HIDE DEF t, s
<1>5. /\ t \in Seq(DOMAIN kinds) /\ Len(t) = Len(s) + 1
      /\ \A k \in 1 .. Len(s) + 1 : t[k] = IF k < i THEN s[k] ELSE IF k = i THEN id ELSE s[k - 1]
  <2> DEFINE D == DOMAIN kinds
             q == Placed(s, i, id)
  <2>1. s \in Seq(D) /\ id \in D
    BY <1>1
  <2> HIDE DEF D
  <2>2. /\ q \in Seq(D) /\ Len(q) = Len(s) + 1
        /\ \A k \in 1 .. Len(s) + 1 : q[k] = IF k < i THEN s[k] ELSE IF k = i THEN id ELSE s[k - 1]
    BY <1>3, <2>1, PutAt
  <2> HIDE DEF q
  <2>3. t = q
    BY <1>4 DEF q
  <2>4. QED
    BY <2>2, <2>3 DEF D
<1>6. DOMAIN t = 1 .. Len(s) + 1 /\ DOMAIN s = 1 .. Len(s)
  BY <1>1, <1>5
<1> DEFINE f(k) == IF k < i THEN k ELSE k - 1
<1>7. \A k \in 1 .. Len(s) + 1 : k # i => f(k) \in 1 .. Len(s) /\ t[k] = s[f(k)] /\ t[k] # id
  <2>1. \A k \in 1 .. Len(s) + 1 : k # i => f(k) \in 1 .. Len(s)
    BY <1>3
  <2>2. \A k \in 1 .. Len(s) + 1 : k # i => t[k] = s[f(k)]
    BY <1>3, <1>5
  <2>3. \A n \in 1 .. Len(s) : s[n] # id
    BY <1>1, <1>6
  <2> HIDE DEF f
  <2>4. QED
    BY <2>1, <2>2, <2>3
<1>8. i \in 1 .. Len(s) + 1 /\ t[i] = id
  BY <1>3, <1>5
<1>9. \A k, m \in 1 .. Len(s) + 1 : k # i /\ m # i /\ f(k) = f(m) => k = m
  BY <1>3
<1>10. \A n \in 1 .. Len(s) : \E k \in 1 .. Len(s) + 1 : k # i /\ f(k) = n
  <2>1. SUFFICES ASSUME NEW n \in 1 .. Len(s) PROVE \E k \in 1 .. Len(s) + 1 : k # i /\ f(k) = n
    OBVIOUS
  <2>2. CASE n < i
    BY <1>3, <2>2
  <2>3. CASE n >= i
    <3>1. n + 1 \in 1 .. Len(s) + 1 /\ n + 1 # i /\ f(n + 1) = n
      BY <1>3, <2>3
    <3> HIDE DEF f
    <3>2. QED
      BY <3>1
  <2>4. QED
    BY <1>3, <2>2, <2>3
<1> HIDE DEF f
<1>11. \A k, m \in DOMAIN t : t[k] = t[m] => k = m
  <2>1. SUFFICES ASSUME NEW k \in 1 .. Len(s) + 1, NEW m \in 1 .. Len(s) + 1, t[k] = t[m]
        PROVE  k = m
    BY <1>6
  <2>2. CASE k = i \/ m = i
    BY <1>7, <1>8, <2>1, <2>2
  <2>3. CASE k # i /\ m # i
    <3>1. f(k) = f(m)
      BY <1>1, <1>6, <1>7, <2>1, <2>3
    <3>2. QED
      BY <1>9, <2>3, <3>1
  <2>4. QED
    BY <2>2, <2>3
<1>12. \A u : (\E n \in DOMAIN t : t[n] = u) <=> Shapes!On(u)
  <2>1. ASSUME NEW n \in 1 .. Len(s) + 1 PROVE Shapes!On(t[n])
    <3>1. CASE n = i
      BY <1>8, <3>1
    <3>2. CASE n # i
      BY <1>1, <1>6, <1>7, <3>2
    <3>3. QED
      BY <3>1, <3>2
  <2>2. ASSUME NEW u, Shapes!On(u) PROVE \E n \in 1 .. Len(s) + 1 : t[n] = u
    <3>1. CASE u = id
      BY <1>8, <3>1
    <3>2. CASE u # id
      <4>1. PICK m \in 1 .. Len(s) : s[m] = u
        BY <1>1, <1>6, <2>2, <3>2
      <4>2. PICK k \in 1 .. Len(s) + 1 : k # i /\ f(k) = m
        BY <1>10
      <4>3. QED
        BY <1>7, <4>1, <4>2
    <3>3. QED
      BY <3>1, <3>2
  <2>3. QED
    BY <1>6, <2>1, <2>2
<1>13. QED
  BY <1>5, <1>6, <1>8, <1>11, <1>12 DEF Paged, t

\* A call that touches the shapes of the sheet and not the shape's properties.
LEMMA PageLeaves ==
    ASSUME ShapesFine, NEW C, UNCHANGED <<shape, pen, brush>>, Paged(page', DOMAIN kinds'),
           DOMAIN kinds \subseteq DOMAIN kinds', DOMAIN kinds' \subseteq ShapeIds \cup {"group"},
           \A id \in (DOMAIN kinds \ {"group"}) \ C : Shapes!On(id)' <=> Shapes!On(id),
           \/ "position" \in C
           \/ /\ Shapes!Position("box")' = Shapes!Position("box")
              /\ Shapes!On("box") => Shapes!On("box")'
    PROVE  ShapesLeaves(C)
<1>1. Shapes!ShapesOK'
  BY ShapeThings, ShapesOKNext DEF Paged
<1>2. /\ DOMAIN kinds \ {"group"} \subseteq ShapeIds
      /\ \A u \in {"position"} \ C : Shapes!ShapesRead(u)' = Shapes!ShapesRead(u)
  <2>1. DOMAIN kinds \ {"group"} \subseteq ShapeIds
    BY ShapeIs DEF ShapesFine
  <2>2. ASSUME "position" \notin C
        PROVE  Shapes!ShapesRead("position")' = Shapes!ShapesRead("position")
    BY <2>2, ShapesReads, ShapesReadsNext
  <2>3. QED
    BY <2>1, <2>2
<1>3. \A id \in (DOMAIN kinds \ {"group"}) \ C : Shapes!ShapesRead(id)' = Shapes!ShapesRead(id)
  BY <1>2, ShapesReads, ShapesReadsNext
<1>4. \A u \in Shapes!Lengths \cup Shapes!Margins : Shapes!ShapesRead(u)' = Shapes!ShapesRead(u)
  BY ShapesReads, ShapesReadsNext
<1>5. \A u \in {"rotation", "autoSize", "brightness", "contrast", "arrow", "line.weight",
        "line.clear",
                "line.fore", "fill.fore", "fill.scheme", "fill.clear"} :
         Shapes!ShapesRead(u)' = Shapes!ShapesRead(u)
  BY ShapesReads, ShapesReadsNext
<1>6. \A u \in {"line.dash", "line.visible", "fill.visible", "visible", "endArrow", "lineStyle",
                "line.back"} :
         Shapes!ShapesRead(u)' = Shapes!ShapesRead(u)
  BY ShapesReads, ShapesReadsNext
<1>7. \A u \in (Shapes!ShapesWhats \cup (DOMAIN kinds \ {"group"})) \ C :
         Shapes!ShapesRead(u)' = Shapes!ShapesRead(u)
  BY <1>2, <1>3, <1>4, <1>5, <1>6 DEF Shapes!ShapesWhats
<1>8. QED
  BY <1>1, <1>7 DEF ShapesLeaves

\* A shape has one position.
LEMMA PositionIs ==
    ASSUME NEW D, Paged(page, D), NEW i \in DOMAIN page, page[i] = "box"
    PROVE  Shapes!On("box") /\ Shapes!Position("box") = i
  BY DEF Paged, Shapes!On, Shapes!Position

LEMMA PositionIsNext ==
    ASSUME NEW D, Paged(page', D), NEW i \in DOMAIN page', page'[i] = "box"
    PROVE  Shapes!On("box")' /\ Shapes!Position("box")' = i
  BY DEF Paged, Shapes!On, Shapes!Position

LEMMA OnIs ==
    ASSUME ShapesFine, NEW id, Shapes!On(id)
    PROVE  id \in DOMAIN kinds /\ \E i \in DOMAIN page : page[i] = id
  BY PageIs DEF Paged, Shapes!On

LEMMA ZOrderKeeps ==
    ASSUME ShapesFine, NEW cmd \in {"front", "back", "forward", "backward"}, Shapes!ZOrder(cmd)
    PROVE  ShapesFine'
<1>1. Shapes!On("box")
  BY DEF Shapes!ZOrder
<1>2. "box" \in DOMAIN kinds /\ Paged(page, DOMAIN kinds) /\ Len(page) \in Nat /\ DOMAIN page
        = 1 .. Len(page)
  BY <1>1, OnIs, PageIs DEF Paged
<1>3. PICK old \in 1 .. Len(page) : page[old] = "box" /\ Shapes!Position("box") = old
  <2>1. PICK i \in DOMAIN page : page[i] = "box"
    BY <1>1, OnIs
  <2>2. QED
    BY <1>2, <2>1, PositionIs
<1>4. PICK new : /\ new = (CASE cmd = "front" -> Len(page)
                        [] cmd = "back" -> 1
                        [] cmd = "forward" -> IF old = Len(page) THEN old ELSE old + 1
                        [] cmd = "backward" -> IF old = 1 THEN old ELSE old - 1)
                 /\ Shapes!PutPage(Shapes!At("box", new)) /\ Shapes!Wrote("position", new)
  BY <1>3 DEF Shapes!ZOrder
<1>5. new \in 1 .. Len(page)
  BY <1>2, <1>3, <1>4
<1> DEFINE t == Shapes!At("box", new)
<1>6. /\ Paged(t, DOMAIN kinds) /\ new \in DOMAIN t /\ t[new] = "box"
      /\ \A u : (\E n \in DOMAIN t : t[n] = u) <=> Shapes!On(u)
  BY <1>1, <1>2, <1>5, ShapeAtIs
<1>7. page' = t /\ UNCHANGED <<shape, pen, brush, kinds>>
  BY <1>4 DEF Shapes!PutPage
<1> HIDE DEF t
<1> DEFINE C == {"position"}
<1>8. asked' = {a \in asked : a.what \notin C} \cup {[what |-> "position", value |-> new]}
  BY <1>4 DEF Shapes!Wrote, Shapes!WroteOver, Shapes!Except
<1>9. \A u : Shapes!On(u)' <=> Shapes!On(u)
  BY <1>6, <1>7 DEF Shapes!On
<1>10. Shapes!On("box")' /\ Shapes!Position("box")' = new
  BY <1>6, <1>7, PositionIsNext
<1>11. ShapesLeaves(C)
  <2>1. DOMAIN kinds \subseteq ShapeIds \cup {"group"}
    BY ShapeIs DEF ShapesFine
  <2>2. QED
    BY <1>6, <1>7, <1>9, <2>1, PageLeaves
<1>12. Shapes!ShapesRead("position")' = new
  BY <1>10, ShapesReadsNext
<1>13. "position" \in Shapes!ShapesWhats
  BY DEF Shapes!ShapesWhats
<1> HIDE DEF C
<1>14. QED
  BY <1>8, <1>10, <1>11, <1>12, <1>13, ShapesSet

LEMMA DeleteShapeKeeps ==
    ASSUME ShapesFine, NEW id \in DOMAIN kinds \ {"group"}, Shapes!DeleteShape(id)
    PROVE  ShapesFine'
<1>1. CASE UNCHANGED Shapes!shapeVars /\ Shapes!Throws
  BY <1>1, ShapeThings, ShapesRefused DEF Shapes!shapeVars, Shapes!Throws
<1>2. CASE Shapes!PutPage(Shapes!Off(id)) /\ Shapes!WroteOver(id, "off", {"position"})
  <2> DEFINE t == Shapes!Off(id)
             C == {id} \cup {"position"}
  <2>1. /\ Paged(t, DOMAIN kinds)
        /\ \A u : (\E n \in DOMAIN t : t[n] = u) <=> u # id /\ Shapes!On(u)
    BY OffIs
  <2>2. page' = t /\ UNCHANGED <<shape, pen, brush, kinds>>
    BY <1>2 DEF Shapes!PutPage
  <2>3. asked' = {a \in asked : a.what \notin C} \cup {[what |-> id, value |-> "off"]}
    BY <1>2 DEF Shapes!WroteOver, Shapes!Except
  <2> HIDE DEF t
  <2>4. \A u : Shapes!On(u)' <=> u # id /\ Shapes!On(u)
    BY <2>1, <2>2 DEF Shapes!On
  <2>5. DOMAIN kinds \subseteq ShapeIds \cup {"group"}
    BY ShapeIs DEF ShapesFine
  <2>6. ShapesLeaves(C)
    BY <2>1, <2>2, <2>4, <2>5, PageLeaves
  <2>7. id \in ShapeIds /\ id # "position" /\ Shapes!ShapesRead(id)' = "off"
    BY <2>4, <2>5, ShapesReadsNext DEF ShapeIds
  <2>8. id \in Shapes!ShapesWhats \cup (DOMAIN kinds' \ {"group"})
    BY <2>2
  <2> HIDE DEF C
  <2>9. QED
    BY <2>3, <2>6, <2>7, <2>8, ShapesSet
<1>3. QED
  BY <1>1, <1>2, Zenon DEF Shapes!DeleteShape

Behind(p, x) == p \o <<x>>

LEMMA BehindHas ==
    ASSUME NEW D, NEW p \in Seq(D), NEW x
    PROVE  LET t == Behind(p, x) IN
           /\ t = Append(p, x)
           /\ DOMAIN t = 1 .. Len(p) + 1 /\ t[Len(p) + 1] = x /\ \A n \in 1 .. Len(p) : t[n] = p[n]
<1> DEFINE E == D \cup {x}
           t == Behind(p, x)
<1>1. p \in Seq(E) /\ x \in E /\ Len(p) \in Nat
  OBVIOUS
<1>2. t = Append(p, x)
  BY <1>1 DEF Behind
<1> HIDE DEF E, t
<1>3. Append(p, x) \in Seq(E) /\ Len(Append(p, x)) = Len(p) + 1
  BY <1>1
<1>4. Append(p, x)[Len(p) + 1] = x /\ \A n \in 1 .. Len(p) : Append(p, x)[n] = p[n]
  BY <1>1
<1>5. DOMAIN t = 1 .. Len(p) + 1
  BY <1>2, <1>3
<1>6. QED
  BY <1>2, <1>4, <1>5 DEF t

LEMMA BehindAll ==
    ASSUME NEW D, NEW p \in Seq(D), NEW x
    PROVE  LET t == Behind(p, x) IN
           /\ \E n \in DOMAIN t : t[n] = x
           /\ \A n \in DOMAIN t : t[n] = x \/ \E k \in DOMAIN p : t[n] = p[k]
           /\ \A n \in DOMAIN p : n \in DOMAIN t /\ t[n] = p[n]
<1> DEFINE t == Behind(p, x)
<1>1. /\ DOMAIN t = 1 .. Len(p) + 1 /\ t[Len(p) + 1] = x /\ \A n \in 1 .. Len(p) : t[n] = p[n]
      /\ DOMAIN p = 1 .. Len(p) /\ Len(p) \in Nat
  BY BehindHas
<1> HIDE DEF t
<1>2. \A n \in 1 .. Len(p) + 1 : n \in 1 .. Len(p) \/ n = Len(p) + 1
  BY <1>1
<1>3. Len(p) + 1 \in 1 .. Len(p) + 1 /\ \A n \in 1 .. Len(p) : n \in 1 .. Len(p) + 1
  BY <1>1
<1>4. /\ \E n \in DOMAIN t : t[n] = x
      /\ \A n \in DOMAIN t : t[n] = x \/ \E k \in DOMAIN p : t[n] = p[k]
  BY <1>1, <1>2, <1>3
<1>5. \A n \in DOMAIN p : n \in DOMAIN t /\ t[n] = p[n]
  BY <1>1, <1>3
<1>6. QED
  BY <1>4, <1>5 DEF t

LEMMA PagedBehind ==
    ASSUME NEW D, NEW E, NEW p, Paged(p, D), D \subseteq E, NEW x \in E, \A n \in DOMAIN p :
           p[n] # x
    PROVE  Paged(Behind(p, x), E)
<1> DEFINE t == Behind(p, x)
<1>1. p \in Seq(D) /\ \A i, k \in DOMAIN p : p[i] = p[k] => i = k
  BY DEF Paged
<1>2. /\ DOMAIN t = 1 .. Len(p) + 1 /\ DOMAIN p = 1 .. Len(p) /\ Len(p) \in Nat
      /\ t[Len(p) + 1] = x /\ \A n \in 1 .. Len(p) : t[n] = p[n]
  BY <1>1, BehindHas
<1> HIDE DEF t
<1>3. \A n \in 1 .. Len(p) + 1 : n \in 1 .. Len(p) \/ n = Len(p) + 1
  BY <1>2
<1>4. \A i, k \in DOMAIN t : t[i] = t[k] => i = k
  BY <1>1, <1>2, <1>3
<1>5. t \in Seq(E)
  <2>1. p \in Seq(E)
    BY <1>1
  <2>2. QED
    BY <2>1 DEF t, Behind
<1>6. QED
  BY <1>4, <1>5 DEF Paged, t

\* A position that nobody has set may change.
LEMMA PositionNotAsked ==
    ASSUME ShapesFine, ~Shapes!On("box"), NEW C
    PROVE  {a \in asked : a.what \notin C} = {a \in asked : a.what \notin C \cup {"position"}}
  BY DEF ShapesFine, Shapes!ShapesAsked

\* A shape is added in front of the others.
LEMMA AddLeaves ==
    ASSUME ShapesFine, NEW id \in {"new", "newer"}, id \notin DOMAIN kinds, page'
           = Append(page, id),
           UNCHANGED <<shape, pen, brush>>, DOMAIN kinds' = DOMAIN kinds \cup {id}, NEW C, id \in C
    PROVE  /\ ShapesLeaves(C \cup (IF Shapes!On("box") THEN {} ELSE {"position"}))
           /\ Shapes!ShapesRead(id)' = "on"
<1>1. Paged(page, DOMAIN kinds)
  BY PageIs
<1>2. \A n \in DOMAIN page : page[n] \in DOMAIN kinds
  BY <1>1 DEF Paged
<1> DEFINE t == Behind(page, id)
           E == DOMAIN kinds'
           B == C \cup (IF Shapes!On("box") THEN {} ELSE {"position"})
<1>4. page' = t
  BY <1>1, BehindHas DEF Paged
<1>3. /\ Paged(t, E)
      /\ \A u : (\E n \in DOMAIN t : t[n] = u) <=> u = id \/ \E n \in DOMAIN page : page[n] = u
      /\ \A n \in DOMAIN page : n \in DOMAIN t /\ t[n] = page[n]
  <2>1. id \in E /\ DOMAIN kinds \subseteq E /\ \A n \in DOMAIN page : page[n] # id
    BY <1>2
  <2>2. Paged(t, E)
    <3> HIDE DEF E
    <3>1. QED
      BY <1>1, <2>1, PagedBehind
  <2>3. page \in Seq(DOMAIN kinds)
    BY <1>1 DEF Paged
  <2>4. \A u : (\E n \in DOMAIN t : t[n] = u) <=> u = id \/ \E n \in DOMAIN page : page[n] = u
    <3>1. /\ \E n \in DOMAIN t : t[n] = id
          /\ \A n \in DOMAIN t : t[n] = id \/ \E k \in DOMAIN page : t[n] = page[k]
          /\ \A n \in DOMAIN page : n \in DOMAIN t /\ t[n] = page[n]
      BY <2>3, BehindAll
    <3> HIDE DEF t
    <3>2. QED
      BY <3>1
  <2>5. \A n \in DOMAIN page : n \in DOMAIN t /\ t[n] = page[n]
    BY <2>3, BehindAll
  <2>6. QED
    BY <2>2, <2>4, <2>5
<1> HIDE DEF t
<1>5. \A u : Shapes!On(u)' <=> u = id \/ Shapes!On(u)
  BY <1>3, <1>4 DEF Shapes!On
<1>6. \/ "position" \in B
      \/ Shapes!Position("box")' = Shapes!Position("box") /\ (Shapes!On("box") => Shapes!On("box")')
  <2>1. CASE Shapes!On("box")
    <3>1. PICK i \in DOMAIN page : page[i] = "box"
      BY <2>1, OnIs
    <3>2. Shapes!Position("box") = i
      BY <1>1, <3>1, PositionIs
    <3>3. Shapes!On("box")' /\ Shapes!Position("box")' = i
      BY <1>3, <1>4, <3>1, PositionIsNext
    <3>4. QED
      BY <3>2, <3>3
  <2>2. CASE ~Shapes!On("box")
    BY <2>2
  <2>3. QED
    BY <2>1, <2>2
<1>7. E \subseteq ShapeIds \cup {"group"} /\ DOMAIN kinds \subseteq E
  BY ShapeIs DEF ShapesFine, ShapeIds
<1>8. \A u \in (DOMAIN kinds \ {"group"}) \ B : Shapes!On(u)' <=> Shapes!On(u)
  BY <1>5
<1> HIDE DEF B
<1>9. ShapesLeaves(B)
  BY <1>3, <1>4, <1>6, <1>7, <1>8, PageLeaves
<1>10. Shapes!ShapesRead(id)' = "on"
  BY <1>5, ShapesReadsNext DEF ShapeIds
<1>11. QED
  BY <1>9, <1>10 DEF B

LEMMA AddShapeKeeps ==
    ASSUME ShapesFine, NEW id \in {"new", "newer"}, NEW kind, Shapes!Add(id, kind)
    PROVE  ShapesFine'
<1>1. /\ id \notin DOMAIN kinds /\ page' = Append(page, id) /\ UNCHANGED <<shape, pen, brush>>
      /\ DOMAIN kinds' = DOMAIN kinds \cup {id}
      /\ \/ Shapes!Throws
         \/ Shapes!Wrote(id, "on")
  <2> DEFINE n == [kind |-> kind, number |-> list.named + 1]
             none == ""
  <2>1. /\ id \notin DOMAIN kinds /\ page' = Append(page, id) /\ UNCHANGED <<shape, pen, brush>>
        /\ \/ /\ kinds' = [k \in DOMAIN kinds \cup {id} |->
                             IF k = id THEN [kind |-> kind, name |-> none] ELSE kinds[k]]
              /\ Shapes!Throws
           \/ /\ kinds' = [k \in DOMAIN kinds \cup {id} |->
                             IF k = id THEN [kind |-> kind, name |-> n] ELSE kinds[k]]
              /\ IF kind = "oval" THEN Shapes!Throws ELSE Shapes!Wrote(id, "on")
    BY Zenon DEF Shapes!Add
  <2> HIDE DEF n, none
  <2>2. QED
    BY <2>1
<1> DEFINE D == IF Shapes!On("box") THEN {} ELSE {"position"}
<1>2. \A C : {a \in asked : a.what \notin C} = {a \in asked : a.what \notin C \cup D}
  <2>1. CASE Shapes!On("box")
    BY <2>1
  <2>2. CASE ~Shapes!On("box")
    BY <2>2, PositionNotAsked
  <2>3. QED
    BY <2>1, <2>2
<1> DEFINE C == {id} \cup D
<1>3. ShapesLeaves(C) /\ Shapes!ShapesRead(id)' = "on"
  <2>1. id \in {id}
    OBVIOUS
  <2>2. QED
    BY <1>1, <2>1, AddLeaves
<1>4. CASE Shapes!Wrote(id, "on")
  <2>1. asked' = {a \in asked : a.what \notin C} \cup {[what |-> id, value |-> "on"]}
    <3>1. asked' = {a \in asked : a.what \notin {id}} \cup {[what |-> id, value |-> "on"]}
      BY <1>4 DEF Shapes!Wrote, Shapes!WroteOver, Shapes!Except
    <3>2. {a \in asked : a.what \notin {id}} = {a \in asked : a.what \notin C}
      BY <1>2
    <3>3. QED
      BY <3>1, <3>2
  <2>2. id \in Shapes!ShapesWhats \cup (DOMAIN kinds' \ {"group"}) /\ id # "position"
    BY <1>1
  <2> HIDE DEF C
  <2>3. QED
    BY <1>3, <2>1, <2>2, ShapesSet
<1>5. CASE Shapes!Throws
  <2>1. \A a \in asked : a.what \in Shapes!ShapesWhats \cup (DOMAIN kinds \ {"group"})
    BY DEF ShapesFine, Shapes!ShapesAsked
  <2>2. id \notin Shapes!ShapesWhats
    BY DEF Shapes!ShapesWhats, Shapes!Lengths, Shapes!Margins
  <2>3. asked' = {a \in asked : a.what \notin {id}}
    BY <1>1, <1>5, <2>1, <2>2 DEF Shapes!Throws
  <2>4. asked' = {a \in asked : a.what \notin C}
    BY <1>2, <2>3
  <2> HIDE DEF C
  <2>5. QED
    BY <1>3, <2>4, ShapesOther
<1>6. QED
  BY <1>1, <1>4, <1>5

LEMMA GroupKeeps ==
    ASSUME ShapesFine, Shapes!Group
    PROVE  ShapesFine'
<1>1. CASE UNCHANGED Shapes!shapeVars /\ Shapes!Throws
  BY <1>1, ShapeThings, ShapesRefused DEF Shapes!shapeVars, Shapes!Throws
<1>2. ASSUME ~Shapes!On("group"), NEW out, out = Shapes!Listed(range),
             page' = Shapes!Dropping(page, out) \o <<"group">>,
             DOMAIN kinds' = DOMAIN kinds \cup {"group"},
             UNCHANGED <<shape, pen, brush>>, Shapes!Changes({"position"} \cup out)
      PROVE  ShapesFine'
  <2> DEFINE s == Dropping(page, out)
             t == Behind(s, "group")
             D == DOMAIN kinds
             E == DOMAIN kinds'
             C == {"position"} \cup out
  <2>1. page \in Seq(D) /\ \A i, k \in DOMAIN page : page[i] = page[k] => i = k
    BY PageIs DEF Paged
  <2>2. /\ Paged(s, D)
        /\ \A u : (\E n \in DOMAIN s : s[n] = u) <=> u \notin out /\ \E i \in DOMAIN page :
             page[i] = u
    <3> HIDE DEF D
    <3>1. QED
      BY <2>1, DroppingOnce DEF Paged
  <2>3. Shapes!Dropping(page, out) = s
    BY DroppingIs
  <2> HIDE DEF s
  <2>4. \A u : (\E n \in DOMAIN s : s[n] = u) <=> u \notin out /\ Shapes!On(u)
    BY <2>2 DEF Shapes!On
  <2>6. page' = t
    BY <1>2, <2>3 DEF Behind
  <2>b. Paged(t, E)
    <3>1. "group" \in E /\ D \subseteq E /\ \A n \in DOMAIN s : s[n] # "group"
      BY <1>2, <2>4
    <3> HIDE DEF D, E
    <3>2. QED
      BY <2>2, <3>1, PagedBehind
  <2>5. \A u : (\E n \in DOMAIN t : t[n] = u) <=> u = "group" \/ \E n \in DOMAIN s : s[n] = u
    <3>1. s \in Seq(D)
      BY <2>2 DEF Paged
    <3> HIDE DEF D
    <3>2. /\ \E n \in DOMAIN t : t[n] = "group"
          /\ \A n \in DOMAIN t : t[n] = "group" \/ \E k \in DOMAIN s : t[n] = s[k]
          /\ \A n \in DOMAIN s : n \in DOMAIN t /\ t[n] = s[n]
      BY <3>1, BehindAll
    <3> HIDE DEF t
    <3>3. QED
      BY <3>2
  <2> HIDE DEF t
  <2>7. \A u : Shapes!On(u)' <=> u = "group" \/ (u \notin out /\ Shapes!On(u))
    BY <2>4, <2>5, <2>6 DEF Shapes!On
  <2>8. E \subseteq ShapeIds \cup {"group"} /\ D \subseteq E
    BY <1>2, ShapeIs DEF ShapesFine
  <2>9. \A u \in (D \ {"group"}) \ C : Shapes!On(u)' <=> Shapes!On(u)
    BY <2>7
  <2>10. "position" \in C
    OBVIOUS
  <2>11. asked' = {a \in asked : a.what \notin C}
    BY <1>2 DEF Shapes!Changes, Shapes!Except
  <2> HIDE DEF C
  <2>12. ShapesLeaves(C)
    BY <1>2, <2>b, <2>6, <2>8, <2>9, <2>10, PageLeaves
  <2>13. QED
    BY <2>11, <2>12, ShapesOther
<1>3. CASE /\ ~Shapes!On("group")
           /\ page' = Shapes!Dropping(page, Shapes!Listed(range)) \o <<"group">>
           /\ DOMAIN kinds' = DOMAIN kinds \cup {"group"}
           /\ UNCHANGED <<shape, pen, brush>>
           /\ Shapes!Changes({"position"} \cup Shapes!Listed(range))
  BY <1>2, <1>3
<1>4. \/ UNCHANGED Shapes!shapeVars /\ Shapes!Throws
      \/ /\ ~Shapes!On("group")
         /\ page' = Shapes!Dropping(page, Shapes!Listed(range)) \o <<"group">>
         /\ DOMAIN kinds' = DOMAIN kinds \cup {"group"}
         /\ UNCHANGED <<shape, pen, brush>>
         /\ Shapes!Changes({"position"} \cup Shapes!Listed(range))
  <2> DEFINE r == [kind |-> "group", name |-> ""]
  <2>1. \/ UNCHANGED Shapes!shapeVars /\ Shapes!Throws
        \/ /\ ~Shapes!On("group")
           /\ page' = Shapes!Dropping(page, Shapes!Listed(range)) \o <<"group">>
           /\ kinds' = [k \in DOMAIN kinds \cup {"group"} |-> IF k = "group" THEN r ELSE kinds[k]]
           /\ UNCHANGED <<shape, pen, brush>>
           /\ Shapes!Changes({"position"} \cup Shapes!Listed(range))
    BY Zenon DEF Shapes!Group
  <2> HIDE DEF r
  <2>2. QED
    BY <2>1
<1>5. QED
  BY <1>1, <1>3, <1>4

LEMMA SetsShapesKeeps ==
    ASSUME ShapesFine, Shapes!SetsShapes
    PROVE  ShapesFine'
<1>1. CASE /\ UNCHANGED <<shape, pen, brush, page, kinds>> /\ UNCHANGED asked
  BY <1>1, ShapeThings, ShapesRefused
<1>2. CASE Shapes!NewShapes \/ Shapes!AddOther \/ Shapes!DeleteOfRange
  BY <1>1, <1>2
     DEF Shapes!NewShapes, Shapes!AddOther, Shapes!DeleteOfRange, Shapes!Answers, Shapes!shapeVars
<1>3. CASE Shapes!Group
  BY <1>3, GroupKeeps
<1>4. ASSUME NEW id \in {"new", "newer"}, NEW kind, Shapes!Add(id, kind) PROVE ShapesFine'
  BY <1>4, AddShapeKeeps
<1>5. ASSUME NEW id \in DOMAIN kinds \ {"group"}, Shapes!DeleteShape(id) PROVE ShapesFine'
  BY <1>5, DeleteShapeKeeps
<1>6. ASSUME NEW ids, Shapes!MakeRange(ids) PROVE ShapesFine'
  BY <1>1, <1>6 DEF Shapes!MakeRange, Shapes!Answers, Shapes!Throws, Shapes!shapeVars
<1>7. QED
  BY <1>2, <1>3, <1>4, <1>5, <1>6, Zenon DEF Shapes!SetsShapes

LEMMA SetsShapeKeeps ==
    ASSUME ShapesFine, Shapes!SetsShape
    PROVE  ShapesFine'
<1>1. /\ 1000 \in Int /\ 500 \in Int /\ -500 \in Int /\ 4550 \in Int /\ 9000 \in Int /\ 50 \in Int
      /\ Shapes!Lengths \subseteq Shapes!Lengths \cup Shapes!Margins
      /\ Shapes!Margins \subseteq Shapes!Lengths \cup Shapes!Margins
      /\ {"left", "top", "height", "width"} \subseteq Shapes!Lengths
  BY DEF Shapes!Lengths
<1>2. ASSUME NEW l \in Shapes!Lengths, Shapes!SetLength(l, 1000) PROVE ShapesFine'
  BY <1>1, <1>2, SetLengthKeeps
<1>3. ASSUME NEW m \in Shapes!Margins, Shapes!SetMargin(m, 1000) PROVE ShapesFine'
  BY <1>1, <1>3, SetLengthKeeps DEF Shapes!SetMargin
<1>4. ASSUME NEW l \in {"left", "top"},
             Shapes!Increment(l, 500) \/ Shapes!Increment(l, -500) \/ Shapes!IncrementRange(l, 500)
      PROVE  ShapesFine'
  BY <1>1, <1>4, IncrementKeeps, IncrementRangeKeeps
<1>5. ASSUME NEW from, Shapes!Scale("height", "top", from) \/ Shapes!Scale("width", "left", from)
      PROVE  ShapesFine'
  BY <1>1, <1>5, ScaleKeeps
<1>6. ASSUME NEW a \in {4550, 9000}, Shapes!SetRotation(a) PROVE ShapesFine'
  BY <1>1, <1>6, SetRotationKeeps
<1>7. CASE Shapes!IncrementRotation(50)
  BY <1>1, <1>7, IncrementRotationKeeps
<1>8. ASSUME NEW cmd \in {"front", "back", "forward", "backward"}, Shapes!ZOrder(cmd)
      PROVE  ShapesFine'
  BY <1>8, ZOrderKeeps
<1>9. CASE Shapes!ZOrderRefused
  BY <1>9, ShapeThings, ShapesRefused DEF Shapes!ZOrderRefused, Shapes!Throws, Shapes!shapeVars
<1>10. ASSUME NEW b \in Shapes!OnOff, Shapes!SetVisible(b) \/ Shapes!SetAutoSize(b)
       PROVE  ShapesFine'
  BY <1>10, SetVisibleKeeps, SetAutoSizeKeeps
<1>11. ASSUME NEW n \in {40, 58, 101}, Shapes!SetBrightness(n) \/ Shapes!SetContrast(n)
       PROVE  ShapesFine'
  <2>1. n \in Int
    OBVIOUS
  <2>2. QED
    BY <1>11, <2>1, SetBrightnessKeeps, SetContrastKeeps
<1>12. ASSUME NEW d \in {-60, 60}, Shapes!IncrementBrightness(d) \/ Shapes!IncrementContrast(d)
       PROVE  ShapesFine'
  <2>1. d \in Int
    OBVIOUS
  <2>2. QED
    BY <1>12, <2>1, IncrementBrightnessKeeps, IncrementContrastKeeps
<1>13. QED
  BY <1>2, <1>3, <1>4, <1>5, <1>6, <1>7, <1>8, <1>9, <1>10, <1>11, <1>12 DEF Shapes!SetsShape

\* An arrow is read as the one it was set to: no two have one name.
LEMMA ArrowIs ==
    ASSUME NEW v \in DOMAIN Shapes!Arrows
    PROVE  ArrowOf(Shapes!Arrows[v]) = v
<1> DEFINE a == ""
           b == "Arrow concave"
           c == "Line Arrow"
           d == "Square 45"
<1>1. Shapes!Arrows = [none |-> a, stealth |-> b, open |-> c, oval |-> "Circle", diamond |-> d,
                       triangle |-> "Arrow"]
  BY Zenon DEF Shapes!Arrows
<1>2. /\ a # b /\ a # c /\ a # d /\ b # c /\ b # d /\ c # d
      /\ a # "Circle" /\ b # "Circle" /\ c # "Circle" /\ d # "Circle"
      /\ a # "Arrow" /\ b # "Arrow" /\ c # "Arrow" /\ d # "Arrow"
  BY Zenon
<1> HIDE DEF a, b, c, d
<1>3. \A u, w \in DOMAIN Shapes!Arrows : Shapes!Arrows[u] = Shapes!Arrows[w] => u = w
  BY <1>1, <1>2
<1>4. QED
  BY <1>3 DEF ArrowOf

LEMMA SetArrowKeeps ==
    ASSUME ShapesFine, NEW v, Shapes!SetArrow(v)
    PROVE  ShapesFine'
<1>1. CASE UNCHANGED Shapes!shapeVars /\ Shapes!Throws
  BY <1>1, ShapeThings, ShapesRefused DEF Shapes!shapeVars, Shapes!Throws
<1>2. CASE /\ v \in DOMAIN Shapes!Arrows
           /\ Shapes!PutShape([shape EXCEPT !.arrow = Shapes!Arrows[v]])
           /\ Shapes!Wrote("arrow", v)
  <2> DEFINE x == Shapes!Arrows[v]
             t == [shape EXCEPT !.arrow = x]
  <2>1. ArrowOf(x) = v
    BY <1>2, ArrowIs
  <2>2. shape' = t /\ UNCHANGED <<pen, brush, page, kinds>>
    BY <1>2 DEF Shapes!PutShape
  <2> HIDE DEF x
  <2>3. IsShape(t) /\ Alike(shape, t, {"arrow"}) /\ t.arrow = x
    BY ShapeThings, ShapeWith
  <2> HIDE DEF t
  <2>4. Shapes!ShapesRead("arrow")' = v
    BY <2>1, <2>2, <2>3, ShapesReadsNext
  <2>5. "arrow" \in Shapes!ShapesWhats
    BY DEF Shapes!ShapesWhats
  <2>6. QED
    BY <1>2, <2>2, <2>3, <2>4, <2>5, PutFieldKeeps
<1>3. QED
  BY <1>1, <1>2, Zenon DEF Shapes!SetArrow

LEMMA IgnoredByLineKeeps ==
    ASSUME ShapesFine, NEW w \in {"endArrow", "lineStyle", "line.back"}, NEW v,
           Shapes!IgnoredByLine(w, v)
    PROVE  ShapesFine'
<1>1. UNCHANGED <<shape, pen, brush, page, kinds>> /\ Shapes!Wrote(w, v)
  BY DEF Shapes!IgnoredByLine, Shapes!shapeVars
<1>2. Shapes!ShapesLoses([what |-> w, value |-> v])'
  BY DEF Shapes!ShapesLoses
<1>3. IsShape(shape) /\ Alike(shape, shape, {w})
  BY ShapeThings DEF Alike
<1>4. w \in Shapes!ShapesWhats /\ w # "position"
  BY DEF Shapes!ShapesWhats
<1>5. QED
  BY <1>1, <1>2, <1>3, <1>4, PutFieldKeeps

LEMMA TransparencyKeeps ==
    ASSUME ShapesFine, NEW n \in Nat, Shapes!SetLineTransparency(n) \/ Shapes!SetFillTransparency(n)
    PROVE  ShapesFine'
<1> DEFINE x == Shapes!Percent(n)
           t == [shape EXCEPT !.lineClear = x]
           s == [shape EXCEPT !.fillClear = x]
<1>1. CASE Shapes!SetLineTransparency(n)
  <2>1. shape' = t /\ UNCHANGED <<pen, brush, page, kinds>> /\ Shapes!Wrote("line.clear", n)
    BY <1>1 DEF Shapes!SetLineTransparency, Shapes!PutShape
  <2>2. x = n \/ Shapes!ShapesLoses([what |-> "line.clear", value |-> n])'
    BY DEF Shapes!ShapesLoses, Shapes!Percent
  <2> HIDE DEF x
  <2>3. IsShape(t) /\ Alike(shape, t, {"line.clear"}) /\ t.lineClear = x
    BY ShapeThings, ShapeWith
  <2> HIDE DEF t
  <2>4. Shapes!ShapesRead("line.clear")' = x
    BY <2>1, <2>3, ShapesReadsNext
  <2>5. "line.clear" \in Shapes!ShapesWhats
    BY DEF Shapes!ShapesWhats
  <2>6. Shapes!ShapesLoses([what |-> "line.clear", value |-> n])'
          \/ Shapes!ShapesRead("line.clear")' = n
    BY <2>2, <2>4
  <2>7. QED
    BY <2>1, <2>3, <2>5, <2>6, PutFieldKeeps
<1>2. CASE Shapes!SetFillTransparency(n)
  <2>1. shape' = s /\ UNCHANGED <<pen, brush, page, kinds>> /\ Shapes!Wrote("fill.clear", n)
    BY <1>2 DEF Shapes!SetFillTransparency, Shapes!PutShape
  <2>2. x = n \/ Shapes!ShapesLoses([what |-> "fill.clear", value |-> n])'
    BY DEF Shapes!ShapesLoses, Shapes!Percent
  <2> HIDE DEF x
  <2>3. IsShape(s) /\ Alike(shape, s, {"fill.clear"}) /\ s.fillClear = x
    BY ShapeThings, ShapeWith
  <2> HIDE DEF s
  <2>4. Shapes!ShapesRead("fill.clear")' = x
    BY <2>1, <2>3, ShapesReadsNext
  <2>5. "fill.clear" \in Shapes!ShapesWhats
    BY DEF Shapes!ShapesWhats
  <2>6. Shapes!ShapesLoses([what |-> "fill.clear", value |-> n])'
          \/ Shapes!ShapesRead("fill.clear")' = n
    BY <2>2, <2>4
  <2>7. QED
    BY <2>1, <2>3, <2>5, <2>6, PutFieldKeeps
<1>3. QED
  BY <1>1, <1>2

\* A colour that is swapped twice is what it was.
LEMMA SwapTwice ==
    ASSUME NEW c
    PROVE  Shapes!Swap(Shapes!Swap(c)) = c
<1>1. CASE c = "red"
  BY <1>1 DEF Shapes!Swap
<1>2. CASE c = "blue"
  BY <1>2 DEF Shapes!Swap
<1>3. CASE c # "red" /\ c # "blue"
  BY <1>3 DEF Shapes!Swap
<1>4. QED
  BY <1>1, <1>2, <1>3

LEMMA SetLineColorKeeps ==
    ASSUME ShapesFine, NEW c, Shapes!SetLineColor(c)
    PROVE  ShapesFine'
<1> DEFINE x == Shapes!Swap(c)
           t == [shape EXCEPT !.lineColor = x]
<1>1. shape' = t /\ UNCHANGED <<pen, brush, page, kinds>> /\ Shapes!Wrote("line.fore", c)
  BY DEF Shapes!SetLineColor, Shapes!PutShape
<1>2. Shapes!Swap(x) = c
  BY SwapTwice
<1> HIDE DEF x
<1>3. IsShape(t) /\ Alike(shape, t, {"line.fore"}) /\ t.lineColor = x
  BY ShapeThings, ShapeWith
<1> HIDE DEF t
<1>4. Shapes!ShapesRead("line.fore")' = c
  BY <1>1, <1>2, <1>3, ShapesReadsNext
<1>5. "line.fore" \in Shapes!ShapesWhats
  BY DEF Shapes!ShapesWhats
<1>6. QED
  BY <1>1, <1>3, <1>4, <1>5, PutFieldKeeps

\* A line that is given a dash style: shown, with that style if there is such a style.
LEMMA DashedIs ==
    ASSUME NEW s, IsShape(s), NEW v
    PROVE  LET t == Shapes!Dashed(s, v) IN
           /\ IsShape(t) /\ Alike(s, t, {"line.dash", "line.visible"}) /\ t.lineStyle # "none"
           /\ t.weight = s.weight
           /\ v \in Shapes!Dashes \cup {"solid"} => Shapes!DashOf(t) = v
<1> DEFINE t == Shapes!Dashed(s, v)
<1>1. CASE v = "solid"
  <2>1. t = [s EXCEPT !.lineStyle = "solid"]
    BY <1>1 DEF Shapes!Dashed
  <2>2. /\ DOMAIN t = DOMAIN s /\ t.lineStyle = "solid"
        /\ \A g \in DOMAIN s : g # "lineStyle" => t[g] = s[g]
    BY <2>1 DEF IsShape
  <2> HIDE DEF t
  <2>3. IsShape(t) /\ Alike(s, t, {"line.dash", "line.visible"}) /\ t.weight = s.weight
    BY <2>2 DEF IsShape, Alike
  <2>4. Shapes!DashOf(t) = v
    BY <1>1, <2>2 DEF Shapes!DashOf
  <2>5. QED
    BY <1>1, <2>2, <2>3, <2>4 DEF t
<1>2. CASE v # "solid"
  <2> DEFINE d == IF v = "roundDot" THEN "squareDot" ELSE IF v \in Shapes!Dashes THEN v ELSE s.dash
  <2>1. t = [s EXCEPT !.lineStyle = "dash", !.dash = d]
    BY <1>2 DEF Shapes!Dashed, IsShape
  <2>2. v \in Shapes!Dashes => d = v
    BY DEF Shapes!Dashes
  <2> HIDE DEF d
  <2>3. /\ DOMAIN t = DOMAIN s /\ t.lineStyle = "dash" /\ t.dash = d
        /\ \A g \in DOMAIN s : g # "lineStyle" /\ g # "dash" => t[g] = s[g]
    BY <2>1 DEF IsShape
  <2> HIDE DEF t
  <2>4. IsShape(t) /\ Alike(s, t, {"line.dash", "line.visible"}) /\ t.weight = s.weight
    BY <2>3 DEF IsShape, Alike
  <2>5. v \in Shapes!Dashes => Shapes!DashOf(t) = v
    BY <2>2, <2>3 DEF Shapes!DashOf
  <2>6. QED
    BY <1>2, <2>3, <2>4, <2>5 DEF t
<1>3. QED
  BY <1>1, <1>2

\* Lines are put on the sheet with the pen that drew them.
LEMMA PutLineIs ==
    ASSUME ShapesFine, NEW s, NEW dash, NEW weight, Shapes!PutLine(s, dash, weight)
    PROVE  shape' = s /\ IsPen(pen') /\ IsBrush(brush') /\ UNCHANGED <<page, kinds>>
<1>1. shape' = s /\ pen' = [dash |-> dash, weight |-> weight] /\ UNCHANGED <<brush, page, kinds>>
  BY DEF Shapes!PutLine
<1>2. IsPen(pen')
  BY <1>1 DEF IsPen
<1>3. QED
  BY <1>1, <1>2, ShapeThings

\* What a call that set one thing and changed others has set.
LEMMA LineWrote ==
    ASSUME ShapesFine, NEW t, shape' = t, IsShape(t), IsPen(pen'), IsBrush(brush'),
           UNCHANGED <<page, kinds>>, NEW w \in Shapes!ShapesWhats, w # "position", NEW v,
           NEW others,
           NEW C, C = {w} \cup others, Alike(shape, t, C), Shapes!WroteOver(w, v, others),
           Shapes!ShapesLoses([what |-> w, value |-> v])' \/ Shapes!ShapesRead(w)' = v
    PROVE  ShapesFine'
<1>1. asked' = {a \in asked : a.what \notin C} \cup {[what |-> w, value |-> v]}
  BY DEF Shapes!WroteOver, Shapes!Except
<1>2. QED
  BY <1>1, ShapeWrote

LEMMA DashOfReads ==
    Shapes!ShapesRead("line.dash")' = Shapes!DashOf(shape')
  BY ShapesReadsNext DEF Shapes!DashOf

LEMMA SetDashStyleKeeps ==
    ASSUME ShapesFine, NEW v \in Shapes!Dashes \cup {"solid", "roundDot", "other"},
           Shapes!SetDashStyle(v)
    PROVE  ShapesFine'
<1> DEFINE t == Shapes!Dashed(shape, v)
           others == {"line.visible"}
           C == {"line.dash"} \cup others
<1>1. /\ IsShape(t) /\ Alike(shape, t, {"line.dash", "line.visible"}) /\ t.lineStyle # "none"
      /\ v \in Shapes!Dashes \cup {"solid"} => Shapes!DashOf(t) = v
  BY ShapeThings, DashedIs
<1>2. Shapes!PutLine(t, v, pen.weight)
  BY DEF Shapes!SetDashStyle
<1> HIDE DEF t
<1>3. shape' = t /\ IsPen(pen') /\ IsBrush(brush') /\ UNCHANGED <<page, kinds>>
  BY <1>2, PutLineIs
<1>4. {"line.dash", "line.visible"} = C
  OBVIOUS
<1>5. Alike(shape, t, C)
  BY <1>1, <1>4
<1>6. CASE v = "other"
  <2>1. asked' = {a \in asked : a.what \notin C}
    BY <1>4, <1>6 DEF Shapes!SetDashStyle, Shapes!Spoils, Shapes!Except
  <2> HIDE DEF C
  <2>2. QED
    BY <1>1, <1>3, <1>5, <2>1, ShapeChanges
<1>7. CASE v # "other"
  <2>1. Shapes!WroteOver("line.dash", v, others)
    BY <1>7 DEF Shapes!SetDashStyle, Shapes!WroteAtCost
  <2>2. Shapes!ShapesRead("line.dash")' = Shapes!DashOf(t)
    BY <1>3, DashOfReads
  <2>3. Shapes!ShapesLoses([what |-> "line.dash", value |-> v])'
          \/ Shapes!ShapesRead("line.dash")' = v
    <3>1. CASE v = "roundDot"
      BY <3>1 DEF Shapes!ShapesLoses
    <3>2. CASE v # "roundDot"
      BY <1>1, <1>7, <2>2, <3>2
    <3>3. QED
      BY <3>1, <3>2
  <2>4. "line.dash" \in Shapes!ShapesWhats
    BY DEF Shapes!ShapesWhats
  <2> HIDE DEF C, others
  <2>5. C = {"line.dash"} \cup others
    BY DEF C
  <2>6. QED
    BY <1>1, <1>3, <1>5, <2>1, <2>3, <2>4, <2>5, LineWrote
<1>8. QED
  BY <1>6, <1>7

LEMMA WeightReads ==
    ASSUME NEW n \in Nat, n > 0
    PROVE  (((n * 35278) \div 10000) * 10000 + 17639) \div 35278 = n
<1> DEFINE m == (n * 35278) \div 10000
<1>1. m \in Int /\ 10000 * m <= n * 35278 /\ n * 35278 < 10000 * m + 10000
  OBVIOUS
<1> HIDE DEF m
<1> DEFINE q == (m * 10000 + 17639) \div 35278
<1>2. q \in Int /\ 35278 * q <= m * 10000 + 17639 /\ m * 10000 + 17639 < 35278 * q + 35278
  BY <1>1
<1> HIDE DEF q
<1>3. q = n
  BY <1>1, <1>2
<1>4. QED
  BY <1>3 DEF q, m

LEMMA AlikeDash ==
    ASSUME NEW s, NEW t, Alike(s, t, {"line.weight", "line.visible", "line.dash"}),
           (IF t.lineStyle = "solid" THEN "solid" ELSE t.dash) =
           (IF s.lineStyle = "solid" THEN "solid" ELSE s.dash),
           NEW C, "line.weight" \in C, "line.visible" \in C
    PROVE  Alike(s, t, C)
  BY DEF Alike, Shapes!Lengths, Shapes!Margins

LEMMA SetWeightKeeps ==
    ASSUME ShapesFine, NEW n \in Int, Shapes!SetWeight(n)
    PROVE  ShapesFine'
<1> DEFINE w == IF n = 0 THEN 5 ELSE n
           x == (w * 35278) \div 10000
           u == [shape EXCEPT !.weight = x]
           s == Shapes!Dashed(u, pen.dash)
           D == IF Shapes!DashOf(s) = Shapes!DashOf(shape) THEN {} ELSE {"line.dash"}
           others == D \cup {"line.visible"}
           C == {"line.weight"} \cup others
<1>1. IsShape(shape)
  BY ShapeThings
<1>2. CASE UNCHANGED Shapes!shapeVars /\ Shapes!Throws
  BY <1>2, ShapeThings, ShapesRefused DEF Shapes!shapeVars, Shapes!Throws
<1>3. CASE /\ n >= 0
           /\ Shapes!PutLine(s, pen.dash, w)
           /\ IF pen.dash = "other"
              THEN Shapes!Spoils({"line.weight", "line.visible", "line.dash"})
              ELSE Shapes!WroteOver("line.weight", n, others)
  <2>1. n > 0 => (x * 10000 + 17639) \div 35278 = n
    BY WeightReads
  <2> HIDE DEF x, w
  <2>2. IsShape(u) /\ Alike(shape, u, {"line.weight"}) /\ u.weight = x
    BY <1>1, ShapeWith
  <2> HIDE DEF u
  <2>3. IsShape(s) /\ Alike(u, s, {"line.dash", "line.visible"}) /\ s.weight = u.weight
    BY <2>2, DashedIs
  <2> HIDE DEF s
  <2>4. shape' = s /\ IsPen(pen') /\ IsBrush(brush') /\ UNCHANGED <<page, kinds>>
    BY <1>3, PutLineIs
  <2>5. Alike(shape, s, {"line.weight", "line.visible", "line.dash"})
    BY <2>2, <2>3 DEF Alike
  <2>6. Alike(shape, s, C)
    <3>1. CASE Shapes!DashOf(s) = Shapes!DashOf(shape)
      <4>1. (IF s.lineStyle = "solid" THEN "solid" ELSE s.dash) =
            (IF shape.lineStyle = "solid" THEN "solid" ELSE shape.dash)
        BY <3>1 DEF Shapes!DashOf
      <4>2. "line.weight" \in C /\ "line.visible" \in C
        OBVIOUS
      <4> HIDE DEF C
      <4>3. QED
        BY <2>5, <4>1, <4>2, AlikeDash
    <3>2. CASE Shapes!DashOf(s) # Shapes!DashOf(shape)
      <4>1. C = {"line.weight", "line.visible", "line.dash"}
        BY <3>2
      <4>2. QED
        BY <2>5, <4>1
    <3>3. QED
      BY <3>1, <3>2
  <2>7. CASE pen.dash = "other"
    <3> DEFINE E == {"line.weight", "line.visible", "line.dash"}
    <3>1. asked' = {a \in asked : a.what \notin E}
      BY <1>3, <2>7 DEF Shapes!Spoils, Shapes!Except
    <3> HIDE DEF E
    <3>2. Alike(shape, s, E)
      BY <2>5 DEF E
    <3>3. QED
      BY <2>3, <2>4, <3>1, <3>2, ShapeChanges
  <2>8. CASE pen.dash # "other"
    <3>1. Shapes!WroteOver("line.weight", n, others)
      BY <1>3, <2>8
    <3>2. Shapes!ShapesLoses([what |-> "line.weight", value |-> n])'
            \/ Shapes!ShapesRead("line.weight")' = n
      <4>1. CASE n = 0
        BY <4>1 DEF Shapes!ShapesLoses
      <4>2. CASE n # 0
        <5>1. shape'.weight = x
          BY <2>2, <2>3, <2>4
        <5>2. QED
          BY <1>3, <2>1, <4>2, <5>1, ShapesReadsNext
      <4>3. QED
        BY <4>1, <4>2
    <3>3. "line.weight" \in Shapes!ShapesWhats
      BY DEF Shapes!ShapesWhats
    <3> HIDE DEF C, others
    <3>4. C = {"line.weight"} \cup others
      BY DEF C
    <3>5. QED
      BY <2>3, <2>4, <2>6, <3>1, <3>2, <3>3, <3>4, LineWrote
  <2>9. QED
    BY <2>7, <2>8
<1>4. QED
  <2>1. \/ UNCHANGED Shapes!shapeVars /\ Shapes!Throws
        \/ /\ n >= 0
           /\ Shapes!PutLine(s, pen.dash, w)
           /\ IF pen.dash = "other"
              THEN Shapes!Spoils({"line.weight", "line.visible", "line.dash"})
              ELSE Shapes!WroteOver("line.weight", n, others)
    BY DEF Shapes!SetWeight, Shapes!WroteAtCost, Shapes!GetDashStyle
  <2>2. QED
    BY <1>2, <1>3, <2>1

LEMMA SetLineVisibleKeeps ==
    ASSUME ShapesFine, NEW b \in Shapes!OnOff, Shapes!SetLineVisible(b)
    PROVE  ShapesFine'
<1> DEFINE shown == b = "on" /\ shape.lineStyle = "none"
           t == IF b = "off" THEN [shape EXCEPT !.lineStyle = "none"]
                ELSE IF shown THEN Shapes!Dashed(shape, pen.dash) ELSE shape
           others == IF b = "off" \/ shown THEN {"line.dash"} ELSE {}
           C == {"line.visible"} \cup others
           B == {"line.dash", "line.visible"}
<1>1. IsShape(shape) /\ b \in {"on", "off"}
  BY ShapeThings DEF Shapes!OnOff
<1>2. /\ IsShape(t) /\ Alike(shape, t, B) /\ (b = "off" <=> t.lineStyle = "none")
      /\ b # "off" /\ ~shown => t = shape
  <2>1. CASE b = "off"
    <3> DEFINE s == [shape EXCEPT !.lineStyle = "none"]
    <3>1. /\ DOMAIN s = DOMAIN shape /\ s.lineStyle = "none"
          /\ \A g \in DOMAIN shape : g # "lineStyle" => s[g] = shape[g]
      BY <1>1 DEF IsShape
    <3>2. t = s
      BY <2>1
    <3> HIDE DEF s, t
    <3>3. IsShape(s) /\ Alike(shape, s, B)
      BY <1>1, <3>1 DEF IsShape, Alike
    <3> HIDE DEF B
    <3>4. QED
      BY <2>1, <3>1, <3>2, <3>3
  <2>2. CASE b # "off" /\ shown
    <3>1. t = Shapes!Dashed(shape, pen.dash)
      BY <2>2
    <3> HIDE DEF t
    <3>2. QED
      BY <1>1, <2>2, <3>1, DashedIs
  <2>3. CASE b # "off" /\ ~shown
    <3>1. t = shape
      BY <2>3
    <3> HIDE DEF t
    <3>2. Alike(shape, shape, B)
      BY DEF Alike
    <3> HIDE DEF B
    <3>3. QED
      BY <1>1, <2>3, <3>1, <3>2
  <2>4. QED
    BY <2>1, <2>2, <2>3
<1>3. Alike(shape, t, C)
  <2>1. CASE b = "off" \/ shown
    <3>1. C = B
      BY <2>1
    <3>2. QED
      BY <1>2, <3>1
  <2>2. CASE ~(b = "off" \/ shown)
    <3>1. t = shape
      BY <1>2, <2>2
    <3> HIDE DEF t, C
    <3>2. QED
      BY <3>1 DEF Alike
  <2>3. QED
    BY <2>1, <2>2
<1>4. shape' = t /\ UNCHANGED <<pen, brush, page, kinds>>
  BY DEF Shapes!SetLineVisible, Shapes!PutShape
<1>5. IsPen(pen') /\ IsBrush(brush')
  BY <1>4, ShapeThings
<1>6. \/ shown /\ pen.dash = "other" /\ Shapes!Spoils({"line.visible", "line.dash"})
      \/ Shapes!WroteOver("line.visible", b, others)
  BY DEF Shapes!SetLineVisible, Shapes!WroteAtCost
<1> HIDE DEF t
<1>7. CASE shown /\ pen.dash = "other" /\ Shapes!Spoils({"line.visible", "line.dash"})
  <2>1. asked' = {a \in asked : a.what \notin B}
    BY <1>7 DEF Shapes!Spoils, Shapes!Except
  <2> HIDE DEF B
  <2>2. QED
    BY <1>2, <1>4, <1>5, <2>1, ShapeChanges
<1>8. CASE Shapes!WroteOver("line.visible", b, others)
  <2>1. Shapes!ShapesRead("line.visible")' = b
    BY <1>1, <1>2, <1>4, ShapesReadsNext
  <2>2. "line.visible" \in Shapes!ShapesWhats
    BY DEF Shapes!ShapesWhats
  <2> HIDE DEF C, others
  <2>3. C = {"line.visible"} \cup others
    BY DEF C
  <2>4. QED
    BY <1>2, <1>3, <1>4, <1>5, <1>8, <2>1, <2>2, <2>3, LineWrote
<1>9. QED
  BY <1>6, <1>7, <1>8

LEMMA ReadDashStyleKeeps ==
    ASSUME ShapesFine, Shapes!ReadDashStyle
    PROVE  ShapesFine'
<1>1. PICK d : d = Shapes!GetDashStyle
  OBVIOUS
<1>2. Shapes!PutLine(shape, d, pen.weight) /\ UNCHANGED asked
  BY <1>1 DEF Shapes!ReadDashStyle, Shapes!Answers
<1>3. shape' = shape /\ IsPen(pen') /\ IsBrush(brush') /\ UNCHANGED <<page, kinds>>
  BY <1>2, PutLineIs
<1>4. QED
  BY <1>2, <1>3, ShapesRefused

LEMMA SetsLineKeeps ==
    ASSUME ShapesFine, Shapes!SetsLine
    PROVE  ShapesFine'
<1>1. CASE Shapes!NewLine
  <2>1. pen' = Shapes!NewPen /\ UNCHANGED <<shape, brush, page, kinds, asked>>
    BY <1>1 DEF Shapes!NewLine, Shapes!Answers
  <2>2. IsPen(pen')
    BY <2>1 DEF Shapes!NewPen, IsPen
  <2>3. QED
    BY <2>1, <2>2, ShapeThings, ShapesRefused
<1>2. CASE Shapes!LineRefused
  BY <1>2, ShapeThings, ShapesRefused DEF Shapes!LineRefused, Shapes!shapeVars, Shapes!Throws
<1>3. CASE Shapes!ReadDashStyle
  BY <1>3, ReadDashStyleKeeps
<1>4. ASSUME NEW v, Shapes!SetArrow(v) PROVE ShapesFine'
  BY <1>4, SetArrowKeeps
<1>5. CASE \/ Shapes!IgnoredByLine("endArrow", "open")
        \/ Shapes!IgnoredByLine("lineStyle", "double")
           \/ Shapes!IgnoredByLine("line.back", "red")
  BY <1>5, IgnoredByLineKeeps
<1>6. ASSUME NEW v \in Shapes!Dashes \cup {"solid", "roundDot", "other"}, Shapes!SetDashStyle(v)
      PROVE  ShapesFine'
  BY <1>6, SetDashStyleKeeps
<1>7. ASSUME NEW n \in {-1, 0, 20}, Shapes!SetWeight(n) PROVE ShapesFine'
  <2>1. n \in Int
    OBVIOUS
  <2>2. QED
    BY <1>7, <2>1, SetWeightKeeps
<1>8. ASSUME NEW b \in Shapes!OnOff, Shapes!SetLineVisible(b) PROVE ShapesFine'
  BY <1>8, SetLineVisibleKeeps
<1>9. ASSUME NEW n \in {29, 50}, Shapes!SetLineTransparency(n) PROVE ShapesFine'
  <2>1. n \in Nat
    OBVIOUS
  <2>2. QED
    BY <1>9, <2>1, TransparencyKeeps
<1>10. ASSUME NEW c, Shapes!SetLineColor(c) PROVE ShapesFine'
  BY <1>10, SetLineColorKeeps
<1>11. QED
  BY <1>1, <1>2, <1>3, <1>4, <1>5, <1>6, <1>7, <1>8, <1>9, <1>10 DEF Shapes!SetsLine

\* The shape is filled, in a style, by a brush that may be another afterwards.
LEMMA PutFillIs ==
    ASSUME ShapesFine, NEW s, IsShape(s), NEW b, IsBrush(b), NEW style \in {"solid", "gradient"},
           Shapes!PutFill(s, style, b)
    PROVE  /\ IsShape(shape') /\ Alike(s, shape', {"fill.visible"}) /\ shape'.fillStyle = style
           /\ shape'.fillColor = s.fillColor
           /\ IsBrush(brush') /\ IsPen(pen') /\ UNCHANGED <<page, kinds>>
<1> DEFINE k == IF style = "solid" THEN b.color ELSE Shapes!ColorAsked(b, "fore")
           c == [b EXCEPT !.style = style, !.color = k]
           g == IF style = "solid" THEN s.gradient
                ELSE [start |-> Shapes!RGB(s, c), end |-> Shapes!RGB(s, c), angle |-> c.angle]
           t == [s EXCEPT !.fillStyle = style, !.gradient = g]
<1>1. k \in {"none", "fore", "back"}
  BY DEF IsBrush, Shapes!ColorAsked
<1>2. brush' = c /\ UNCHANGED <<pen, page, kinds>>
  <2>1. [b EXCEPT !.style = style, !.color = IF style = "solid" THEN @
          ELSE Shapes!ColorAsked(b, "fore")] = c
    BY DEF IsBrush
  <2>2. QED
    BY <2>1 DEF Shapes!PutFill
<1>3. shape' = t
  <2>1. [b EXCEPT !.style = style, !.color = IF style = "solid" THEN @
          ELSE Shapes!ColorAsked(b, "fore")] = c
    BY DEF IsBrush
  <2> HIDE DEF c
  <2>2. shape' = [s EXCEPT !.fillStyle = style,
                           !.gradient = IF style = "solid" THEN @
                                        ELSE [start |-> Shapes!RGB(s, c), end |-> Shapes!RGB(s, c),
                                              angle |-> c.angle]]
    BY <2>1 DEF Shapes!PutFill
  <2>3. QED
    BY <2>2 DEF IsShape
<1> HIDE DEF k
<1>4. IsBrush(c)
  <2>1. DOMAIN c = DOMAIN b /\ c.style = style /\ c.color = k
    BY DEF IsBrush
  <2> HIDE DEF c
  <2>2. QED
    BY <1>1, <2>1 DEF IsBrush
<1> HIDE DEF c, g
<1>5. /\ DOMAIN t = DOMAIN s /\ t.fillStyle = style
      /\ \A f \in DOMAIN s : f # "fillStyle" /\ f # "gradient" => t[f] = s[f]
  BY DEF IsShape
<1> HIDE DEF t
<1>6. IsShape(t) /\ Alike(s, t, {"fill.visible"}) /\ t.fillColor = s.fillColor
  BY <1>5 DEF IsShape, Alike
<1>7. QED
  BY <1>2, <1>3, <1>4, <1>5, <1>6, ShapeThings

LEMMA PutFillColorIs ==
    ASSUME ShapesFine, NEW which \in {"fore", "back"}, NEW c, Shapes!PutFillColor(which, c)
    PROVE  /\ IsShape(shape') /\ IsBrush(brush') /\ IsPen(pen') /\ UNCHANGED <<page, kinds>>
           /\ IF Shapes!ColorAsked(brush, which) = "fore"
              THEN /\ Alike(shape, shape', {"fill.fore", "fill.visible", "fill.scheme"})
                   /\ shape'.fillColor = Shapes!Swap(c)
              ELSE Alike(shape, shape', {"fill.visible"})
<1> DEFINE kind == Shapes!ColorAsked(brush, which)
           x == Shapes!Swap(c)
<1>1. IsShape(shape) /\ IsBrush(brush) /\ kind \in {"fore", "back"}
        /\ brush.style \in {"solid", "gradient"}
  BY ShapeThings DEF IsBrush, Shapes!ColorAsked
<1>2. CASE kind = "fore"
  <2> DEFINE s == [shape EXCEPT !.fillColor = x]
             b == [brush EXCEPT !.color = kind]
  <2>1. Shapes!PutFill(s, brush.style, b)
    BY <1>2 DEF Shapes!PutFillColor
  <2> HIDE DEF x, kind
  <2>2. /\ DOMAIN s = DOMAIN shape /\ s.fillColor = x
        /\ \A f \in DOMAIN shape : f # "fillColor" => s[f] = shape[f]
    BY <1>1 DEF IsShape
  <2>3. DOMAIN b = DOMAIN brush /\ b.color = kind /\ b.style = brush.style
    BY <1>1 DEF IsBrush
  <2> HIDE DEF s, b
  <2>4. IsShape(s)
    BY <1>1, <2>2 DEF IsShape
  <2>5. IsBrush(b)
    BY <1>1, <2>3 DEF IsBrush
  <2>6. /\ IsShape(shape') /\ Alike(s, shape', {"fill.visible"}) /\ shape'.fillColor = x
        /\ IsBrush(brush') /\ IsPen(pen') /\ UNCHANGED <<page, kinds>>
    <3>1. PICK style \in {"solid", "gradient"} : style = brush.style
      BY <1>1
    <3>2. QED
      BY <2>1, <2>2, <2>4, <2>5, <3>1, PutFillIs
  <2>7. Alike(shape, shape', {"fill.fore", "fill.visible", "fill.scheme"})
    BY <1>1, <2>2, <2>6 DEF Alike, IsShape
  <2>8. QED
    BY <1>2, <2>6, <2>7 DEF kind, x
<1>3. CASE kind = "back"
  <2> DEFINE b == [brush EXCEPT !.color = kind, !.back = x]
  <2>1. Shapes!PutFill(shape, brush.style, b)
    BY <1>3 DEF Shapes!PutFillColor
  <2> HIDE DEF x, kind
  <2>2. DOMAIN b = DOMAIN brush /\ b.color = kind /\ b.style = brush.style
    BY <1>1 DEF IsBrush
  <2> HIDE DEF b
  <2>3. IsBrush(b)
    BY <1>1, <2>2 DEF IsBrush
  <2>4. /\ IsShape(shape') /\ Alike(shape, shape', {"fill.visible"})
        /\ IsBrush(brush') /\ IsPen(pen') /\ UNCHANGED <<page, kinds>>
    <3>1. PICK style \in {"solid", "gradient"} : style = brush.style
      BY <1>1
    <3>2. QED
      BY <1>1, <2>1, <2>3, <3>1, PutFillIs
  <2>5. QED
    BY <1>3, <2>4 DEF kind
<1>4. QED
  BY <1>1, <1>2, <1>3

LEMMA SetFillColorKeeps ==
    ASSUME ShapesFine, NEW which \in {"fore", "back"}, NEW c, Shapes!SetFillColor(which, c)
    PROVE  ShapesFine'
<1> DEFINE B == {"fill.visible"}
           others == {"fill.visible", "fill.scheme"}
           C == {"fill.fore"} \cup others
<1>1. /\ IsShape(shape') /\ IsBrush(brush') /\ IsPen(pen') /\ UNCHANGED <<page, kinds>>
      /\ IF Shapes!ColorAsked(brush, which) = "fore"
         THEN /\ Alike(shape, shape', {"fill.fore", "fill.visible", "fill.scheme"})
              /\ shape'.fillColor = Shapes!Swap(c)
         ELSE Alike(shape, shape', {"fill.visible"})
  BY PutFillColorIs DEF Shapes!SetFillColor
<1>2. CASE Shapes!ColorAsked(brush, which) = "fore"
  <2>1. Shapes!WroteOver("fill.fore", c, others)
    BY <1>2 DEF Shapes!SetFillColor, Shapes!WroteAtCost
  <2>2. Shapes!ShapesRead("fill.fore")' = c
    BY <1>1, <1>2, SwapTwice, ShapesReadsNext
  <2>3. {"fill.fore", "fill.visible", "fill.scheme"} = C
    OBVIOUS
  <2>4. Alike(shape, shape', C)
    BY <1>1, <1>2, <2>3
  <2>5. "fill.fore" \in Shapes!ShapesWhats
    BY DEF Shapes!ShapesWhats
  <2> HIDE DEF C, others
  <2>6. C = {"fill.fore"} \cup others
    BY DEF C
  <2>7. PICK t : t = shape'
    OBVIOUS
  <2>8. QED
    BY <1>1, <2>1, <2>2, <2>4, <2>5, <2>6, <2>7, LineWrote
<1>3. CASE Shapes!ColorAsked(brush, which) # "fore"
  <2>1. asked' = {a \in asked : a.what \notin B}
    BY <1>3 DEF Shapes!SetFillColor, Shapes!Clobbers, Shapes!Changes, Shapes!Except
  <2>2. Alike(shape, shape', B)
    BY <1>1, <1>3
  <2> HIDE DEF B
  <2>3. QED
    BY <1>1, <2>1, <2>2, ShapeChanges
<1>4. QED
  BY <1>2, <1>3

\* A colour of the scheme reads as the first such colour.
LEMMA SchemeReads ==
    ASSUME NEW i \in DOMAIN Shapes!Scheme,
           \A k \in 1 .. i - 1 : Shapes!Scheme[k] # Shapes!Scheme[i]
    PROVE  SchemeOf(Shapes!Swap(Shapes!Scheme[i])) = i
<1> DEFINE x == Shapes!Swap(Shapes!Swap(Shapes!Scheme[i]))
           P(j) == (Shapes!Scheme[j] = x \/ j = Len(Shapes!Scheme))
                   /\ \A k \in 1 .. j - 1 : Shapes!Scheme[k] # x
<1>1. x = Shapes!Scheme[i]
  BY SwapTwice
<1>2. DOMAIN Shapes!Scheme = 1 .. Len(Shapes!Scheme) /\ Len(Shapes!Scheme) \in Nat
  BY DEF Shapes!Scheme
<1> HIDE DEF x
<1>3. P(i)
  BY <1>1
<1>4. ASSUME NEW j \in DOMAIN Shapes!Scheme, P(j) PROVE j = i
  <2>1. i \in Int /\ j \in Int /\ 1 <= i /\ 1 <= j /\ i <= Len(Shapes!Scheme)
          /\ j <= Len(Shapes!Scheme)
    BY <1>2
  <2>2. ~(i < j)
    BY <1>1, <1>4, <2>1
  <2>3. ~(j < i)
    <3>1. ASSUME j < i PROVE FALSE
      <4>1. j \in 1 .. i - 1
        BY <2>1, <3>1
      <4>2. Shapes!Scheme[j] # x
        BY <1>1, <4>1
      <4>3. j = Len(Shapes!Scheme)
        BY <1>4, <4>2
      <4>4. QED
        BY <2>1, <3>1, <4>3
    <3>2. QED
      BY <3>1
  <2>4. QED
    BY <2>1, <2>2, <2>3
<1>5. SchemeOf(Shapes!Swap(Shapes!Scheme[i])) = CHOOSE j \in DOMAIN Shapes!Scheme : P(j)
  BY Zenon DEF SchemeOf, x
<1> HIDE DEF P
<1>6. QED
  BY <1>3, <1>4, <1>5

LEMMA SetSchemeColorKeeps ==
    ASSUME ShapesFine, NEW i \in DOMAIN Shapes!Scheme, Shapes!SetSchemeColor(i)
    PROVE  ShapesFine'
<1> DEFINE c == Shapes!Scheme[i]
           B == {"fill.visible"}
           others == {"fill.visible", "fill.fore"}
           C == {"fill.scheme"} \cup others
<1>1. /\ IsShape(shape') /\ IsBrush(brush') /\ IsPen(pen') /\ UNCHANGED <<page, kinds>>
      /\ IF Shapes!ColorAsked(brush, "fore") = "fore"
         THEN /\ Alike(shape, shape', {"fill.fore", "fill.visible", "fill.scheme"})
              /\ shape'.fillColor = Shapes!Swap(c)
         ELSE Alike(shape, shape', {"fill.visible"})
  <2>1. Shapes!PutFillColor("fore", c)
    BY DEF Shapes!SetSchemeColor
  <2> HIDE DEF c
  <2>2. QED
    BY <2>1, PutFillColorIs
<1>2. CASE Shapes!ColorAsked(brush, "fore") = "fore"
  <2>1. Shapes!WroteOver("fill.scheme", i, others)
    BY <1>2 DEF Shapes!SetSchemeColor, Shapes!WroteAtCost
  <2>2. Shapes!ShapesLoses([what |-> "fill.scheme", value |-> i])'
          \/ Shapes!ShapesRead("fill.scheme")' = i
    <3>1. CASE \E k \in 1 .. i - 1 : Shapes!Scheme[k] = Shapes!Scheme[i]
      BY <3>1 DEF Shapes!ShapesLoses
    <3>2. CASE ~\E k \in 1 .. i - 1 : Shapes!Scheme[k] = Shapes!Scheme[i]
      <4>1. SchemeOf(Shapes!Swap(c)) = i
        BY <3>2, SchemeReads
      <4> HIDE DEF c
      <4>2. QED
        BY <1>1, <1>2, <4>1, ShapesReadsNext
    <3>3. QED
      BY <3>1, <3>2
  <2>3. {"fill.fore", "fill.visible", "fill.scheme"} = C
    OBVIOUS
  <2>4. Alike(shape, shape', C)
    BY <1>1, <1>2, <2>3
  <2>5. "fill.scheme" \in Shapes!ShapesWhats
    BY DEF Shapes!ShapesWhats
  <2> HIDE DEF C, others
  <2>6. C = {"fill.scheme"} \cup others
    BY DEF C
  <2>7. PICK t : t = shape'
    OBVIOUS
  <2>8. QED
    BY <1>1, <2>1, <2>2, <2>4, <2>5, <2>6, <2>7, LineWrote
<1>3. CASE Shapes!ColorAsked(brush, "fore") # "fore"
  <2>1. asked' = {a \in asked : a.what \notin B}
    BY <1>3 DEF Shapes!SetSchemeColor, Shapes!Clobbers, Shapes!Changes, Shapes!Except
  <2>2. Alike(shape, shape', B)
    BY <1>1, <1>3
  <2> HIDE DEF B
  <2>3. QED
    BY <1>1, <2>1, <2>2, ShapeChanges
<1>4. QED
  BY <1>2, <1>3

LEMMA SetFillVisibleKeeps ==
    ASSUME ShapesFine, NEW b \in Shapes!OnOff, Shapes!SetFillVisible(b)
    PROVE  ShapesFine'
<1>1. IsShape(shape) /\ IsBrush(brush) /\ b \in {"on", "off"} /\ Shapes!Wrote("fill.visible", b)
  BY ShapeThings DEF Shapes!OnOff, Shapes!SetFillVisible
<1>2. /\ IsShape(shape') /\ Alike(shape, shape', {"fill.visible"})
      /\ IsBrush(brush') /\ IsPen(pen') /\ UNCHANGED <<page, kinds>>
      /\ b = "off" <=> shape'.fillStyle = "none"
  <2>1. CASE b = "on" /\ shape.fillStyle = "none"
    <3>1. Shapes!PutFill(shape, brush.style, brush)
      BY <2>1 DEF Shapes!SetFillVisible
    <3>2. PICK style \in {"solid", "gradient"} : style = brush.style
      BY <1>1 DEF IsBrush
    <3>3. QED
      BY <1>1, <2>1, <3>1, <3>2, PutFillIs
  <2>2. CASE b = "off"
    <3> DEFINE x == "none"
               t == [shape EXCEPT !.fillStyle = x]
    <3>1. shape' = t /\ UNCHANGED <<pen, brush, page, kinds>>
      BY <2>2 DEF Shapes!SetFillVisible, Shapes!PutShape
    <3>2. IsShape(t) /\ Alike(shape, t, {"fill.visible"}) /\ t.fillStyle = x
      <4> HIDE DEF x
      <4>1. QED
        BY <1>1, ShapeWith
    <3> HIDE DEF t
    <3>3. QED
      BY <2>2, <3>1, <3>2, ShapeThings
  <2>3. CASE b = "on" /\ shape.fillStyle # "none"
    <3>1. shape' = shape /\ UNCHANGED <<pen, brush, page, kinds>>
      BY <2>3 DEF Shapes!SetFillVisible, Shapes!PutShape
    <3>2. Alike(shape, shape', {"fill.visible"})
      BY <3>1 DEF Alike
    <3>3. QED
      BY <1>1, <2>3, <3>1, <3>2, ShapeThings
  <2>4. QED
    BY <1>1, <2>1, <2>2, <2>3
<1> DEFINE C == {"fill.visible"}
<1>3. asked' = {a \in asked : a.what \notin C} \cup {[what |-> "fill.visible", value |-> b]}
  BY <1>1 DEF Shapes!Wrote, Shapes!WroteOver, Shapes!Except
<1>4. Shapes!ShapesRead("fill.visible")' = b
  BY <1>1, <1>2, ShapesReadsNext
<1>5. "fill.visible" \in Shapes!ShapesWhats
  BY DEF Shapes!ShapesWhats
<1>6. Alike(shape, shape', C)
  BY <1>2
<1> HIDE DEF C
<1>7. QED
  BY <1>2, <1>3, <1>4, <1>5, <1>6, ShapeWrote

LEMMA FilledKeeps ==
    ASSUME ShapesFine, NEW style \in {"solid", "gradient"}, NEW b, IsBrush(b),
           Shapes!PutFill(shape, style, b), Shapes!Changes({"fill.visible"})
    PROVE  ShapesFine'
<1> DEFINE C == {"fill.visible"}
<1>1. asked' = {a \in asked : a.what \notin C}
  BY DEF Shapes!Changes, Shapes!Except
<1>2. /\ IsShape(shape') /\ Alike(shape, shape', C)
      /\ IsBrush(brush') /\ IsPen(pen') /\ UNCHANGED <<page, kinds>>
  BY PutFillIs, ShapeThings
<1> HIDE DEF C
<1>3. QED
  BY <1>1, <1>2, ShapeChanges

LEMMA TwoColorGradientKeeps ==
    ASSUME ShapesFine, NEW v, Shapes!TwoColorGradient(v)
    PROVE  ShapesFine'
<1>1. CASE UNCHANGED Shapes!shapeVars /\ Shapes!Answers
  BY <1>1, ShapeThings, ShapesRefused DEF Shapes!shapeVars, Shapes!Answers
<1>2. CASE /\ Shapes!PutFill(shape, "gradient", [brush EXCEPT !.angle = Shapes!Angles[v]])
           /\ Shapes!Changes({"fill.visible"})
  <2> DEFINE b == [brush EXCEPT !.angle = Shapes!Angles[v]]
  <2>1. DOMAIN b = DOMAIN brush /\ b.color = brush.color /\ b.style = brush.style
    BY ShapeThings DEF IsBrush
  <2> HIDE DEF b
  <2>2. IsBrush(b)
    BY <2>1, ShapeThings DEF IsBrush
  <2>3. QED
    BY <1>2, <2>2, FilledKeeps DEF b
<1>3. QED
  BY <1>1, <1>2, Zenon DEF Shapes!TwoColorGradient

LEMMA SetsFillKeeps ==
    ASSUME ShapesFine, Shapes!SetsFill
    PROVE  ShapesFine'
<1>1. CASE Shapes!NewFill
  <2>1. brush' = Shapes!NewBrush /\ UNCHANGED <<shape, pen, page, kinds, asked>>
    BY <1>1 DEF Shapes!NewFill, Shapes!Answers
  <2>2. IsBrush(brush')
    BY <2>1 DEF Shapes!NewBrush, IsBrush
  <2>3. QED
    BY <2>1, <2>2, ShapeThings, ShapesRefused
<1>2. CASE Shapes!Solid
  BY <1>2, ShapeThings, FilledKeeps DEF Shapes!Solid
<1>3. ASSUME NEW which \in {"fore", "back"}, NEW c, Shapes!SetFillColor(which, c) PROVE ShapesFine'
  BY <1>3, SetFillColorKeeps
<1>4. ASSUME NEW i \in DOMAIN Shapes!Scheme, Shapes!SetSchemeColor(i) PROVE ShapesFine'
  BY <1>4, SetSchemeColorKeeps
<1>5. ASSUME NEW b \in Shapes!OnOff, Shapes!SetFillVisible(b) PROVE ShapesFine'
  BY <1>5, SetFillVisibleKeeps
<1>6. ASSUME NEW n \in {29, 50}, Shapes!SetFillTransparency(n) PROVE ShapesFine'
  <2>1. n \in Nat
    OBVIOUS
  <2>2. QED
    BY <1>6, <2>1, TransparencyKeeps
<1>7. ASSUME NEW v, Shapes!TwoColorGradient(v) PROVE ShapesFine'
  BY <1>7, TwoColorGradientKeeps
<1>8. QED
  BY <1>1, <1>2, <1>3, <1>4, <1>5, <1>6, <1>7 DEF Shapes!SetsFill

\* No call of a macro that works on shapes loses what it has set.
LEMMA ShapesCallKeeps ==
    ASSUME ShapesFine, Shapes!ShapesCall
    PROVE  ShapesFine'
  BY SetsShapeKeeps, SetsLineKeeps, SetsFillKeeps, SetsShapesKeeps DEF Shapes!ShapesCall
=============================================================================
