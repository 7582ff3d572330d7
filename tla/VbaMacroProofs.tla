--------------------------- MODULE VbaMacroProofs ---------------------------
(***************************************************************************)
(* Proofs about VbaMacro, for any number of documents and of sheets, and   *)
(* macros of any length: nothing is lost, and what is set is read.         *)
(***************************************************************************)
EXTENDS VbaShapesProofs

-----------------------------------------------------------------------------
(* Sequences of sheets *)

LEMMA InsertHas ==
    ASSUME NEW S, NEW s \in Seq(S), NEW i \in 0 .. Len(s), NEW x \in S
    PROVE  LET t == Books!Insert(s, i, <<x>>)
           IN  /\ t \in Seq(S) /\ Len(t) = Len(s) + 1
               /\ \A k \in 1 .. Len(s) + 1 :
                    t[k] = IF k <= i THEN s[k] ELSE IF k = i + 1 THEN x ELSE s[k - 1]
<1> DEFINE n == Len(s)
           u == SubSeq(s, 1, i)
           w == SubSeq(s, i + 1, n)
<1>1. n \in Nat /\ i \in 0 .. n /\ \A k \in 1 .. n : s[k] \in S
  BY LenProperties
<1> HIDE DEF n
<1>2. u \in Seq(S) /\ Len(u) = i /\ \A k \in 1 .. i : u[k] = s[k]
  <2>1. \A k \in 1 .. i : s[k] \in S
    BY <1>1
  <2>2. /\ u \in Seq(S) /\ Len(u) = (IF 1 <= i THEN i - 1 + 1 ELSE 0)
        /\ \A k \in 1 .. i - 1 + 1 : u[k] = s[1 + k - 1]
    BY <1>1, <2>1, SubSeqProperties
  <2> HIDE DEF u
  <2>3. \A k \in 1 .. i : 1 + k - 1 = k
    BY <1>1
  <2>4. QED
    BY <1>1, <2>2, <2>3
<1>3. w \in Seq(S) /\ Len(w) = n - i /\ \A k \in 1 .. n - i : w[k] = s[i + k]
  <2>1. \A k \in i + 1 .. n : s[k] \in S
    BY <1>1
  <2>2. /\ w \in Seq(S) /\ Len(w) = (IF i + 1 <= n THEN n - (i + 1) + 1 ELSE 0)
        /\ \A k \in 1 .. n - (i + 1) + 1 : w[k] = s[i + 1 + k - 1]
    BY <1>1, <2>1, SubSeqProperties
  <2> HIDE DEF w
  <2>3. n - (i + 1) + 1 = n - i /\ \A k \in 1 .. n - i : i + 1 + k - 1 = i + k
    BY <1>1
  <2>4. QED
    BY <1>1, <2>2, <2>3
<1>4. <<x>> \in Seq(S) /\ Len(<<x>>) = 1 /\ <<x>>[1] = x
  OBVIOUS
<1> DEFINE v == u \o <<x>>
           t == v \o w
<1>5. Books!Insert(s, i, <<x>>) = t
  BY DEF Books!Insert, n
<1> HIDE DEF u, w
<1>6. /\ v \in Seq(S) /\ Len(v) = i + 1
      /\ \A k \in 1 .. i + 1 : v[k] = IF k <= i THEN u[k] ELSE <<x>>[k - i]
  BY <1>2, <1>4, ConcatProperties
<1>7. v \in Seq(S) /\ Len(v) = i + 1 /\ \A k \in 1 .. i + 1 : v[k] = IF k <= i THEN s[k] ELSE x
  <2>1. \A k \in 1 .. i + 1 : ~(k <= i) => k - i = 1
    BY <1>1
  <2>2. QED
    BY <1>1, <1>2, <1>4, <1>6, <2>1
<1> HIDE DEF v
<1>8. /\ t \in Seq(S) /\ Len(t) = i + 1 + (n - i)
      /\ \A k \in 1 .. i + 1 + (n - i) :
           t[k] = IF k <= i + 1 THEN v[k] ELSE w[k - (i + 1)]
  <2>1. /\ t \in Seq(S) /\ Len(t) = Len(v) + Len(w)
        /\ \A k \in 1 .. Len(v) + Len(w) : t[k] = IF k <= Len(v) THEN v[k] ELSE w[k - Len(v)]
    BY <1>3, <1>7, ConcatProperties
  <2> HIDE DEF t
  <2>2. QED
    BY <1>3, <1>7, <2>1
<1> HIDE DEF t
<1>9. i + 1 + (n - i) = n + 1
  BY <1>1
<1>10. ASSUME NEW k \in 1 .. n + 1
       PROVE  t[k] = IF k <= i THEN s[k] ELSE IF k = i + 1 THEN x ELSE s[k - 1]
  <2>1. CASE k <= i
    <3>1. k \in 1 .. i + 1 /\ k <= i + 1
      BY <1>1, <2>1
    <3>2. t[k] = v[k]
      BY <1>8, <1>9, <3>1
    <3>3. v[k] = s[k]
      BY <1>7, <2>1, <3>1
    <3>4. QED
      BY <2>1, <3>2, <3>3
  <2>2. CASE k = i + 1
    BY <1>1, <1>7, <1>8, <1>9, <2>2
  <2>3. CASE k > i + 1
    <3>1. k - (i + 1) \in 1 .. n - i /\ i + (k - (i + 1)) = k - 1
      BY <1>1, <2>3
    <3>2. t[k] = w[k - (i + 1)]
      BY <1>1, <1>8, <1>9, <2>3
    <3>3. QED
      BY <1>1, <1>3, <2>3, <3>1, <3>2
  <2>4. QED
    BY <1>1, <2>1, <2>2, <2>3
<1>11. QED
  BY <1>5, <1>8, <1>9, <1>10 DEF n

LEMMA WithoutHas ==
    ASSUME NEW S, NEW s \in Seq(S), NEW i \in 1 .. Len(s)
    PROVE  LET t == Books!Without(s, i)
           IN  /\ t \in Seq(S) /\ Len(t) = Len(s) - 1
               /\ \A k \in 1 .. Len(s) - 1 : t[k] = IF k < i THEN s[k] ELSE s[k + 1]
<1> DEFINE n == Len(s)
           u == SubSeq(s, 1, i - 1)
           w == SubSeq(s, i + 1, n)
<1>1. n \in Nat /\ i \in 1 .. n /\ \A k \in 1 .. n : s[k] \in S
  BY LenProperties
<1> HIDE DEF n
<1>2. u \in Seq(S) /\ Len(u) = i - 1 /\ \A k \in 1 .. i - 1 : u[k] = s[k]
  <2>1. \A k \in 1 .. i - 1 : s[k] \in S
    BY <1>1
  <2>2. /\ u \in Seq(S) /\ Len(u) = (IF 1 <= i - 1 THEN i - 1 - 1 + 1 ELSE 0)
        /\ \A k \in 1 .. i - 1 - 1 + 1 : u[k] = s[1 + k - 1]
    BY <1>1, <2>1, SubSeqProperties
  <2> HIDE DEF u
  <2>3. i - 1 - 1 + 1 = i - 1 /\ \A k \in 1 .. i - 1 : 1 + k - 1 = k
    BY <1>1
  <2>4. QED
    BY <1>1, <2>2, <2>3
<1>3. w \in Seq(S) /\ Len(w) = n - i /\ \A k \in 1 .. n - i : w[k] = s[i + k]
  <2>1. \A k \in i + 1 .. n : s[k] \in S
    BY <1>1
  <2>2. /\ w \in Seq(S) /\ Len(w) = (IF i + 1 <= n THEN n - (i + 1) + 1 ELSE 0)
        /\ \A k \in 1 .. n - (i + 1) + 1 : w[k] = s[i + 1 + k - 1]
    BY <1>1, <2>1, SubSeqProperties
  <2> HIDE DEF w
  <2>3. n - (i + 1) + 1 = n - i /\ \A k \in 1 .. n - i : i + 1 + k - 1 = i + k
    BY <1>1
  <2>4. QED
    BY <1>1, <2>2, <2>3
<1> DEFINE t == u \o w
<1>4. Books!Without(s, i) = t
  BY DEF Books!Without, n
<1> HIDE DEF u, w
<1>5. /\ t \in Seq(S) /\ Len(t) = i - 1 + (n - i)
      /\ \A k \in 1 .. i - 1 + (n - i) : t[k] = IF k <= i - 1 THEN u[k] ELSE w[k - (i - 1)]
  <2>1. /\ t \in Seq(S) /\ Len(t) = Len(u) + Len(w)
        /\ \A k \in 1 .. Len(u) + Len(w) : t[k] = IF k <= Len(u) THEN u[k] ELSE w[k - Len(u)]
    BY <1>2, <1>3, ConcatProperties
  <2> HIDE DEF t
  <2>2. QED
    BY <1>2, <1>3, <2>1
<1> HIDE DEF t
<1>6. i - 1 + (n - i) = n - 1
  BY <1>1
<1>7. ASSUME NEW k \in 1 .. n - 1 PROVE t[k] = IF k < i THEN s[k] ELSE s[k + 1]
  <2>1. CASE k < i
    BY <1>1, <1>2, <1>5, <1>6, <2>1
  <2>2. CASE k >= i
    <3>1. k - (i - 1) \in 1 .. n - i /\ i + (k - (i - 1)) = k + 1
      BY <1>1, <2>2
    <3>2. t[k] = w[k - (i - 1)]
      BY <1>1, <1>5, <1>6, <2>2
    <3>3. QED
      BY <1>1, <1>3, <2>2, <3>1, <3>2
  <2>3. QED
    BY <1>1, <2>1, <2>2
<1>8. QED
  BY <1>4, <1>5, <1>6, <1>7 DEF n

\* The data of sheets.
LEMMA DataHas ==
    ASSUME NEW s \in Seq(Books!SheetRecord)
    PROVE  /\ \A k \in 1 .. Len(s) : s[k].data \subseteq Books!DataIn(s)
           /\ Books!DataIn(s) \subseteq Books!Contents
           /\ DOMAIN s = 1 .. Len(s) /\ Len(s) \in Nat
           /\ \A k \in 1 .. Len(s) : s[k] \in Books!SheetRecord
<1>1. DOMAIN s = 1 .. Len(s) /\ Len(s) \in Nat /\ \A k \in 1 .. Len(s) : s[k] \in Books!SheetRecord
  BY LenProperties
<1>2. QED
  BY <1>1 DEF Books!DataIn, Books!SheetRecord

LEMMA DataInserted ==
    ASSUME NEW s \in Seq(Books!SheetRecord), NEW i \in 0 .. Len(s), NEW x \in Books!SheetRecord
    PROVE  LET t == Books!Insert(s, i, <<x>>)
           IN  /\ t \in Seq(Books!SheetRecord) /\ Len(t) = Len(s) + 1
               /\ Books!DataIn(s) \cup x.data \subseteq Books!DataIn(t)
<1> DEFINE t == Books!Insert(s, i, <<x>>)
           n == Len(s)
<1>1. /\ t \in Seq(Books!SheetRecord) /\ Len(t) = n + 1 /\ n \in Nat
      /\ \A k \in 1 .. n + 1 : t[k] = IF k <= i THEN s[k] ELSE IF k = i + 1 THEN x ELSE s[k - 1]
  BY InsertHas, DataHas
<1> HIDE DEF t, n
<1>2. i \in 0 .. n
  BY DEF n
<1>3. \A k \in 1 .. n + 1 : t[k].data \subseteq Books!DataIn(t)
  BY <1>1, DataHas
<1>4. ASSUME NEW k \in 1 .. n PROVE s[k].data \subseteq Books!DataIn(t)
  <2>1. CASE k <= i
    <3>1. k \in 1 .. n + 1 /\ t[k] = s[k]
      BY <1>1, <1>2, <2>1
    <3>2. QED
      BY <1>3, <3>1
  <2>2. CASE k > i
    <3>1. k + 1 \in 1 .. n + 1 /\ ~(k + 1 <= i) /\ k + 1 # i + 1 /\ k + 1 - 1 = k
      BY <1>1, <1>2, <2>2
    <3>2. t[k + 1] = s[k]
      BY <1>1, <3>1
    <3>3. QED
      BY <1>3, <3>1, <3>2
  <2>3. QED
    BY <1>1, <1>2, <2>1, <2>2
<1>5. x.data \subseteq Books!DataIn(t)
  <2>1. i + 1 \in 1 .. n + 1 /\ ~(i + 1 <= i)
    BY <1>1, <1>2
  <2>2. QED
    BY <1>1, <1>3, <2>1
<1>6. Books!DataIn(s) \subseteq Books!DataIn(t)
  <2>1. DOMAIN s = 1 .. n
    BY DataHas DEF n
  <2>2. Books!DataIn(s) = UNION {s[k].data : k \in 1 .. n}
    BY <2>1 DEF Books!DataIn
  <2>3. QED
    BY <1>4, <2>2
<1>7. QED
  BY <1>1, <1>5, <1>6 DEF t, n

LEMMA DataWithout ==
    ASSUME NEW s \in Seq(Books!SheetRecord), NEW i \in 1 .. Len(s)
    PROVE  LET t == Books!Without(s, i)
           IN  /\ t \in Seq(Books!SheetRecord) /\ Len(t) = Len(s) - 1
               /\ Books!DataIn(s) \subseteq Books!DataIn(t) \cup s[i].data
<1> DEFINE t == Books!Without(s, i)
           n == Len(s)
<1>1. /\ t \in Seq(Books!SheetRecord) /\ Len(t) = n - 1 /\ n \in Nat
      /\ \A k \in 1 .. n - 1 : t[k] = IF k < i THEN s[k] ELSE s[k + 1]
  BY WithoutHas, DataHas
<1> HIDE DEF t, n
<1>2. i \in 1 .. n
  BY DEF n
<1>3. \A k \in 1 .. n - 1 : t[k].data \subseteq Books!DataIn(t)
  BY <1>1, DataHas
<1>4. ASSUME NEW k \in 1 .. n PROVE s[k].data \subseteq Books!DataIn(t) \cup s[i].data
  <2>1. CASE k < i
    <3>1. k \in 1 .. n - 1 /\ t[k] = s[k]
      BY <1>1, <1>2, <2>1
    <3>2. QED
      BY <1>3, <3>1
  <2>2. CASE k > i
    <3>1. k - 1 \in 1 .. n - 1 /\ ~(k - 1 < i) /\ k - 1 + 1 = k
      BY <1>1, <1>2, <2>2
    <3>2. t[k - 1] = s[k]
      BY <1>1, <3>1
    <3>3. QED
      BY <1>3, <3>1, <3>2
  <2>3. CASE k = i
    BY <2>3
  <2>4. QED
    BY <1>1, <1>2, <2>1, <2>2, <2>3
<1>5. Books!DataIn(s) \subseteq Books!DataIn(t) \cup s[i].data
  <2>1. DOMAIN s = 1 .. n
    BY DataHas DEF n
  <2>2. Books!DataIn(s) = UNION {s[k].data : k \in 1 .. n}
    BY <2>1 DEF Books!DataIn
  <2>3. QED
    BY <1>4, <2>2
<1>6. QED
  BY <1>1, <1>5 DEF t, n

-----------------------------------------------------------------------------
(* Names *)

\* Of more names than there are sheets one is not taken, and the loop that tries
\* them comes to the first such.
AreNames(N, h, n)      == \A x \in N : \E i \in 1 .. n : h[i] = x
AreDistinct(g, lo, n)  == \A j, k \in lo .. lo + n : g[j] = g[k] => j = k
HasFree(g, lo, n, N)   ==
    \E k \in lo .. lo + n : g[k] \notin N /\ \A j \in lo .. k - 1 : g[j] \in N

LEMMA NameIsFound ==
    ASSUME NEW n \in Nat, NEW h, NEW N, AreNames(N, h, n),
           NEW lo \in Nat, NEW g, AreDistinct(g, lo, n)
    PROVE  HasFree(g, lo, n, N)
<1> DEFINE K == lo .. lo + n
           T == {k \in K : g[k] \notin N}
<1>1. T # {}
  <2>1. SUFFICES ASSUME \A k \in K : g[k] \in N PROVE FALSE
    OBVIOUS
  <2> DEFINE f == [k \in K |-> CHOOSE i \in 1 .. n : h[i] = g[k]]
  <2>2. \A k \in K : f[k] \in 1 .. n /\ h[f[k]] = g[k]
    BY <2>1 DEF AreNames
  <2>3. f \in [K -> 1 .. n]
    BY <2>2
  <2> HIDE DEF f
  <2>4. IsFiniteSet(K) /\ Cardinality(K) = n + 1 /\ IsFiniteSet(1 .. n) /\ Cardinality(1 .. n) = n
    <3>1. lo \in Int /\ lo + n \in Int /\ ~(lo > lo + n) /\ lo + n - lo + 1 = n + 1
      OBVIOUS
    <3>2. 1 \in Int /\ n \in Int /\ (IF 1 > n THEN 0 ELSE n - 1 + 1) = n
      OBVIOUS
    <3>3. QED
      BY <3>1, <3>2, FS_Interval
  <2>5. PICK j \in K, k \in K : j # k /\ f[j] = f[k]
    <3>1. Cardinality(1 .. n) < Cardinality(K)
      BY <2>4
    <3>2. QED
      BY <2>3, <2>4, <3>1, FS_PigeonHole
  <2>6. g[j] = g[k]
    BY <2>2, <2>5
  <2>7. QED
    BY <2>5, <2>6 DEF AreDistinct
<1>2. PICK k \in T : \A j \in T : k <= j
  <2>1. T \subseteq Nat
    OBVIOUS
  <2>2. QED
    BY <1>1, <2>1, LeastOfNat
<1>3. ASSUME NEW j \in lo .. k - 1 PROVE g[j] \in N
  <2>1. j \in K /\ ~(k <= j)
    BY <1>2
  <2>2. QED
    BY <1>2, <2>1
<1>4. QED
  BY <1>2, <1>3 DEF HasFree

-----------------------------------------------------------------------------
(* Documents *)

LEMMA DocHas ==
    ASSUME NEW doc, Books!IsDoc(doc)
    PROVE  /\ doc = [sheets |-> doc.sheets, active |-> doc.active, url |-> doc.url,
                     saved |-> doc.saved, readonly |-> doc.readonly, locked |-> doc.locked]
           /\ doc.sheets \in Seq(Books!SheetRecord) /\ doc.url \in Books!Urls
           /\ doc.saved \in BOOLEAN /\ doc.readonly \in BOOLEAN /\ doc.locked \in BOOLEAN
           /\ Len(doc.sheets) \in Nat \ {0} /\ doc.active \in 1 .. Len(doc.sheets)
           /\ DOMAIN doc.sheets = 1 .. Len(doc.sheets)
           /\ \A i \in 1 .. Len(doc.sheets) : doc.sheets[i] \in Books!SheetRecord
           /\ Books!DataIn(doc.sheets) \subseteq Books!Contents
<1>1. /\ doc.sheets \in Seq(Books!SheetRecord) /\ doc.active \in DOMAIN doc.sheets
      /\ doc.url \in Books!Urls /\ doc.saved \in BOOLEAN /\ doc.readonly \in BOOLEAN
      /\ doc.locked \in BOOLEAN
      /\ doc = [sheets |-> doc.sheets, active |-> doc.active, url |-> doc.url,
                saved |-> doc.saved, readonly |-> doc.readonly, locked |-> doc.locked]
  BY DEF Books!IsDoc
<1> DEFINE s == doc.sheets
<1>2. /\ Books!DataIn(s) \subseteq Books!Contents /\ DOMAIN s = 1 .. Len(s) /\ Len(s) \in Nat
      /\ \A k \in 1 .. Len(s) : s[k] \in Books!SheetRecord
  BY <1>1, DataHas
<1>3. Len(s) # 0 /\ doc.active \in 1 .. Len(s)
  <2> HIDE DEF s
  <2>1. doc.active \in 1 .. Len(s)
    BY <1>1, <1>2 DEF s
  <2>2. QED
    BY <1>2, <2>1
<1>4. QED
  BY <1>1, <1>2, <1>3

LEMMA DocIsMade ==
    ASSUME NEW s \in Seq(Books!SheetRecord), NEW a \in 1 .. Len(s), NEW url \in Books!Urls,
           NEW saved \in BOOLEAN, NEW readonly \in BOOLEAN, NEW locked \in BOOLEAN
    PROVE  Books!IsDoc([sheets |-> s, active |-> a, url |-> url,
                        saved |-> saved, readonly |-> readonly, locked |-> locked])
<1>1. DOMAIN s = 1 .. Len(s) /\ a \in Nat
  BY DataHas
<1>2. QED
  BY <1>1 DEF Books!IsDoc

LEMMA DocChanged ==
    ASSUME NEW doc, Books!IsDoc(doc), NEW s \in Seq(Books!SheetRecord), NEW a \in 1 .. Len(s)
    PROVE  LET e == [doc EXCEPT !.sheets = s, !.active = a, !.saved = FALSE]
           IN  Books!IsDoc(e) /\ e.sheets = s
<1> DEFINE e == [doc EXCEPT !.sheets = s, !.active = a, !.saved = FALSE]
<1>1. e = [sheets |-> s, active |-> a, url |-> doc.url,
           saved |-> FALSE, readonly |-> doc.readonly, locked |-> doc.locked]
  <2>1. doc = [sheets |-> doc.sheets, active |-> doc.active, url |-> doc.url,
               saved |-> doc.saved, readonly |-> doc.readonly, locked |-> doc.locked]
    BY DocHas
  <2>2. DOMAIN doc = {"sheets", "active", "url", "saved", "readonly", "locked"}
    BY <2>1
  <2>3. /\ DOMAIN e = {"sheets", "active", "url", "saved", "readonly", "locked"}
        /\ e = [k \in DOMAIN e |-> e[k]]
    BY <2>2
  <2>4. /\ e.sheets = s /\ e.active = a /\ e.url = doc.url /\ e.saved = FALSE
        /\ e.readonly = doc.readonly /\ e.locked = doc.locked
    BY <2>2
  <2> HIDE DEF e
  <2>5. QED
    BY <2>3, <2>4
<1> HIDE DEF e
<1>2. Books!IsDoc(e)
  BY <1>1, DocHas, DocIsMade
<1>3. QED
  BY <1>1, <1>2 DEF e

LEMMA DocMarked ==
    ASSUME NEW doc, Books!IsDoc(doc), NEW b \in BOOLEAN, NEW url \in Books!Urls,
           NEW a \in 1 .. Len(doc.sheets)
    PROVE  /\ Books!IsDoc([doc EXCEPT !.saved = b]) /\ [doc EXCEPT !.saved = b].sheets = doc.sheets
           /\ Books!IsDoc([doc EXCEPT !.locked = b]) /\ [doc EXCEPT !.locked = b].sheets = doc.sheets
           /\ Books!IsDoc([doc EXCEPT !.active = a]) /\ [doc EXCEPT !.active = a].sheets = doc.sheets
           /\ Books!IsDoc([doc EXCEPT !.readonly = b])
           /\ [doc EXCEPT !.readonly = b].sheets = doc.sheets
           /\ Books!IsDoc([doc EXCEPT !.url = url, !.saved = TRUE])
           /\ [doc EXCEPT !.url = url, !.saved = TRUE].sheets = doc.sheets
<1>1. /\ doc = [sheets |-> doc.sheets, active |-> doc.active, url |-> doc.url,
                saved |-> doc.saved, readonly |-> doc.readonly, locked |-> doc.locked]
      /\ doc.sheets \in Seq(Books!SheetRecord) /\ doc.url \in Books!Urls
      /\ doc.saved \in BOOLEAN /\ doc.readonly \in BOOLEAN /\ doc.locked \in BOOLEAN
      /\ doc.active \in 1 .. Len(doc.sheets)
  BY DocHas
<1>2. /\ [doc EXCEPT !.saved = b] =
           [sheets |-> doc.sheets, active |-> doc.active, url |-> doc.url,
            saved |-> b, readonly |-> doc.readonly, locked |-> doc.locked]
      /\ [doc EXCEPT !.locked = b] =
           [sheets |-> doc.sheets, active |-> doc.active, url |-> doc.url,
            saved |-> doc.saved, readonly |-> doc.readonly, locked |-> b]
      /\ [doc EXCEPT !.active = a] =
           [sheets |-> doc.sheets, active |-> a, url |-> doc.url,
            saved |-> doc.saved, readonly |-> doc.readonly, locked |-> doc.locked]
      /\ [doc EXCEPT !.readonly = b] =
           [sheets |-> doc.sheets, active |-> doc.active, url |-> doc.url,
            saved |-> doc.saved, readonly |-> b, locked |-> doc.locked]
  BY <1>1
<1>3. [doc EXCEPT !.url = url, !.saved = TRUE] =
           [sheets |-> doc.sheets, active |-> doc.active, url |-> url,
            saved |-> TRUE, readonly |-> doc.readonly, locked |-> doc.locked]
  <2> DEFINE e == [doc EXCEPT !.url = url, !.saved = TRUE]
  <2>2. DOMAIN doc = {"sheets", "active", "url", "saved", "readonly", "locked"}
    BY <1>1
  <2>3. /\ DOMAIN e = {"sheets", "active", "url", "saved", "readonly", "locked"}
        /\ e = [k \in DOMAIN e |-> e[k]]
    BY <2>2
  <2>4. /\ e.sheets = doc.sheets /\ e.active = doc.active /\ e.url = url /\ e.saved = TRUE
        /\ e.readonly = doc.readonly /\ e.locked = doc.locked
    BY <2>2
  <2> HIDE DEF e
  <2>5. e = [sheets |-> doc.sheets, active |-> doc.active, url |-> url,
             saved |-> TRUE, readonly |-> doc.readonly, locked |-> doc.locked]
    BY <2>3, <2>4
  <2>6. QED
    BY <2>5 DEF e
<1> DEFINE Of(active, url2, saved, readonly, locked) ==
             [sheets |-> doc.sheets, active |-> active, url |-> url2,
              saved |-> saved, readonly |-> readonly, locked |-> locked]
<1>4. /\ Books!IsDoc(Of(doc.active, doc.url, b, doc.readonly, doc.locked))
      /\ Books!IsDoc(Of(doc.active, doc.url, doc.saved, doc.readonly, b))
      /\ Books!IsDoc(Of(a, doc.url, doc.saved, doc.readonly, doc.locked))
      /\ Books!IsDoc(Of(doc.active, doc.url, doc.saved, b, doc.locked))
      /\ Books!IsDoc(Of(doc.active, url, TRUE, doc.readonly, doc.locked))
  BY <1>1, DocIsMade
<1>5. Books!IsDoc([doc EXCEPT !.saved = b]) /\ [doc EXCEPT !.saved = b].sheets = doc.sheets
  BY <1>2, <1>4
<1>6. Books!IsDoc([doc EXCEPT !.locked = b]) /\ [doc EXCEPT !.locked = b].sheets = doc.sheets
  BY <1>2, <1>4
<1>7. Books!IsDoc([doc EXCEPT !.active = a]) /\ [doc EXCEPT !.active = a].sheets = doc.sheets
  BY <1>2, <1>4
<1>8. /\ Books!IsDoc([doc EXCEPT !.readonly = b])
      /\ [doc EXCEPT !.readonly = b].sheets = doc.sheets
  BY <1>2, <1>4
<1>9. /\ Books!IsDoc([doc EXCEPT !.url = url, !.saved = TRUE])
      /\ [doc EXCEPT !.url = url, !.saved = TRUE].sheets = doc.sheets
  BY <1>3, <1>4
<1>10. QED
  BY <1>5, <1>6, <1>7, <1>8, <1>9

LEMMA NewDocIs ==
    ASSUME NEW s \in Seq(Books!SheetRecord), Len(s) \in Nat \ {0}, NEW url \in Books!Urls
    PROVE  LET doc == Books!Doc(s, url) IN Books!IsDoc(doc) /\ doc.sheets = s
<1>1. 1 \in 1 .. Len(s)
  OBVIOUS
<1>2. QED
  BY <1>1, DocIsMade DEF Books!Doc

LEMMA SheetIs ==
    ASSUME NEW name \in Seq(Nat), NEW data \in SUBSET Books!Contents
    PROVE  /\ Books!Sheet(name, data) \in Books!SheetRecord
           /\ Books!Sheet(name, data).data = data
BY DEF Books!Sheet, Books!SheetRecord

LEMMA PastedDocIs ==
    ASSUME NEW name \in Seq(Nat), NEW data \in SUBSET Books!Contents
    PROVE  LET doc == Books!PastedDoc(name, data)
           IN  Books!IsDoc(doc) /\ data \subseteq Books!DataIn(doc.sheets)
<1> DEFINE x == Books!Sheet(name, data)
           s == <<x>>
           e == Books!Doc(s, "")
<1>1. x \in Books!SheetRecord /\ x.data = data
  BY SheetIs
<1> HIDE DEF x
<1>2. s \in Seq(Books!SheetRecord) /\ Len(s) = 1 /\ s[1] = x
  BY <1>1
<1> HIDE DEF s
<1>3. Books!IsDoc(e) /\ e.sheets = s
  <2>1. "" \in Books!Urls /\ Len(s) \in Nat \ {0}
    BY <1>2 DEF Books!Urls
  <2>2. QED
    BY <1>2, <2>1, NewDocIs
<1>4. Books!IsDoc([e EXCEPT !.saved = FALSE]) /\ [e EXCEPT !.saved = FALSE].sheets = s
  <2> HIDE DEF e
  <2>1. Len(e.sheets) = 1
    BY <1>2, <1>3
  <2>2. 1 \in 1 .. Len(e.sheets)
    BY <2>1
  <2>3. "" \in Books!Urls
    BY DEF Books!Urls
  <2>4. QED
    BY <1>3, <2>2, <2>3, DocMarked
<1>5. data \subseteq Books!DataIn(s)
  BY <1>1, <1>2, DataHas
<1>6. Books!PastedDoc(name, data) = [e EXCEPT !.saved = FALSE]
  BY DEF Books!PastedDoc, s, x
<1>7. QED
  BY <1>4, <1>5, <1>6

-----------------------------------------------------------------------------
(* Documents that are written, opened and closed *)

LEMMA BooksAre ==
    ASSUME IInv
    PROVE  /\ Books!DocsOK /\ Books!StoresOK /\ NothingIsLost
           /\ \A d \in Books!Open : Books!IsDoc(docs[d])
           /\ docs = [d \in Books!Open |-> docs[d]]
           /\ files \in [Books!Urls \ {""} -> SUBSET Books!Contents]
           /\ DOMAIN files = Books!Urls \ {""}
           /\ clip \in SUBSET Books!Contents /\ tossed \in SUBSET Books!Contents
           /\ astray \in SUBSET Books!Contents
BY DEF IInv, Books!BooksOK, Books!DocsOK, Books!StoresOK

\* What is in open documents or files, or is accounted for, is all.
LEMMA NothingGone ==
    ASSUME IInv, Books!DocsOK', Books!StoresOK', tossed \subseteq tossed', astray \subseteq astray',
           \A d \in Books!Open : Books!DataOf(d) \subseteq Books!Kept' \cup tossed' \cup astray',
           \A f \in DOMAIN files : files[f] \subseteq Books!Kept' \cup tossed' \cup astray'
    PROVE  IInv'
<1>1. Books!Kept \subseteq Books!Kept' \cup tossed' \cup astray'
  <2> DEFINE X == Books!Kept' \cup tossed' \cup astray'
  <2> HIDE DEF X
  <2>1. /\ \A d \in Books!Open : Books!DataOf(d) \subseteq X
        /\ \A f \in DOMAIN files : files[f] \subseteq X
    BY DEF X
  <2>2. Books!Kept \subseteq X
    BY <2>1 DEF Books!Kept
  <2>3. QED
    BY <2>2 DEF X
<1>2. Books!Contents \subseteq Books!Kept \cup tossed \cup astray
  BY DEF IInv, NothingIsLost
<1>3. Books!Contents \subseteq Books!Kept' \cup tossed' \cup astray'
  BY <1>1, <1>2
<1>4. NothingIsLost'
  BY <1>3 DEF NothingIsLost
<1>5. QED
  BY <1>4 DEF IInv, Books!BooksOK

LEMMA KeptHas ==
    /\ \A d \in Books!Open' : Books!DataIn(docs'[d].sheets) \subseteq Books!Kept'
    /\ \A f \in DOMAIN files' : files'[f] \subseteq Books!Kept'
BY DEF Books!Kept, Books!DataOf, Books!Open

LEMMA NothingChanged == ASSUME IInv, UNCHANGED bookVars PROVE IInv'
<1>1. UNCHANGED <<docs, this, front, clip, files, delim, tossed, astray>>
  BY DEF bookVars
<1>2. Books!DocsOK' /\ Books!StoresOK'
  BY <1>1, BooksAre DEF Books!DocsOK, Books!StoresOK, Books!Open
<1>3. NothingIsLost'
  <2>1. Books!Kept' = Books!Kept
    BY <1>1 DEF Books!Kept, Books!Open, Books!DataOf
  <2>2. QED
    BY <1>1, <2>1, BooksAre DEF NothingIsLost
<1>4. QED
  BY <1>2, <1>3 DEF IInv, Books!BooksOK

LEMMA PutKeeps ==
    ASSUME IInv, NEW d \in Books!Open, NEW doc, Books!IsDoc(doc), Books!Put(d, doc),
           front' \in Books!Open, Books!StoresOK', tossed \subseteq tossed', astray \subseteq astray',
           Books!DataOf(d) \subseteq Books!DataIn(doc.sheets) \cup tossed' \cup astray',
           \A f \in DOMAIN files : files[f] \subseteq files'[f] \cup tossed' \cup astray'
    PROVE  IInv'
<1>1. docs' = [docs EXCEPT ![d] = doc] /\ this' = this
  BY DEF Books!Put
<1>2. /\ docs = [k \in Books!Open |-> docs[k]] /\ \A k \in Books!Open : Books!IsDoc(docs[k])
      /\ Books!Open \subseteq 1 .. MaxDocs /\ this \in {1, 0}
  BY BooksAre DEF Books!DocsOK, Books!NoDoc
<1>3. /\ Books!Open' = Books!Open /\ docs' = [k \in Books!Open |-> docs'[k]] /\ docs'[d] = doc
      /\ \A k \in Books!Open : k # d => docs'[k] = docs[k]
  BY <1>1, <1>2 DEF Books!Open
<1>4. Books!DocsOK'
  BY <1>1, <1>2, <1>3 DEF Books!DocsOK, Books!NoDoc
<1>5. ASSUME NEW k \in Books!Open
      PROVE  Books!DataOf(k) \subseteq Books!Kept' \cup tossed' \cup astray'
  <2>1. Books!DataIn(docs'[k].sheets) \subseteq Books!Kept'
    BY <1>3, KeptHas
  <2>2. Books!DataOf(k) \subseteq Books!DataIn(docs'[k].sheets) \cup tossed' \cup astray'
    <3>1. CASE k = d
      BY <1>3, <3>1
    <3>2. CASE k # d
      BY <1>3, <3>2 DEF Books!DataOf
    <3>3. QED
      BY <3>1, <3>2
  <2>3. QED
    BY <2>1, <2>2
<1>6. ASSUME NEW f \in DOMAIN files
      PROVE  files[f] \subseteq Books!Kept' \cup tossed' \cup astray'
  <2>1. f \in DOMAIN files'
    BY BooksAre DEF Books!StoresOK
  <2>2. files'[f] \subseteq Books!Kept'
    BY <2>1, KeptHas
  <2>3. QED
    BY <2>2
<1>7. QED
  BY <1>4, <1>5, <1>6, NothingGone

\* A document more; others may have changed, but not what is in them.
LEMMA AddedKeeps ==
    ASSUME IInv, NEW open, open = [k \in Books!Open |-> open[k]],
           \A k \in Books!Open : Books!IsDoc(open[k]),
           NEW n \in (1 .. MaxDocs) \ Books!Open, NEW doc, Books!IsDoc(doc),
           docs' = Books!Added(open, n, doc), front' = n, UNCHANGED <<this, files>>,
           Books!StoresOK', tossed \subseteq tossed', astray \subseteq astray',
           \A k \in Books!Open : Books!DataOf(k) \subseteq
             Books!DataIn(open[k].sheets) \cup Books!DataIn(doc.sheets) \cup tossed' \cup astray'
    PROVE  IInv'
<1>1. docs' = [k \in Books!Open \cup {n} |-> IF k = n THEN doc ELSE open[k]]
  BY DEF Books!Added
<1>2. Books!Open \subseteq 1 .. MaxDocs /\ this \in {1, 0}
  BY BooksAre DEF Books!DocsOK, Books!NoDoc
<1>3. /\ Books!Open' = Books!Open \cup {n} /\ docs' = [k \in Books!Open' |-> docs'[k]]
      /\ docs'[n] = doc /\ \A k \in Books!Open : docs'[k] = open[k]
  BY <1>1 DEF Books!Open
<1>4. Books!DocsOK'
  BY <1>2, <1>3 DEF Books!DocsOK, Books!NoDoc
<1>5. ASSUME NEW k \in Books!Open
      PROVE  Books!DataOf(k) \subseteq Books!Kept' \cup tossed' \cup astray'
  <2>1. /\ Books!DataIn(docs'[k].sheets) \subseteq Books!Kept'
        /\ Books!DataIn(docs'[n].sheets) \subseteq Books!Kept'
    BY <1>3, KeptHas
  <2>2. QED
    BY <1>3, <2>1
<1>6. ASSUME NEW f \in DOMAIN files
      PROVE  files[f] \subseteq Books!Kept' \cup tossed' \cup astray'
  BY KeptHas
<1>7. QED
  BY <1>4, <1>5, <1>6, NothingGone

LEMMA NewDocKeeps ==
    ASSUME IInv, NEW doc, Books!IsDoc(doc), Books!NewDoc(doc), UNCHANGED <<clip, files, tossed, astray>>,
           delim' \in {"tab", "comma", "space", "semicolon", "bar"}
    PROVE  IInv'
<1>1. PICK n \in (1 .. MaxDocs) \ Books!Open :
         docs' = Books!Added(docs, n, doc) /\ front' = n /\ UNCHANGED this
  BY DEF Books!NewDoc
<1>2. Books!StoresOK'
  BY BooksAre DEF Books!StoresOK
<1>3. \A k \in Books!Open : Books!DataOf(k) \subseteq Books!DataIn(docs[k].sheets)
  BY DEF Books!DataOf
<1>4. QED
  BY <1>1, <1>2, <1>3, BooksAre, AddedKeeps

LEMMA DropKeeps ==
    ASSUME IInv, NEW d \in Books!Open, Books!Drop(d), Books!StoresOK',
           tossed \subseteq tossed', astray \subseteq astray',
           NEW f \in DOMAIN files,
           Books!DataOf(d) \subseteq files'[f] \cup tossed' \cup astray',
           \A g \in DOMAIN files : files[g] \subseteq files'[g] \cup tossed' \cup astray'
    PROVE  IInv'
<1>1. /\ docs' = [k \in Books!Open \ {d} |-> docs[k]] /\ this' = this
      /\ front' \in IF front # d THEN {front}
                    ELSE IF Books!Open = {d} THEN {0} ELSE Books!Open \ {d}
  BY DEF Books!Drop, Books!NoDoc
<1>2. /\ \A k \in Books!Open : Books!IsDoc(docs[k])
      /\ Books!Open \subseteq 1 .. MaxDocs /\ this \in {1, 0}
      /\ front \in Books!Open
  BY BooksAre DEF Books!DocsOK, Books!NoDoc
<1>3. /\ Books!Open' = Books!Open \ {d} /\ docs' = [k \in Books!Open' |-> docs'[k]]
      /\ \A k \in Books!Open' : docs'[k] = docs[k]
  BY <1>1 DEF Books!Open
<1>4. IF Books!Open' = {} THEN front' = 0 ELSE front' \in Books!Open'
  BY <1>1, <1>2, <1>3
<1>5. Books!DocsOK'
  BY <1>1, <1>2, <1>3, <1>4 DEF Books!DocsOK, Books!NoDoc
<1>6. ASSUME NEW g \in DOMAIN files PROVE files'[g] \subseteq Books!Kept'
  <2>1. g \in DOMAIN files'
    BY BooksAre DEF Books!StoresOK
  <2>2. QED
    BY <2>1, KeptHas
<1>7. ASSUME NEW k \in Books!Open
      PROVE  Books!DataOf(k) \subseteq Books!Kept' \cup tossed' \cup astray'
  <2>1. CASE k = d
    BY <1>6, <2>1
  <2>2. CASE k # d
    <3>1. Books!DataIn(docs'[k].sheets) \subseteq Books!Kept'
      BY <1>3, <2>2, KeptHas
    <3>2. QED
      BY <1>3, <2>2, <3>1 DEF Books!DataOf
  <2>3. QED
    BY <2>1, <2>2
<1>8. \A g \in DOMAIN files : files[g] \subseteq Books!Kept' \cup tossed' \cup astray'
  BY <1>6
<1>9. QED
  BY <1>5, <1>7, <1>8, NothingGone

\* The documents stay as they are, but perhaps for the one in front; files change.
LEMMA StayKeeps ==
    ASSUME IInv, UNCHANGED <<docs, this>>, front' = front \/ front' \in Books!Open,
           Books!StoresOK', tossed \subseteq tossed', astray \subseteq astray',
           \A f \in DOMAIN files : files[f] \subseteq files'[f] \cup tossed' \cup astray'
    PROVE  IInv'
<1>1. Books!DocsOK'
  BY BooksAre DEF Books!DocsOK, Books!Open
<1>2. ASSUME NEW k \in Books!Open
      PROVE  Books!DataOf(k) \subseteq Books!Kept' \cup tossed' \cup astray'
  <2>1. k \in Books!Open' /\ docs'[k] = docs[k]
    BY DEF Books!Open
  <2>2. Books!DataIn(docs'[k].sheets) \subseteq Books!Kept'
    BY <2>1, KeptHas
  <2>3. QED
    BY <2>1, <2>2 DEF Books!DataOf
<1>3. ASSUME NEW f \in DOMAIN files
      PROVE  files[f] \subseteq Books!Kept' \cup tossed' \cup astray'
  <2>1. f \in DOMAIN files'
    BY BooksAre DEF Books!StoresOK
  <2>2. files'[f] \subseteq Books!Kept'
    BY <2>1, KeptHas
  <2>3. QED
    BY <2>2
<1>4. QED
  BY <1>1, <1>2, <1>3, NothingGone

\* An open document.
LEMMA OpenHas ==
    ASSUME IInv, NEW d \in Books!Open
    PROVE  /\ Books!IsDoc(docs[d])
           /\ Books!DataOf(d) = Books!DataIn(docs[d].sheets)
           /\ Books!DataOf(d) \in SUBSET Books!Contents
           /\ docs[d].sheets \in Seq(Books!SheetRecord) /\ docs[d].url \in Books!Urls
           /\ Len(docs[d].sheets) \in Nat \ {0}
           /\ docs[d].active \in 1 .. Len(docs[d].sheets)
           /\ DOMAIN docs[d].sheets = 1 .. Len(docs[d].sheets)
           /\ \A i \in 1 .. Len(docs[d].sheets) :
                /\ docs[d].sheets[i] \in Books!SheetRecord
                /\ docs[d].sheets[i].name \in Seq(Nat)
                /\ docs[d].sheets[i].data \in SUBSET Books!Contents
                /\ docs[d].sheets[i].data \subseteq Books!DataOf(d)
<1>1. Books!IsDoc(docs[d]) /\ Books!DataOf(d) = Books!DataIn(docs[d].sheets)
  BY BooksAre DEF Books!DataOf
<1>2. /\ docs[d].sheets \in Seq(Books!SheetRecord) /\ docs[d].url \in Books!Urls
      /\ Len(docs[d].sheets) \in Nat \ {0}
      /\ docs[d].active \in 1 .. Len(docs[d].sheets)
      /\ DOMAIN docs[d].sheets = 1 .. Len(docs[d].sheets)
      /\ \A i \in 1 .. Len(docs[d].sheets) : docs[d].sheets[i] \in Books!SheetRecord
      /\ Books!DataIn(docs[d].sheets) \subseteq Books!Contents
  BY <1>1, DocHas
<1>3. ASSUME NEW i \in 1 .. Len(docs[d].sheets)
      PROVE  /\ docs[d].sheets[i].name \in Seq(Nat)
             /\ docs[d].sheets[i].data \in SUBSET Books!Contents
             /\ docs[d].sheets[i].data \subseteq Books!DataOf(d)
  <2>1. docs[d].sheets[i] \in Books!SheetRecord
    BY <1>2
  <2>2. docs[d].sheets[i].data \subseteq Books!DataIn(docs[d].sheets)
    BY <1>2, DataHas
  <2>3. QED
    BY <1>1, <2>1, <2>2 DEF Books!SheetRecord
<1>4. QED
  BY <1>1, <1>2, <1>3

\* While a macro goes on, both the current document and the one in front are open.
LEMMA GoesOn ==
    ASSUME IInv, Books!Goes
    PROVE  Books!Current \in Books!Open /\ front \in Books!Open
<1>1. Books!Open # {} /\ (this = Books!NoDoc \/ this \in Books!Open)
  BY DEF Books!Goes
<1>2. front \in Books!Open
  BY <1>1, BooksAre DEF Books!DocsOK
<1>3. QED
  BY <1>1, <1>2 DEF Books!Current

LEMMA RefusedKeeps == ASSUME IInv, Books!Refused PROVE IInv'
<1>1. UNCHANGED bookVars
  BY DEF Books!Refused, Books!bookVars, bookVars
<1>2. QED
  BY <1>1, NothingChanged

LEMMA EscapesKeeps == ASSUME IInv, Books!Escapes PROVE IInv'
<1>1. CASE Books!Refused
  BY <1>1, RefusedKeeps
<1>2. CASE /\ docs' = [d \in {} |-> {}] /\ front' = Books!NoDoc
           /\ astray' = astray \cup (UNION {Books!DataOf(d) : d \in Books!Open})
           /\ UNCHANGED <<this, clip, files, delim, tossed>>
  <2>1. Books!Open' = {} /\ docs' = [d \in Books!Open' |-> docs'[d]]
    BY <1>2 DEF Books!Open
  <2>2. Books!DocsOK'
    BY <1>2, <2>1, BooksAre DEF Books!DocsOK
  <2>3. \A d \in Books!Open : Books!DataOf(d) \subseteq astray' /\ Books!DataOf(d) \in SUBSET Books!Contents
    BY <1>2, OpenHas
  <2>4. Books!StoresOK'
    <3>1. (UNION {Books!DataOf(d) : d \in Books!Open}) \subseteq Books!Contents
      BY <2>3
    <3>2. QED
      BY <1>2, <3>1, BooksAre DEF Books!StoresOK
  <2>5. ASSUME NEW f \in DOMAIN files
        PROVE  files[f] \subseteq Books!Kept' \cup tossed' \cup astray'
    BY <1>2, KeptHas
  <2>6. QED
    BY <1>2, <2>2, <2>3, <2>4, <2>5, NothingGone
<1>3. QED
  BY <1>1, <1>2 DEF Books!Escapes

-----------------------------------------------------------------------------
(* Workbooks *)

LEMMA AddBookKeeps == ASSUME IInv, Books!AddBook PROVE IInv'
<1> DEFINE x == Books!Sheet(<<1>>, {})
           y == Books!Sheet(<<2>>, {})
           s == <<x, y>>
<1>1. CASE Books!NewDoc(Books!Doc(s, "")) /\ UNCHANGED <<clip, files, delim, tossed, astray>>
  <2>1. x \in Books!SheetRecord /\ y \in Books!SheetRecord
    <3>1. <<1>> \in Seq(Nat) /\ <<2>> \in Seq(Nat) /\ {} \in SUBSET Books!Contents
      OBVIOUS
    <3>2. QED
      BY <3>1, SheetIs
  <2> HIDE DEF x, y
  <2>2. s \in Seq(Books!SheetRecord) /\ Len(s) \in Nat \ {0} /\ "" \in Books!Urls
    BY <2>1 DEF Books!Urls
  <2> HIDE DEF s
  <2>3. Books!IsDoc(Books!Doc(s, ""))
    BY <2>2, NewDocIs
  <2>4. delim' \in {"tab", "comma", "space", "semicolon", "bar"}
    BY <1>1, BooksAre DEF Books!StoresOK
  <2>5. QED
    BY <1>1, <2>3, <2>4, NewDocKeeps
<1>2. CASE Books!Escapes
  BY <1>2, EscapesKeeps
<1>3. QED
  BY <1>1, <1>2 DEF Books!AddBook

LEMMA LoadedKeeps ==
    ASSUME IInv, NEW url \in {"two", "text"}, NEW r \in BOOLEAN, Books!Loaded(url, r),
           UNCHANGED <<clip, files, tossed, astray>>,
           delim' \in {"tab", "comma", "space", "semicolon", "bar"}
    PROVE  IInv'
<1>1. Books!StoresOK'
  BY BooksAre DEF Books!StoresOK
<1>2. CASE (\E d \in Books!Open : front' = d) /\ UNCHANGED <<docs, this>>
  BY <1>1, <1>2, StayKeeps
<1> DEFINE x == Books!Sheet(<<1>>, files[url])
           s == <<x>>
           e == Books!Doc(s, url)
<1>3. CASE Books!NewDoc([e EXCEPT !.readonly = r])
  <2>1. url \in Books!Urls /\ url \in Books!Urls \ {""}
    BY DEF Books!Urls
  <2>2. x \in Books!SheetRecord
    <3>1. files[url] \in SUBSET Books!Contents
      BY <2>1, BooksAre
    <3>2. <<1>> \in Seq(Nat)
      OBVIOUS
    <3>3. QED
      BY <3>1, <3>2, SheetIs
  <2> HIDE DEF x
  <2>3. s \in Seq(Books!SheetRecord) /\ Len(s) \in Nat \ {0} /\ Len(s) = 1
    BY <2>2
  <2> HIDE DEF s
  <2>4. Books!IsDoc(e) /\ e.sheets = s
    BY <2>1, <2>3, NewDocIs
  <2> HIDE DEF e
  <2>5. Books!IsDoc([e EXCEPT !.readonly = r])
    <3>1. Len(e.sheets) = 1
      BY <2>3, <2>4
    <3>2. 1 \in 1 .. Len(e.sheets)
      BY <3>1
    <3>3. QED
      BY <2>1, <2>4, <3>2, DocMarked
  <2>6. QED
    BY <1>3, <2>5, NewDocKeeps DEF e
<1>4. QED
  BY <1>2, <1>3 DEF Books!Loaded

LEMMA DelimiterIs ==
    ASSUME NEW format \in {Books!NoFormat, 1, 5, 6, 7}, NEW own \in Books!Owns,
           Books!DelimiterOk(format, own),
           delim \in {"tab", "comma", "space", "semicolon", "bar"}
    PROVE  Books!DelimiterOf(format, own) \in {"tab", "comma", "space", "semicolon", "bar"}
<1>1. CASE format = 1
  <2>1. format \in 1 .. 4 /\ Books!Delimiters[format] = "tab"
    BY <1>1 DEF Books!Delimiters
  <2>2. Books!DelimiterOf(format, own) = Books!Delimiters[format]
    BY <2>1 DEF Books!DelimiterOf
  <2>3. QED
    BY <2>1, <2>2
<1>2. CASE format = 6
  <2>1. own = "bar"
    BY <1>2, Zenon DEF Books!DelimiterOk, Books!Owns
  <2>2. Books!DelimiterOf(format, own) = own
    BY <1>2 DEF Books!DelimiterOf
  <2>3. QED
    BY <2>1, <2>2
<1>3. CASE format \notin {1, 6}
  <2>1. format \notin 1 .. 4 /\ format # 6
    BY <1>3 DEF Books!NoFormat
  <2>2. Books!DelimiterOf(format, own) = delim
    BY <2>1 DEF Books!DelimiterOf
  <2>3. QED
    BY <2>2
<1>4. QED
  BY <1>1, <1>2, <1>3

LEMMA OpenTextKeeps ==
    ASSUME IInv, NEW format \in {Books!NoFormat, 1, 5, 6, 7}, NEW own \in Books!Owns,
           NEW r \in BOOLEAN, Books!OpenText(format, own, r)
    PROVE  IInv'
<1>1. CASE Books!Refused
  BY <1>1, RefusedKeeps
<1>2. CASE /\ Books!DelimiterOk(format, own) /\ delim' = Books!DelimiterOf(format, own)
           /\ Books!Loaded("text", r) \/ UNCHANGED <<docs, this, front>>
           /\ UNCHANGED <<clip, files, tossed, astray>>
  <2>1. delim' \in {"tab", "comma", "space", "semicolon", "bar"}
    <3>1. delim \in {"tab", "comma", "space", "semicolon", "bar"}
      BY BooksAre DEF Books!StoresOK
    <3>2. QED
      BY <1>2, <3>1, DelimiterIs
  <2>2. CASE Books!Loaded("text", r)
    BY <1>2, <2>1, <2>2, LoadedKeeps
  <2>3. CASE UNCHANGED <<docs, this, front>>
    <3>1. Books!StoresOK'
      BY <1>2, <2>1, BooksAre DEF Books!StoresOK
    <3>2. QED
      BY <1>2, <2>3, <3>1, StayKeeps
  <2>4. QED
    BY <1>2, <2>2, <2>3
<1>3. QED
  BY <1>1, <1>2 DEF Books!OpenText

LEMMA OpenBookKeeps ==
    ASSUME IInv, NEW r \in BOOLEAN, Books!OpenBook("two", r)
    PROVE  IInv'
<1>1. Books!Loaded("two", r) /\ UNCHANGED <<clip, files, delim, tossed, astray>>
  BY DEF Books!OpenBook
<1>2. delim' \in {"tab", "comma", "space", "semicolon", "bar"}
  BY <1>1, BooksAre DEF Books!StoresOK
<1>3. QED
  BY <1>1, <1>2, LoadedKeeps

\* The last of some documents is one of them.
LEMMA LastOf ==
    ASSUME IInv, NEW D, D \subseteq Books!Open, D # {}
    PROVE  (CHOOSE d \in D : \A k \in D : k <= d) \in D
<1>1. D \subseteq 1 .. MaxDocs /\ MaxDocs \in Nat
  BY BooksAre, BooksAssumption DEF Books!DocsOK
<1> DEFINE T == {MaxDocs - d : d \in D}
<1>2. T \subseteq Nat /\ T # {}
  BY <1>1
<1>3. PICK t \in T : \A u \in T : t <= u
  BY <1>2, LeastOfNat
<1>4. PICK d \in D : t = MaxDocs - d
  BY <1>3
<1>5. \A k \in D : k <= d
  <2>1. ASSUME NEW k \in D PROVE k <= d
    <3>1. MaxDocs - d <= MaxDocs - k
      BY <1>3, <1>4
    <3>2. d \in Int /\ k \in Int /\ MaxDocs \in Int
      BY <1>1
    <3>3. QED
      BY <3>1, <3>2
  <2>2. QED
    BY <2>1
<1>6. QED
  BY <1>5

LEMMA ActivateBookKeeps ==
    ASSUME IInv, NEW url, Books!ActivateBook(url)
    PROVE  IInv'
<1>1. CASE /\ Books!Named(url) # {}
           /\ front' = CHOOSE d \in Books!Named(url) : \A k \in Books!Named(url) : k <= d
           /\ UNCHANGED <<docs, this, clip, files, delim, tossed, astray>>
  <2>1. Books!Named(url) \subseteq Books!Open
    BY DEF Books!Named
  <2>2. front' \in Books!Named(url)
    <3> DEFINE D == Books!Named(url)
    <3> HIDE DEF D
    <3>1. D # {} /\ D \subseteq Books!Open /\ front' = CHOOSE d \in D : \A k \in D : k <= d
      BY <1>1, <2>1 DEF D
    <3>2. front' \in D
      BY <3>1, LastOf
    <3>3. QED
      BY <3>2 DEF D
  <2>3. Books!StoresOK'
    BY <1>1, BooksAre DEF Books!StoresOK
  <2>4. QED
    BY <1>1, <2>1, <2>2, <2>3, StayKeeps
<1>2. CASE Books!Escapes
  BY <1>2, EscapesKeeps
<1>3. QED
  BY <1>1, <1>2 DEF Books!ActivateBook

LEMMA WrittenIs ==
    ASSUME IInv, NEW d \in Books!Open
    PROVE  Books!Written(d) \in SUBSET Books!Contents
<1>1. docs[d].sheets[docs[d].active].data \in SUBSET Books!Contents
  BY OpenHas
<1>2. QED
  BY <1>1, OpenHas DEF Books!Written

LEMMA UrlIsFile ==
    ASSUME IInv, NEW f \in Books!Urls, f # ""
    PROVE  f \in DOMAIN files /\ files[f] \in SUBSET Books!Contents
BY BooksAre

LEMMA FileWritten ==
    ASSUME IInv, NEW f \in DOMAIN files, NEW data \in SUBSET Books!Contents,
           files' = [files EXCEPT ![f] = data]
    PROVE  /\ files' \in [Books!Urls \ {""} -> SUBSET Books!Contents]
           /\ files'[f] = data /\ \A g \in DOMAIN files : g # f => files'[g] = files[g]
<1> DEFINE F == Books!Urls \ {""}
<1>1. files \in [F -> SUBSET Books!Contents] /\ f \in F /\ DOMAIN files = F
  BY BooksAre
<1> HIDE DEF F
<1>2. files' \in [F -> SUBSET Books!Contents]
  BY <1>1
<1>3. files'[f] = data /\ \A g \in DOMAIN files : g # f => files'[g] = files[g]
  BY <1>1
<1>4. QED
  BY <1>2, <1>3 DEF F

\* An open document that is dropped for good.
LEMMA TossedKeeps ==
    ASSUME IInv, NEW d \in Books!Open, Books!Drop(d), Books!Toss(Books!DataOf(d)),
           UNCHANGED <<clip, files, delim>>
    PROVE  IInv'
<1>1. tossed' = tossed \cup Books!DataOf(d) /\ astray' = astray
  BY DEF Books!Toss
<1>2. Books!StoresOK'
  BY <1>1, OpenHas, BooksAre DEF Books!StoresOK
<1>3. PICK f : f \in DOMAIN files
  <2>1. "one" \in Books!Urls /\ "one" # ""
    BY DEF Books!Urls
  <2>2. QED
    BY <2>1, UrlIsFile
<1>4. QED
  BY <1>1, <1>2, <1>3, DropKeeps

\* A document that is changed, but for what is in it.
LEMMA MarkedKeeps ==
    ASSUME IInv, Books!Goes, NEW d \in Books!Open, NEW doc, Books!IsDoc(doc),
           doc.sheets = docs[d].sheets, Books!Put(d, doc),
           UNCHANGED <<front, clip, files, delim, tossed, astray>>
    PROVE  IInv'
<1>1. Books!StoresOK'
  BY BooksAre DEF Books!StoresOK
<1>2. Books!DataOf(d) \subseteq Books!DataIn(doc.sheets)
  BY OpenHas
<1>3. front' \in Books!Open
  BY GoesOn
<1>4. QED
  BY <1>1, <1>2, <1>3, PutKeeps

LEMMA CloseCurrentKeeps == ASSUME IInv, Books!Goes, Books!CloseCurrent PROVE IInv'
<1>1. CASE /\ Books!Drop(Books!Current) /\ Books!Toss(Books!DataOf(Books!Current))
           /\ UNCHANGED <<clip, files, delim>>
  BY <1>1, GoesOn, TossedKeeps
<1>2. CASE UNCHANGED Books!bookVars
  <2>1. UNCHANGED bookVars
    BY <1>2 DEF bookVars, Books!bookVars
  <2>2. QED
    BY <2>1, NothingChanged
<1>3. QED
  BY <1>1, <1>2 DEF Books!CloseCurrent

LEMMA SaveKeeps ==
    ASSUME IInv, Books!Goes, NEW d \in Books!Open, Books!Save(d)
    PROVE  IInv'
<1> DEFINE f == docs[d].url
           doc == [docs[d] EXCEPT !.saved = TRUE]
<1>1. CASE /\ f # "" /\ Books!Store(d, f) /\ Books!Put(d, doc) /\ UNCHANGED front
           /\ Books!Toss(files[f])
  <2>1. f \in DOMAIN files /\ files[f] \in SUBSET Books!Contents
    BY <1>1, OpenHas, UrlIsFile
  <2>2. Books!IsDoc(doc) /\ doc.sheets = docs[d].sheets
    BY OpenHas, DocMarked
  <2> HIDE DEF f, doc
  <2>3. /\ files' = [files EXCEPT ![f] = Books!Written(d)] /\ UNCHANGED <<clip, delim, astray>>
        /\ tossed' = tossed \cup files[f]
    BY <1>1 DEF Books!Store, Books!Toss
  <2>4. /\ files' \in [Books!Urls \ {""} -> SUBSET Books!Contents]
        /\ \A g \in DOMAIN files : g # f => files'[g] = files[g]
    BY <2>1, <2>3, WrittenIs, FileWritten
  <2>5. Books!StoresOK'
    BY <2>1, <2>3, <2>4, BooksAre DEF Books!StoresOK
  <2>6. Books!DataOf(d) \subseteq Books!DataIn(doc.sheets)
    BY <2>2, OpenHas
  <2>7. \A g \in DOMAIN files : files[g] \subseteq files'[g] \cup tossed' \cup astray'
    BY <2>3, <2>4
  <2>8. front' \in Books!Open
    BY <1>1, GoesOn
  <2>9. QED
    BY <1>1, <2>2, <2>3, <2>5, <2>6, <2>7, <2>8, PutKeeps
<1>2. CASE UNCHANGED Books!bookVars
  <2>1. UNCHANGED bookVars
    BY <1>2 DEF bookVars, Books!bookVars
  <2>2. QED
    BY <2>1, NothingChanged
<1>3. QED
  BY <1>1, <1>2 DEF Books!Save

LEMMA SaveCopyAsKeeps ==
    ASSUME IInv, NEW d \in Books!Open, NEW f \in {"two", "new"}, Books!SaveCopyAs(d, f)
    PROVE  IInv'
<1>1. CASE /\ files' = [files EXCEPT ![f] = Books!DataOf(d)]
           /\ UNCHANGED <<docs, this, front, clip, delim>> /\ Books!Toss(files[f])
  <2>1. f \in DOMAIN files /\ files[f] \in SUBSET Books!Contents
    <3>1. f \in Books!Urls /\ f # ""
      BY DEF Books!Urls
    <3>2. QED
      BY <3>1, UrlIsFile
  <2>2. tossed' = tossed \cup files[f] /\ astray' = astray
    BY <1>1 DEF Books!Toss
  <2>3. /\ files' \in [Books!Urls \ {""} -> SUBSET Books!Contents]
        /\ \A g \in DOMAIN files : g # f => files'[g] = files[g]
    BY <1>1, <2>1, OpenHas, FileWritten
  <2>4. Books!StoresOK'
    BY <1>1, <2>1, <2>2, <2>3, BooksAre DEF Books!StoresOK
  <2>5. \A g \in DOMAIN files : files[g] \subseteq files'[g] \cup tossed' \cup astray'
    BY <2>2, <2>3
  <2>6. QED
    BY <1>1, <2>2, <2>4, <2>5, StayKeeps
<1>2. CASE Books!Escapes
  BY <1>2, EscapesKeeps
<1>3. QED
  BY <1>1, <1>2 DEF Books!SaveCopyAs

LEMMA CloseSavedKeeps ==
    ASSUME IInv, Books!Goes, NEW d \in Books!Open, NEW f \in {"", "new"}, Books!CloseSaved(d, f)
    PROVE  IInv'
<1> DEFINE file == IF f = "" THEN docs[d].url ELSE f
           doc == [docs[d] EXCEPT !.url = file, !.saved = TRUE]
<1>1. CASE Books!Refused
  BY <1>1, RefusedKeeps
<1>2. CASE Books!Escapes
  BY <1>2, EscapesKeeps
<1>3. CASE /\ file # "" /\ Books!Store(d, file) /\ tossed' = tossed \cup files[file]
           /\ astray' = astray \cup (Books!DataOf(d) \ Books!Written(d))
           /\ \/ Books!Drop(d)
              \/ Books!Put(d, doc) /\ UNCHANGED front
  <2>1. file \in Books!Urls
    <3>1. "new" \in Books!Urls
      BY DEF Books!Urls
    <3>2. QED
      BY <3>1, OpenHas
  <2>2. file \in DOMAIN files /\ files[file] \in SUBSET Books!Contents
    BY <1>3, <2>1, UrlIsFile
  <2>3. Books!IsDoc(doc) /\ doc.sheets = docs[d].sheets
    <3> HIDE DEF file
    <3>1. QED
      BY <2>1, OpenHas, DocMarked
  <2> HIDE DEF file, doc
  <2>4. files' = [files EXCEPT ![file] = Books!Written(d)] /\ UNCHANGED <<clip, delim>>
    BY <1>3 DEF Books!Store
  <2>5. /\ files' \in [Books!Urls \ {""} -> SUBSET Books!Contents]
        /\ files'[file] = Books!Written(d)
        /\ \A g \in DOMAIN files : g # file => files'[g] = files[g]
    BY <2>2, <2>4, WrittenIs, FileWritten
  <2>6. Books!StoresOK'
    BY <1>3, <2>2, <2>4, <2>5, OpenHas, BooksAre DEF Books!StoresOK
  <2>7. \A g \in DOMAIN files : files[g] \subseteq files'[g] \cup tossed' \cup astray'
    BY <1>3, <2>5
  <2>8. Books!DataOf(d) \subseteq files'[file] \cup tossed' \cup astray'
    BY <1>3, <2>5
  <2>9. CASE Books!Drop(d)
    BY <1>3, <2>2, <2>6, <2>7, <2>8, <2>9, DropKeeps
  <2>10. CASE Books!Put(d, doc) /\ UNCHANGED front
    <3>1. Books!DataOf(d) \subseteq Books!DataIn(doc.sheets)
      BY <2>3, OpenHas
    <3>2. front' \in Books!Open
      BY <2>10, GoesOn
    <3>3. QED
      BY <1>3, <2>3, <2>6, <2>7, <2>10, <3>1, <3>2, PutKeeps
  <2>11. QED
    BY <1>3, <2>9, <2>10
<1>4. QED
  BY <1>1, <1>2, <1>3 DEF Books!CloseSaved

LEMMA CloseUnsavedKeeps ==
    ASSUME IInv, Books!Goes, NEW d \in Books!Open, Books!CloseUnsaved(d)
    PROVE  IInv'
<1> DEFINE doc == [docs[d] EXCEPT !.saved = TRUE]
<1>1. CASE /\ Books!Drop(d) /\ Books!Toss(Books!DataOf(d))
           /\ UNCHANGED <<clip, files, delim>>
  BY <1>1, TossedKeeps
<1>2. CASE /\ Books!Put(d, doc)
           /\ UNCHANGED <<front, clip, files, delim, tossed, astray>>
  <2>1. Books!IsDoc(doc) /\ doc.sheets = docs[d].sheets
    BY OpenHas, DocMarked
  <2> HIDE DEF doc
  <2>2. QED
    BY <1>2, <2>1, MarkedKeeps
<1>3. CASE Books!Escapes
  BY <1>3, EscapesKeeps
<1>4. QED
  BY <1>1, <1>2, <1>3 DEF Books!CloseUnsaved

LEMMA SetSavedKeeps ==
    ASSUME IInv, Books!Goes, NEW d \in Books!Open, NEW b \in BOOLEAN, Books!SetSaved(d, b)
    PROVE  IInv'
<1> DEFINE c == ~b
           doc == [docs[d] EXCEPT !.saved = c]
<1>1. c \in BOOLEAN
  OBVIOUS
<1>2. Books!Put(d, doc) /\ UNCHANGED <<front, clip, files, delim, tossed, astray>>
  BY DEF Books!SetSaved
<1> HIDE DEF c
<1>3. Books!IsDoc(doc) /\ doc.sheets = docs[d].sheets
  BY <1>1, OpenHas, DocMarked
<1> HIDE DEF doc
<1>4. QED
  BY <1>2, <1>3, MarkedKeeps

LEMMA LockKeeps ==
    ASSUME IInv, Books!Goes, NEW d \in Books!Open, NEW b \in BOOLEAN, Books!Lock(d, b)
    PROVE  IInv'
<1> DEFINE doc == [docs[d] EXCEPT !.locked = b]
<1>1. CASE Books!Refused
  BY <1>1, RefusedKeeps
<1>2. CASE Books!Put(d, doc) /\ UNCHANGED <<front, clip, files, delim, tossed, astray>>
  <2>1. Books!IsDoc(doc) /\ doc.sheets = docs[d].sheets
    BY OpenHas, DocMarked
  <2> HIDE DEF doc
  <2>2. QED
    BY <1>2, <2>1, MarkedKeeps
<1>3. QED
  BY <1>1, <1>2 DEF Books!Lock

-----------------------------------------------------------------------------
(* Worksheets *)

\* The sheets of an open document are replaced.
LEMMA SheetsKeep ==
    ASSUME IInv, Books!Goes, NEW d \in Books!Open, NEW s \in Seq(Books!SheetRecord),
           NEW a \in 1 .. Len(s), Books!PutSheets(d, s, a),
           UNCHANGED <<front, clip, files, delim>>,
           Books!StoresOK', tossed \subseteq tossed', astray \subseteq astray',
           Books!DataOf(d) \subseteq Books!DataIn(s) \cup tossed' \cup astray'
    PROVE  IInv'
<1> DEFINE doc == [docs[d] EXCEPT !.sheets = s, !.active = a, !.saved = FALSE]
<1>1. Books!IsDoc(doc) /\ doc.sheets = s
  BY OpenHas, DocChanged
<1>2. Books!Put(d, doc)
  BY DEF Books!PutSheets
<1> HIDE DEF doc
<1>3. front' \in Books!Open
  BY GoesOn
<1>4. QED
  BY <1>1, <1>2, <1>3, PutKeeps

LEMMA NothingTossed ==
    ASSUME IInv, UNCHANGED <<clip, files, delim, tossed, astray>>
    PROVE  Books!StoresOK'
BY BooksAre DEF Books!StoresOK

\* Something goes, as the macro said.
LEMMA SomethingTossed ==
    ASSUME IInv, NEW data \in SUBSET Books!Contents, Books!Toss(data),
           UNCHANGED <<clip, files, delim>>
    PROVE  Books!StoresOK' /\ tossed' = tossed \cup data /\ astray' = astray
<1>1. tossed' = tossed \cup data /\ astray' = astray
  BY DEF Books!Toss
<1>2. Books!StoresOK'
  BY <1>1, BooksAre DEF Books!StoresOK
<1>3. QED
  BY <1>1, <1>2

LEMMA IndexIs ==
    ASSUME IInv, NEW d \in Books!Open, NEW name
    PROVE  /\ Books!IndexOf(d, name) \in 0 .. Len(docs[d].sheets)
           /\ name \in Books!NamesOf(d) => Books!IndexOf(d, name) \in 1 .. Len(docs[d].sheets)
<1> DEFINE n == Len(docs[d].sheets)
<1>1. DOMAIN docs[d].sheets = 1 .. n /\ n \in Nat
  BY OpenHas
<1> HIDE DEF n
<1>2. CASE name \in Books!NamesOf(d)
  <2>1. \E i \in 1 .. n : docs[d].sheets[i].name = name
    BY <1>1, <1>2 DEF Books!NamesOf
  <2>2. (CHOOSE i \in 1 .. n : docs[d].sheets[i].name = name) \in 1 .. n
    BY <2>1
  <2>3. Books!IndexOf(d, name) = CHOOSE i \in 1 .. n : docs[d].sheets[i].name = name
    BY <1>1, <1>2 DEF Books!IndexOf
  <2>4. QED
    BY <1>1, <2>2, <2>3 DEF n
<1>3. CASE name \notin Books!NamesOf(d)
  BY <1>1, <1>3 DEF Books!IndexOf, n
<1>4. QED
  BY <1>2, <1>3

\* The first number that makes a free name, of one more than there are sheets.
LEMMA FreshNameIs ==
    ASSUME IInv, NEW d \in Books!Open
    PROVE  Books!FreshName(d) \in Seq(Nat)
<1> DEFINE n == Len(docs[d].sheets)
           h == [i \in 1 .. n |-> docs[d].sheets[i].name]
           g == [k \in Nat |-> <<k>>]
           N == {h[i] : i \in 1 .. n}
           P(k) == <<k>> \notin Books!NamesOf(d) /\ \A j \in n + 1 .. k - 1 : <<j>> \in Books!NamesOf(d)
<1>1. n \in Nat /\ DOMAIN docs[d].sheets = 1 .. n
  BY OpenHas
<1> HIDE DEF n
<1>2. Books!NamesOf(d) = N
  BY <1>1 DEF Books!NamesOf
<1>3. n + 1 \in Nat /\ \A j, k \in n + 1 .. n + 1 + n : j \in Nat /\ (g[j] = g[k] => j = k)
  BY <1>1
<1>4. PICK k \in n + 1 .. n + 1 + n : g[k] \notin N /\ \A j \in n + 1 .. k - 1 : g[j] \in N
  <2> DEFINE lo == n + 1
  <2>1. AreNames(N, h, n)
    BY DEF AreNames
  <2> HIDE DEF h, g, N, P
  <2>2. lo \in Nat /\ AreDistinct(g, lo, n)
    BY <1>1, <1>3 DEF AreDistinct
  <2> HIDE DEF lo
  <2>3. HasFree(g, lo, n, N)
    BY <1>1, <2>1, <2>2, NameIsFound
  <2>4. QED
    BY <2>3 DEF lo, HasFree
<1>5. g[k] = <<k>> /\ \A j \in n + 1 .. k - 1 : g[j] = <<j>>
  BY <1>1
<1>6. n + 1 + n = 2 * n + 1
  BY <1>1
<1>7. \E j \in n + 1 .. 2 * n + 1 : P(j)
  BY <1>2, <1>4, <1>5, <1>6
<1> DEFINE c == CHOOSE j \in n + 1 .. 2 * n + 1 : P(j)
<1>8. c \in n + 1 .. 2 * n + 1
  <2> HIDE DEF P
  <2>1. QED
    BY <1>7
<1>9. Books!FreshName(d) = <<c>>
  BY DEF Books!FreshName, n
<1> HIDE DEF c
<1>10. c \in Nat
  BY <1>1, <1>8
<1>11. QED
  BY <1>9, <1>10

LEMMA NewNameIs ==
    ASSUME IInv, NEW d \in Books!Open, NEW name \in Seq(Nat)
    PROVE  Books!NewName(d, name) \in Seq(Nat)
<1> DEFINE n == Len(docs[d].sheets)
           h == [i \in 1 .. n |-> docs[d].sheets[i].name]
           g == [k \in Nat |-> Append(name, k)]
           N == {h[i] : i \in 1 .. n}
           P(k) == /\ Append(name, k) \notin Books!NamesOf(d)
                   /\ \A j \in 2 .. k - 1 : Append(name, j) \in Books!NamesOf(d)
<1>1. n \in Nat /\ DOMAIN docs[d].sheets = 1 .. n
  BY OpenHas
<1> HIDE DEF n
<1>2. Books!NamesOf(d) = N
  BY <1>1 DEF Books!NamesOf
<1>3. \A j, k \in 2 .. 2 + n : g[j] = g[k] => j = k
  <2>1. ASSUME NEW j \in 2 .. 2 + n, NEW k \in 2 .. 2 + n, g[j] = g[k] PROVE j = k
    <3>1. j \in Nat /\ k \in Nat
      BY <1>1
    <3>2. Append(name, j) = Append(name, k)
      BY <2>1, <3>1
    <3>3. Append(name, j)[Len(name) + 1] = j /\ Append(name, k)[Len(name) + 1] = k
      BY <3>1, AppendProperties
    <3>4. QED
      BY <3>2, <3>3
  <2>2. QED
    BY <2>1
<1>4. PICK k \in 2 .. 2 + n : g[k] \notin N /\ \A j \in 2 .. k - 1 : g[j] \in N
  <2> DEFINE lo == 2
  <2>1. AreNames(N, h, n)
    BY DEF AreNames
  <2> HIDE DEF h, g, N, P
  <2>2. lo \in Nat /\ AreDistinct(g, lo, n)
    BY <1>1, <1>3 DEF AreDistinct
  <2> HIDE DEF lo
  <2>3. HasFree(g, lo, n, N)
    BY <1>1, <2>1, <2>2, NameIsFound
  <2>4. QED
    BY <2>3 DEF lo, HasFree
<1>5. g[k] = Append(name, k) /\ \A j \in 2 .. k - 1 : g[j] = Append(name, j)
  BY <1>1
<1>6. 2 + n = n + 2
  BY <1>1
<1>7. \E j \in 2 .. n + 2 : P(j)
  BY <1>2, <1>4, <1>5, <1>6
<1> DEFINE c == CHOOSE j \in 2 .. n + 2 : P(j)
<1>8. c \in 2 .. n + 2
  <2> HIDE DEF P
  <2>1. QED
    BY <1>7
<1>9. Books!NewName(d, name) = Append(name, c)
  BY DEF Books!NewName, n
<1> HIDE DEF c
<1>10. c \in Nat
  BY <1>1, <1>8
<1>11. QED
  BY <1>9, <1>10, AppendProperties

LEMMA AddSheetKeeps ==
    ASSUME IInv, Books!Goes, NEW d \in Books!Open, NEW name, NEW after \in BOOLEAN,
           Books!AddSheet(d, name, after)
    PROVE  IInv'
<1> DEFINE s   == docs[d].sheets
           ref == IF name = Books!NoName
                  THEN docs[Books!Current].sheets[docs[Books!Current].active].name ELSE name
           at  == (IF Books!IndexOf(d, ref) = 0 THEN 0 ELSE Books!IndexOf(d, ref) - 1)
                  + (IF name # Books!NoName /\ after THEN 1 ELSE 0)
           x   == Books!Sheet(Books!FreshName(d), {})
           t   == Books!Insert(s, at, <<x>>)
           a   == docs[d].active + IF at < docs[d].active THEN 1 ELSE 0
<1>1. CASE Books!Refused
  BY <1>1, RefusedKeeps
<1>2. CASE Books!PutSheets(d, t, a) /\ UNCHANGED <<front, clip, files, delim, tossed, astray>>
  <2>1. /\ s \in Seq(Books!SheetRecord) /\ Len(s) \in Nat \ {0} /\ docs[d].active \in 1 .. Len(s)
        /\ Books!DataOf(d) = Books!DataIn(s)
    BY OpenHas
  <2>2. at \in 0 .. Len(s)
    <3>1. Books!IndexOf(d, ref) \in 0 .. Len(s)
      BY IndexIs
    <3> HIDE DEF ref, s
    <3>2. QED
      BY <2>1, <3>1
  <2>3. x \in Books!SheetRecord
    BY FreshNameIs, SheetIs
  <2>4. a \in 1 .. Len(s) + 1
    <3> HIDE DEF at, s
    <3>1. QED
      BY <2>1, <2>2
  <2> HIDE DEF s, at, x, a
  <2>5. /\ t \in Seq(Books!SheetRecord) /\ Len(t) = Len(s) + 1
        /\ Books!DataIn(s) \cup x.data \subseteq Books!DataIn(t)
    BY <2>1, <2>2, <2>3, DataInserted
  <2> HIDE DEF t
  <2>6. a \in 1 .. Len(t) /\ Books!DataOf(d) \subseteq Books!DataIn(t)
    BY <2>1, <2>4, <2>5
  <2>7. QED
    BY <1>2, <2>5, <2>6, NothingTossed, SheetsKeep
<1>3. QED
  BY <1>1, <1>2 DEF Books!AddSheet

LEMMA DeleteSheetsKeeps ==
    ASSUME IInv, Books!Goes, NEW d \in Books!Open, Books!DeleteSheets(d)
    PROVE  IInv'
<1> DEFINE s == docs[d].sheets
           m == Len(s) \div 2
           t == [i \in 1 .. m |-> s[2 * i]]
<1>1. CASE Books!Refused
  BY <1>1, RefusedKeeps
<1>2. CASE Books!Escapes
  BY <1>2, EscapesKeeps
<1>3. CASE /\ Len(s) > 1 /\ Books!PutSheets(d, t, 1) /\ Books!Toss(Books!DataOf(d))
           /\ UNCHANGED <<front, clip, files, delim>>
  <2>1. /\ Len(s) \in Nat /\ \A i \in 1 .. Len(s) : s[i] \in Books!SheetRecord
        /\ Books!DataOf(d) \in SUBSET Books!Contents
    BY OpenHas
  <2> HIDE DEF s
  <2>2. m \in Nat /\ m >= 1 /\ 2 * m <= Len(s)
    BY <1>3, <2>1
  <2> HIDE DEF m
  <2>3. \A i \in 1 .. m : 2 * i \in 1 .. Len(s)
    BY <2>1, <2>2
  <2>4. \A i \in 1 .. m : s[2 * i] \in Books!SheetRecord
    BY <2>1, <2>3
  <2>5. t \in Seq(Books!SheetRecord) /\ Len(t) = m
    BY <2>2, <2>4, IsASeq
  <2> HIDE DEF t
  <2>6. 1 \in 1 .. Len(t)
    BY <2>2, <2>5
  <2>7. Books!StoresOK' /\ tossed' = tossed \cup Books!DataOf(d) /\ astray' = astray
    BY <1>3, <2>1, SomethingTossed
  <2>8. QED
    BY <1>3, <2>5, <2>6, <2>7, SheetsKeep
<1>4. QED
  BY <1>1, <1>2, <1>3 DEF Books!DeleteSheets

LEMMA DeleteSheetKeeps ==
    ASSUME IInv, Books!Goes, NEW d \in Books!Open, NEW i \in DOMAIN docs[d].sheets,
           Books!DeleteSheet(d, i)
    PROVE  IInv'
<1> DEFINE s == docs[d].sheets
           t == Books!Without(s, i)
           a == Books!ActiveOf(Len(s) - 1, docs[d].active)
<1>1. CASE Books!Refused
  BY <1>1, RefusedKeeps
<1>2. CASE /\ Len(s) > 1 /\ Books!PutSheets(d, t, a) /\ Books!Toss(s[i].data)
           /\ UNCHANGED <<front, clip, files, delim>>
  <2>1. /\ s \in Seq(Books!SheetRecord) /\ Len(s) \in Nat /\ docs[d].active \in 1 .. Len(s)
        /\ i \in 1 .. Len(s) /\ Books!DataOf(d) = Books!DataIn(s)
        /\ s[i].data \in SUBSET Books!Contents
    BY OpenHas
  <2> HIDE DEF s
  <2>2. /\ t \in Seq(Books!SheetRecord) /\ Len(t) = Len(s) - 1
        /\ Books!DataIn(s) \subseteq Books!DataIn(t) \cup s[i].data
    BY <2>1, DataWithout
  <2> HIDE DEF t
  <2>3. a \in 1 .. Len(t)
    BY <1>2, <2>1, <2>2 DEF Books!ActiveOf
  <2> HIDE DEF a
  <2>4. Books!StoresOK' /\ tossed' = tossed \cup s[i].data /\ astray' = astray
    BY <1>2, <2>1, SomethingTossed
  <2>5. QED
    BY <1>2, <2>1, <2>2, <2>3, <2>4, SheetsKeep
<1>3. QED
  BY <1>1, <1>2 DEF Books!DeleteSheet

-----------------------------------------------------------------------------
(* Worksheet *)

LEMMA SetNameKeeps ==
    ASSUME IInv, Books!Goes, NEW d \in Books!Open, NEW i \in DOMAIN docs[d].sheets,
           NEW name \in Seq(Nat), Books!SetName(d, i, name)
    PROVE  IInv'
<1> DEFINE s == docs[d].sheets
           t == [s EXCEPT ![i].name = name]
<1>1. CASE UNCHANGED <<docs, this, front, clip, files, delim, tossed, astray>>
  BY <1>1, NothingChanged DEF bookVars
<1>2. CASE /\ Books!PutSheets(d, t, docs[d].active)
           /\ UNCHANGED <<front, clip, files, delim, tossed, astray>>
  <2>1. /\ s \in Seq(Books!SheetRecord) /\ Len(s) \in Nat /\ docs[d].active \in 1 .. Len(s)
        /\ i \in 1 .. Len(s) /\ Books!DataOf(d) = Books!DataIn(s) /\ DOMAIN s = 1 .. Len(s)
        /\ \A k \in 1 .. Len(s) : s[k] \in Books!SheetRecord
    BY OpenHas
  <2> HIDE DEF s
  <2>2. /\ t = [k \in 1 .. Len(s) |-> t[k]]
        /\ \A k \in 1 .. Len(s) : t[k] \in Books!SheetRecord /\ t[k].data = s[k].data
    <3>1. \A k \in 1 .. Len(s) : t[k] = IF k = i THEN [s[k] EXCEPT !.name = name] ELSE s[k]
      BY <2>1
    <3>2. ASSUME NEW k \in 1 .. Len(s)
          PROVE  /\ [s[k] EXCEPT !.name = name] \in Books!SheetRecord
                 /\ [s[k] EXCEPT !.name = name].data = s[k].data
      BY <2>1 DEF Books!SheetRecord
    <3>3. t = [k \in 1 .. Len(s) |-> t[k]]
      BY <2>1
    <3> HIDE DEF t
    <3>4. QED
      BY <2>1, <3>1, <3>2, <3>3
  <2> HIDE DEF t
  <2>3. t \in Seq(Books!SheetRecord) /\ Len(t) = Len(s) /\ DOMAIN t = 1 .. Len(s)
    BY <2>1, <2>2, IsASeq
  <2>4. Books!DataIn(t) = Books!DataIn(s)
    BY <2>1, <2>2, <2>3 DEF Books!DataIn
  <2>5. QED
    BY <1>2, <2>1, <2>3, <2>4, NothingTossed, SheetsKeep
<1>3. QED
  BY <1>1, <1>2 DEF Books!SetName

LEMMA ActivateSheetKeeps ==
    ASSUME IInv, Books!Goes, NEW d \in Books!Open, NEW i \in DOMAIN docs[d].sheets,
           Books!ActivateSheet(d, i)
    PROVE  IInv'
<1> DEFINE doc == [docs[d] EXCEPT !.active = i]
<1>1. Books!Put(d, doc) /\ UNCHANGED <<front, clip, files, delim, tossed, astray>>
  BY DEF Books!ActivateSheet
<1>2. Books!IsDoc(doc) /\ doc.sheets = docs[d].sheets
  BY OpenHas, DocMarked
<1> HIDE DEF doc
<1>3. QED
  BY <1>1, <1>2, MarkedKeeps

LEMMA CopiedIs ==
    ASSUME IInv, Books!Goes, NEW d \in Books!Open, NEW i \in DOMAIN docs[d].sheets,
           NEW data \in Books!Copied(d, i)
    PROVE  /\ data \in SUBSET Books!Contents
           /\ d = Books!Current => data = docs[d].sheets[i].data
<1>1. docs[d].sheets[i].data \in SUBSET Books!Contents
  BY OpenHas
<1>2. docs[Books!Current].sheets[docs[Books!Current].active].data \in SUBSET Books!Contents
  <2> DEFINE c == Books!Current
  <2>1. c \in Books!Open
    BY GoesOn
  <2> HIDE DEF c
  <2>2. docs[c].sheets[docs[c].active].data \in SUBSET Books!Contents
    BY <2>1, OpenHas
  <2>3. QED
    BY <2>2 DEF c
<1>3. CASE d = Books!Current
  BY <1>1, <1>3 DEF Books!Copied
<1>4. CASE d # Books!Current
  BY <1>2, <1>4 DEF Books!Copied
<1>5. QED
  BY <1>3, <1>4

LEMMA SelectedIs ==
    ASSUME IInv, NEW d \in Books!Open, NEW i \in DOMAIN docs[d].sheets
    PROVE  LET doc  == [docs[d] EXCEPT !.active = i]
               open == Books!Selected(d, i)
           IN  /\ Books!IsDoc(doc) /\ doc.sheets = docs[d].sheets
               /\ open = [docs EXCEPT ![d] = doc]
               /\ open = [k \in Books!Open |-> open[k]]
               /\ \A k \in Books!Open : Books!IsDoc(open[k]) /\ open[k].sheets = docs[k].sheets
<1> DEFINE doc  == [docs[d] EXCEPT !.active = i]
           open == Books!Selected(d, i)
<1>1. Books!IsDoc(doc) /\ doc.sheets = docs[d].sheets
  BY OpenHas, DocMarked
<1>2. docs = [k \in Books!Open |-> docs[k]] /\ \A k \in Books!Open : Books!IsDoc(docs[k])
  BY BooksAre
<1>3. open = [docs EXCEPT ![d] = doc]
  BY DEF Books!Selected
<1> HIDE DEF doc, open
<1>4. /\ open = [k \in Books!Open |-> open[k]] /\ open[d] = doc
      /\ \A k \in Books!Open : k # d => open[k] = docs[k]
  BY <1>2, <1>3
<1>5. \A k \in Books!Open : Books!IsDoc(open[k]) /\ open[k].sheets = docs[k].sheets
  BY <1>1, <1>2, <1>4
<1>6. QED
  BY <1>1, <1>3, <1>4, <1>5 DEF doc, open

LEMMA NotOpenedKeeps ==
    ASSUME IInv, Books!Goes, NEW d \in Books!Open, NEW i \in DOMAIN docs[d].sheets,
           NEW data \in Books!Copied(d, i), clip' = data, Books!NotOpened(d, i)
    PROVE  IInv'
<1> DEFINE doc == [docs[d] EXCEPT !.active = i]
<1>1. Books!IsDoc(doc) /\ doc.sheets = docs[d].sheets /\ Books!Selected(d, i) = [docs EXCEPT ![d] = doc]
  BY SelectedIs
<1> HIDE DEF doc
<1>2. /\ docs' = Books!Selected(d, i) /\ this' = this /\ front' = front
      /\ UNCHANGED <<files, delim, tossed, astray>>
  BY DEF Books!NotOpened
<1>3. Books!Put(d, doc)
  BY <1>1, <1>2 DEF Books!Put
<1>4. Books!StoresOK'
  <2>1. data \in SUBSET Books!Contents
    BY CopiedIs
  <2>2. QED
    BY <1>2, <2>1, BooksAre DEF Books!StoresOK
<1>5. Books!DataOf(d) \subseteq Books!DataIn(doc.sheets) /\ front' \in Books!Open
  BY <1>1, <1>2, OpenHas, GoesOn
<1>6. QED
  BY <1>1, <1>2, <1>3, <1>4, <1>5, PutKeeps

LEMMA OpenedKeeps ==
    ASSUME IInv, Books!Goes, NEW d \in Books!Open, NEW i \in DOMAIN docs[d].sheets,
           NEW data \in Books!Copied(d, i), clip' = data, Books!Opened(d, i, data)
    PROVE  IInv'
<1> DEFINE open == Books!Selected(d, i)
           doc  == Books!PastedDoc(docs[d].sheets[i].name, data)
<1>1. PICK n \in (1 .. MaxDocs) \ Books!Open :
        docs' = Books!Added(open, n, doc) /\ front' = n /\ UNCHANGED <<this, files, delim, tossed, astray>>
  BY DEF Books!Opened
<1>2. /\ open = [k \in Books!Open |-> open[k]]
      /\ \A k \in Books!Open : Books!IsDoc(open[k]) /\ open[k].sheets = docs[k].sheets
  BY SelectedIs
<1>3. Books!IsDoc(doc)
  <2>1. docs[d].sheets[i].name \in Seq(Nat)
    BY OpenHas
  <2>2. QED
    BY <2>1, CopiedIs, PastedDocIs
<1> HIDE DEF open, doc
<1>4. Books!StoresOK'
  <2>1. data \in SUBSET Books!Contents
    BY CopiedIs
  <2>2. QED
    BY <1>1, <2>1, BooksAre DEF Books!StoresOK
<1>5. \A k \in Books!Open : Books!DataOf(k) \subseteq Books!DataIn(open[k].sheets)
  BY <1>2, OpenHas
<1>6. QED
  BY <1>1, <1>2, <1>3, <1>4, <1>5, AddedKeeps

LEMMA CopyToNewKeeps ==
    ASSUME IInv, Books!Goes, NEW d \in Books!Open, NEW i \in DOMAIN docs[d].sheets,
           Books!CopyToNew(d, i)
    PROVE  IInv'
<1>1. PICK data \in Books!Copied(d, i) :
        clip' = data /\ (Books!NotOpened(d, i) \/ Books!Opened(d, i, data))
  BY DEF Books!CopyToNew
<1>2. QED
  BY <1>1, NotOpenedKeeps, OpenedKeeps

LEMMA LeftBehindIs ==
    ASSUME IInv, NEW d \in Books!Open, NEW i \in DOMAIN docs[d].sheets, Len(docs[d].sheets) > 1
    PROVE  LET doc  == Books!LeftBehind(d, i)
               open == [docs EXCEPT ![d] = doc]
           IN  /\ open = [k \in Books!Open |-> open[k]]
               /\ \A k \in Books!Open : Books!IsDoc(open[k])
               /\ \A k \in Books!Open : k # d => open[k] = docs[k]
               /\ Books!DataOf(d) \subseteq Books!DataIn(open[d].sheets) \cup docs[d].sheets[i].data
<1> DEFINE s == docs[d].sheets
           t == Books!Without(s, i)
           a == Books!ActiveOf(Len(s) - 1, i)
           doc  == Books!LeftBehind(d, i)
           open == [docs EXCEPT ![d] = doc]
<1>1. /\ s \in Seq(Books!SheetRecord) /\ Len(s) \in Nat /\ i \in 1 .. Len(s) /\ Len(s) > 1
      /\ Books!DataOf(d) = Books!DataIn(s)
  BY OpenHas
<1>2. doc = [docs[d] EXCEPT !.sheets = t, !.active = a, !.saved = FALSE]
  BY DEF Books!LeftBehind
<1> HIDE DEF s, doc
<1>3. /\ t \in Seq(Books!SheetRecord) /\ Len(t) = Len(s) - 1
      /\ Books!DataIn(s) \subseteq Books!DataIn(t) \cup s[i].data
  BY <1>1, DataWithout
<1> HIDE DEF t
<1>4. a \in 1 .. Len(t)
  BY <1>1, <1>3 DEF Books!ActiveOf
<1> HIDE DEF a
<1>5. Books!IsDoc(doc) /\ doc.sheets = t
  BY <1>2, <1>3, <1>4, OpenHas, DocChanged
<1>6. docs = [k \in Books!Open |-> docs[k]] /\ \A k \in Books!Open : Books!IsDoc(docs[k])
  BY BooksAre
<1>7. /\ open = [k \in Books!Open |-> open[k]] /\ open[d] = doc
      /\ \A k \in Books!Open : k # d => open[k] = docs[k]
  BY <1>6
<1> HIDE DEF open
<1>8. \A k \in Books!Open : Books!IsDoc(open[k])
  BY <1>5, <1>6, <1>7
<1>9. Books!DataOf(d) \subseteq Books!DataIn(open[d].sheets) \cup docs[d].sheets[i].data
  BY <1>1, <1>3, <1>5, <1>7 DEF s
<1>10. QED
  BY <1>7, <1>8, <1>9 DEF open, doc

LEMMA MoveToNewKeeps ==
    ASSUME IInv, Books!Goes, NEW d \in Books!Open, NEW i \in DOMAIN docs[d].sheets,
           Books!MoveToNew(d, i)
    PROVE  IInv'
<1> DEFINE open == [docs EXCEPT ![d] = Books!LeftBehind(d, i)]
           gone == IF d = Books!Current THEN {} ELSE docs[d].sheets[i].data
           Pasted(data) == Books!PastedDoc(docs[d].sheets[i].name, data)
<1>1. PICK data \in Books!Copied(d, i) :
        /\ clip' = data
        /\ \/ Books!NotOpened(d, i)
           \/ Books!Opened(d, i, data)
           \/ /\ Len(docs[d].sheets) > 1
              /\ \E n \in (1 .. MaxDocs) \ Books!Open :
                   docs' = Books!Added(open, n, Pasted(data)) /\ front' = n
              /\ astray' = astray \cup gone
              /\ UNCHANGED <<this, files, delim, tossed>>
  BY DEF Books!MoveToNew
<1>2. CASE Books!NotOpened(d, i)
  BY <1>1, <1>2, NotOpenedKeeps
<1>3. CASE Books!Opened(d, i, data)
  BY <1>1, <1>3, OpenedKeeps
<1>4. CASE /\ Len(docs[d].sheets) > 1
           /\ \E n \in (1 .. MaxDocs) \ Books!Open :
                docs' = Books!Added(open, n, Pasted(data)) /\ front' = n
           /\ astray' = astray \cup gone
           /\ UNCHANGED <<this, files, delim, tossed>>
  <2> DEFINE doc == Pasted(data)
  <2>1. /\ open = [k \in Books!Open |-> open[k]]
        /\ \A k \in Books!Open : Books!IsDoc(open[k])
        /\ \A k \in Books!Open : k # d => open[k] = docs[k]
        /\ Books!DataOf(d) \subseteq Books!DataIn(open[d].sheets) \cup docs[d].sheets[i].data
    BY <1>4, LeftBehindIs
  <2>2. docs[d].sheets[i].name \in Seq(Nat) /\ docs[d].sheets[i].data \in SUBSET Books!Contents
    BY OpenHas
  <2>3. data \in SUBSET Books!Contents /\ (d = Books!Current => data = docs[d].sheets[i].data)
    BY CopiedIs
  <2>4. Books!IsDoc(doc) /\ data \subseteq Books!DataIn(doc.sheets)
    BY <2>2, <2>3, PastedDocIs
  <2>5. PICK n \in (1 .. MaxDocs) \ Books!Open : docs' = Books!Added(open, n, doc) /\ front' = n
    BY <1>4
  <2> HIDE DEF open, doc
  <2>6. docs[d].sheets[i].data \subseteq Books!DataIn(doc.sheets) \cup astray'
    BY <1>4, <2>3, <2>4
  <2>7. Books!StoresOK'
    <3>1. gone \in SUBSET Books!Contents
      BY <2>2
    <3> HIDE DEF gone
    <3>2. QED
      BY <1>1, <1>4, <2>3, <3>1, BooksAre DEF Books!StoresOK
  <2>8. \A k \in Books!Open : Books!DataOf(k) \subseteq
          Books!DataIn(open[k].sheets) \cup Books!DataIn(doc.sheets) \cup tossed' \cup astray'
    <3>1. ASSUME NEW k \in Books!Open, k # d
          PROVE  Books!DataOf(k) \subseteq Books!DataIn(open[k].sheets)
      BY <2>1, <3>1, OpenHas
    <3>2. QED
      BY <2>1, <2>6, <3>1
  <2>9. QED
    BY <1>4, <2>1, <2>4, <2>5, <2>7, <2>8, AddedKeeps
<1>5. QED
  BY <1>1, <1>2, <1>3, <1>4

LEMMA PlacedIs ==
    ASSUME IInv, NEW d \in Books!Open, NEW name \in Books!NamesOf(d), NEW after \in BOOLEAN
    PROVE  Books!Placed(d, name, after) \in 0 .. Len(docs[d].sheets)
<1> DEFINE n == Len(docs[d].sheets)
           k == Books!IndexOf(d, name)
<1>1. n \in Nat /\ k \in 1 .. n
  BY OpenHas, IndexIs
<1>2. Books!Placed(d, name, after) = k - 1 + IF after THEN 1 ELSE 0
  BY DEF Books!Placed
<1> HIDE DEF n, k
<1>3. (k - 1 + IF after THEN 1 ELSE 0) \in 0 .. n
  BY <1>1
<1>4. QED
  BY <1>2, <1>3 DEF n

LEMMA MoveToKeeps ==
    ASSUME IInv, Books!Goes, NEW d \in Books!Open, NEW i \in DOMAIN docs[d].sheets,
           NEW name, NEW after \in BOOLEAN, Books!MoveTo(d, i, name, after)
    PROVE  IInv'
<1> DEFINE s  == docs[d].sheets
           to == Books!Placed(d, name, after)
           at == IF i - 1 < to THEN to - 1 ELSE to
           w  == Books!Without(s, i)
           x  == s[i]
           t  == Books!Insert(w, at, <<x>>)
<1>1. CASE UNCHANGED <<docs, this, front, clip, files, delim, tossed, astray>>
  BY <1>1, NothingChanged DEF bookVars
<1>2. CASE /\ name \in Books!NamesOf(d)
           /\ Books!PutSheets(d, t, docs[d].active)
           /\ UNCHANGED <<front, clip, files, delim, tossed, astray>>
  <2>1. /\ s \in Seq(Books!SheetRecord) /\ Len(s) \in Nat /\ docs[d].active \in 1 .. Len(s)
        /\ i \in 1 .. Len(s) /\ Books!DataOf(d) = Books!DataIn(s) /\ x \in Books!SheetRecord
    BY OpenHas
  <2>2. to \in 0 .. Len(s)
    BY <1>2, PlacedIs
  <2> HIDE DEF s, to
  <2>3. /\ w \in Seq(Books!SheetRecord) /\ Len(w) = Len(s) - 1
        /\ Books!DataIn(s) \subseteq Books!DataIn(w) \cup x.data
    BY <2>1, DataWithout
  <2> HIDE DEF w, x
  <2>4. at \in 0 .. Len(w)
    BY <2>1, <2>2, <2>3
  <2> HIDE DEF at
  <2>5. /\ t \in Seq(Books!SheetRecord) /\ Len(t) = Len(w) + 1
        /\ Books!DataIn(w) \cup x.data \subseteq Books!DataIn(t)
    BY <2>1, <2>3, <2>4, DataInserted
  <2> HIDE DEF t
  <2>6. docs[d].active \in 1 .. Len(t)
    BY <2>1, <2>3, <2>5
  <2>7. Books!DataOf(d) \subseteq Books!DataIn(t)
    BY <2>1, <2>3, <2>5
  <2>8. QED
    BY <1>2, <2>5, <2>6, <2>7, NothingTossed, SheetsKeep
<1>3. QED
  BY <1>1, <1>2 DEF Books!MoveTo

LEMMA CopyToKeeps ==
    ASSUME IInv, Books!Goes, NEW d \in Books!Open, NEW i \in DOMAIN docs[d].sheets,
           NEW name, NEW after \in BOOLEAN, Books!CopyTo(d, i, name, after)
    PROVE  IInv'
<1> DEFINE s  == docs[d].sheets
           x  == [s[i] EXCEPT !.name = Books!NewName(d, @)]
           to == Books!Placed(d, name, after)
           t  == Books!Insert(s, to, <<x>>)
<1>1. CASE UNCHANGED <<docs, this, front, clip, files, delim, tossed, astray>>
  BY <1>1, NothingChanged DEF bookVars
<1>2. CASE /\ name \in Books!NamesOf(d)
           /\ Books!PutSheets(d, t, docs[d].active)
           /\ UNCHANGED <<front, clip, files, delim, tossed, astray>>
  <2>1. /\ s \in Seq(Books!SheetRecord) /\ Len(s) \in Nat /\ docs[d].active \in 1 .. Len(s)
        /\ Books!DataOf(d) = Books!DataIn(s) /\ s[i] \in Books!SheetRecord
        /\ s[i].name \in Seq(Nat)
    BY OpenHas
  <2>2. to \in 0 .. Len(s)
    BY <1>2, PlacedIs
  <2>3. x \in Books!SheetRecord
    <3> DEFINE name2 == Books!NewName(d, s[i].name)
    <3>1. name2 \in Seq(Nat)
      BY <2>1, NewNameIs
    <3>2. x = [s[i] EXCEPT !.name = name2]
      OBVIOUS
    <3> HIDE DEF name2, x, s
    <3>3. QED
      BY <2>1, <3>1, <3>2 DEF Books!SheetRecord
  <2> HIDE DEF s, x, to
  <2>4. /\ t \in Seq(Books!SheetRecord) /\ Len(t) = Len(s) + 1
        /\ Books!DataIn(s) \cup x.data \subseteq Books!DataIn(t)
    BY <2>1, <2>2, <2>3, DataInserted
  <2> HIDE DEF t
  <2>5. docs[d].active \in 1 .. Len(t) /\ Books!DataOf(d) \subseteq Books!DataIn(t)
    BY <2>1, <2>4
  <2>6. QED
    BY <1>2, <2>4, <2>5, NothingTossed, SheetsKeep
<1>3. QED
  BY <1>1, <1>2 DEF Books!CopyTo

LEMMA PasteKeeps ==
    ASSUME IInv, Books!Goes, NEW d \in Books!Open, NEW i \in DOMAIN docs[d].sheets,
           Books!Paste(d, i)
    PROVE  IInv'
<1> DEFINE s   == docs[front].sheets
           at  == docs[front].active
           old == s[at].data
<1>1. PICK data \in {clip, clip \cup old} :
        /\ Books!PutSheets(front, [s EXCEPT ![at].data = data], at)
        /\ IF <<d, i>> = <<front, at>> THEN Books!Toss(old)
           ELSE astray' = astray \cup old /\ UNCHANGED tossed
        /\ UNCHANGED <<front, clip, files, delim>>
  BY DEF Books!Paste
<1> DEFINE t == [s EXCEPT ![at].data = data]
<1>2. front \in Books!Open
  BY GoesOn
<1>3. /\ s \in Seq(Books!SheetRecord) /\ Len(s) \in Nat /\ at \in 1 .. Len(s)
      /\ DOMAIN s = 1 .. Len(s) /\ Books!DataOf(front) = Books!DataIn(s)
      /\ \A k \in 1 .. Len(s) : s[k] \in Books!SheetRecord
      /\ old \in SUBSET Books!Contents
  BY <1>2, OpenHas
<1> HIDE DEF s, at
<1>4. data \in SUBSET Books!Contents
  BY <1>1, <1>3, BooksAre
<1>5. /\ t = [k \in 1 .. Len(s) |-> t[k]]
      /\ \A k \in 1 .. Len(s) : t[k] \in Books!SheetRecord /\ (k # at => t[k] = s[k])
  <2>1. \A k \in 1 .. Len(s) : t[k] = IF k = at THEN [s[k] EXCEPT !.data = data] ELSE s[k]
    BY <1>3
  <2>2. [s[at] EXCEPT !.data = data] \in Books!SheetRecord
    BY <1>3, <1>4 DEF Books!SheetRecord
  <2>3. t = [k \in 1 .. Len(s) |-> t[k]]
    BY <1>3
  <2> HIDE DEF t
  <2>4. QED
    BY <1>3, <2>1, <2>2, <2>3
<1> HIDE DEF t
<1>6. t \in Seq(Books!SheetRecord) /\ Len(t) = Len(s) /\ DOMAIN t = 1 .. Len(s)
  BY <1>3, <1>5, IsASeq
<1>7. Books!DataIn(s) \subseteq Books!DataIn(t) \cup old
  <2>1. \A k \in 1 .. Len(s) : s[k].data \subseteq Books!DataIn(t) \cup old
    <3>1. \A k \in 1 .. Len(s) : t[k].data \subseteq Books!DataIn(t)
      BY <1>6, DataHas
    <3>2. QED
      BY <1>5, <3>1
  <2>2. Books!DataIn(s) = UNION {s[k].data : k \in 1 .. Len(s)}
    BY <1>3 DEF Books!DataIn
  <2>3. QED
    BY <2>1, <2>2
<1> HIDE DEF old
<1>8. /\ tossed \subseteq tossed' /\ astray \subseteq astray' /\ old \subseteq tossed' \cup astray'
      /\ Books!StoresOK'
  <2>1. CASE Books!Toss(old)
    BY <1>1, <1>3, <2>1, SomethingTossed
  <2>2. CASE astray' = astray \cup old /\ UNCHANGED tossed
    BY <1>1, <1>3, <2>2, BooksAre DEF Books!StoresOK
  <2>3. QED
    BY <1>1, <2>1, <2>2
<1>9. Books!DataOf(front) \subseteq Books!DataIn(t) \cup tossed' \cup astray'
  BY <1>3, <1>7, <1>8
<1>10. at \in 1 .. Len(t)
  BY <1>3, <1>6
<1>11. QED
  BY <1>1, <1>2, <1>6, <1>8, <1>9, <1>10, SheetsKeep DEF t

-----------------------------------------------------------------------------
(* The calls *)

LEMMA BooksOpenKeeps == ASSUME IInv, Books!BooksOpen PROVE IInv'
<1>1. CASE Books!AddBook
  BY <1>1, AddBookKeeps
<1>2. ASSUME NEW format \in {Books!NoFormat, 1, 5, 6, 7}, NEW own \in Books!Owns,
             NEW r \in BOOLEAN, Books!OpenText(format, own, r)
      PROVE  IInv'
  BY <1>2, OpenTextKeeps
<1>3. ASSUME NEW r \in BOOLEAN, Books!OpenBook("two", r) PROVE IInv'
  BY <1>3, OpenBookKeeps
<1>4. CASE Books!OpenOther
  BY <1>4, RefusedKeeps DEF Books!OpenOther
<1>5. ASSUME NEW url, Books!ActivateBook(url) PROVE IInv'
  BY <1>5, ActivateBookKeeps
<1>6. QED
  BY <1>1, <1>2, <1>3, <1>4, <1>5 DEF Books!BooksOpen

LEMMA BooksCloseKeeps == ASSUME IInv, Books!Goes, Books!BooksClose PROVE IInv'
<1>1. CASE Books!CloseCurrent
  BY <1>1, CloseCurrentKeeps
<1>2. ASSUME NEW d \in Books!Open, Books!Save(d) PROVE IInv'
  BY <1>2, SaveKeeps
<1>3. ASSUME NEW d \in Books!Open, Books!CloseUnsaved(d) PROVE IInv'
  BY <1>3, CloseUnsavedKeeps
<1>4. ASSUME NEW d \in Books!Open, NEW f \in {"two", "new"}, Books!SaveCopyAs(d, f) PROVE IInv'
  BY <1>4, SaveCopyAsKeeps
<1>5. ASSUME NEW d \in Books!Open, NEW f \in {"", "new"}, Books!CloseSaved(d, f) PROVE IInv'
  BY <1>5, CloseSavedKeeps
<1>6. ASSUME NEW d \in Books!Open, NEW b \in BOOLEAN, Books!SetSaved(d, b) PROVE IInv'
  BY <1>6, SetSavedKeeps
<1>7. ASSUME NEW d \in Books!Open, Books!Protect(d) \/ Books!Unprotect(d) PROVE IInv'
  <2>1. CASE Books!Lock(d, TRUE)
    BY <2>1, LockKeeps
  <2>2. CASE Books!Lock(d, FALSE)
    BY <2>2, LockKeeps
  <2>3. QED
    BY <1>7, <2>1, <2>2 DEF Books!Protect, Books!Unprotect
<1>8. QED
  BY <1>1, <1>2, <1>3, <1>4, <1>5, <1>6, <1>7 DEF Books!BooksClose

LEMMA BooksSheetsKeeps == ASSUME IInv, Books!Goes, Books!BooksSheets PROVE IInv'
<1>1. ASSUME NEW d \in Books!Open, NEW name, NEW after \in BOOLEAN, Books!AddSheet(d, name, after)
      PROVE  IInv'
  BY <1>1, AddSheetKeeps
<1>2. ASSUME NEW d \in Books!Open, Books!DeleteSheets(d) PROVE IInv'
  BY <1>2, DeleteSheetsKeeps
<1>3. ASSUME NEW d \in Books!Open, NEW i \in DOMAIN docs[d].sheets,
             \/ Books!DeleteSheet(d, i) \/ Books!ActivateSheet(d, i) \/ Books!Paste(d, i)
      PROVE  IInv'
  BY <1>3, DeleteSheetKeeps, ActivateSheetKeeps, PasteKeeps
<1>4. ASSUME NEW d \in Books!Open, NEW i \in DOMAIN docs[d].sheets,
             NEW name \in Seq(Nat), Books!SetName(d, i, name)
      PROVE  IInv'
  BY <1>4, SetNameKeeps
<1>5. ASSUME NEW d \in Books!Open, NEW i \in DOMAIN docs[d].sheets,
             Books!MoveToNew(d, i) \/ Books!CopyToNew(d, i)
      PROVE  IInv'
  BY <1>5, MoveToNewKeeps, CopyToNewKeeps
<1>6. ASSUME NEW d \in Books!Open, NEW i \in DOMAIN docs[d].sheets, NEW name,
             NEW after \in BOOLEAN,
             Books!MoveTo(d, i, name, after) \/ Books!CopyTo(d, i, name, after)
      PROVE  IInv'
  BY <1>6, MoveToKeeps, CopyToKeeps
<1>7. <<3>> \in Seq(Nat)
  OBVIOUS
<1>8. QED
  BY <1>1, <1>2, <1>3, <1>4, <1>5, <1>6, <1>7 DEF Books!BooksSheets

LEMMA MacroStarts == Init => IInv
<1> SUFFICES ASSUME Init PROVE IInv
  OBVIOUS
<1> USE DEF Books!NoDoc
<1> DEFINE s1 == Books!Sheet(<<1>>, {"a"})
           s2 == Books!Sheet(<<2>>, {"b"})
           s3 == Books!Sheet(<<1>>, {"c"})
           d1 == <<s1, s2>>
           d2 == <<s3>>
           e1 == Books!Doc(d1, "one")
           e2 == Books!Doc(d2, "")
<1>1. PICK r \in BOOLEAN :
        docs = <<[e1 EXCEPT !.saved = FALSE, !.readonly = r], [e2 EXCEPT !.saved = FALSE]>>
  BY DEF Init, Books!BooksInit
<1>2. /\ this \in {1, 0} /\ front \in {1, 2} /\ clip = {} /\ delim = "comma"
      /\ tossed = {} /\ astray = {}
      /\ files = [one |-> {}, two |-> {"d"}, text |-> {"e"}, new |-> {}]
  BY DEF Init, Books!BooksInit
<1>3. /\ s1 \in Books!SheetRecord /\ s2 \in Books!SheetRecord /\ s3 \in Books!SheetRecord
      /\ s1.data = {"a"} /\ s2.data = {"b"} /\ s3.data = {"c"}
  <2>1. <<1>> \in Seq(Nat) /\ <<2>> \in Seq(Nat)
    OBVIOUS
  <2>2. {"a"} \in SUBSET Books!Contents /\ {"b"} \in SUBSET Books!Contents
        /\ {"c"} \in SUBSET Books!Contents
    BY DEF Books!Contents
  <2>3. QED
    BY <2>1, <2>2, SheetIs
<1> HIDE DEF s1, s2, s3
<1>4. /\ d1 \in Seq(Books!SheetRecord) /\ Len(d1) = 2 /\ d1[1] = s1 /\ d1[2] = s2
      /\ d2 \in Seq(Books!SheetRecord) /\ Len(d2) = 1 /\ d2[1] = s3
  BY <1>3
<1> HIDE DEF d1, d2
<1>5. "one" \in Books!Urls /\ "" \in Books!Urls
  BY DEF Books!Urls
<1>6. Books!IsDoc(e1) /\ e1.sheets = d1 /\ Books!IsDoc(e2) /\ e2.sheets = d2
  <2>1. Len(d1) \in Nat \ {0} /\ Len(d2) \in Nat \ {0}
    BY <1>4
  <2>2. QED
    BY <1>4, <1>5, <2>1, NewDocIs
<1> HIDE DEF e1, e2
<1> DEFINE f1 == [e1 EXCEPT !.saved = FALSE, !.readonly = r]
           f2 == [e2 EXCEPT !.saved = FALSE]
           g1 == [e1 EXCEPT !.saved = FALSE]
<1>7. Books!IsDoc(g1) /\ g1.sheets = d1 /\ Books!IsDoc(f2) /\ f2.sheets = d2
  <2>1. Len(e1.sheets) = 2 /\ Len(e2.sheets) = 1
    BY <1>4, <1>6
  <2>2. 1 \in 1 .. Len(e1.sheets) /\ 1 \in 1 .. Len(e2.sheets)
    BY <2>1
  <2>3. QED
    BY <1>5, <1>6, <2>2, DocMarked
<1>8. f1 = [g1 EXCEPT !.readonly = r]
  <2>1. DOMAIN e1 = {"sheets", "active", "url", "saved", "readonly", "locked"}
    <3>1. e1 = [sheets |-> e1.sheets, active |-> e1.active, url |-> e1.url,
                saved |-> e1.saved, readonly |-> e1.readonly, locked |-> e1.locked]
      BY <1>6, DocHas
    <3>2. QED
      BY <3>1
  <2>2. QED
    BY <2>1
<1> HIDE DEF g1
<1>9. Books!IsDoc(f1) /\ f1.sheets = d1
  <2>1. Len(g1.sheets) = 2
    BY <1>4, <1>7
  <2>2. 1 \in 1 .. Len(g1.sheets)
    BY <2>1
  <2>3. /\ Books!IsDoc([g1 EXCEPT !.readonly = r])
        /\ [g1 EXCEPT !.readonly = r].sheets = g1.sheets
    BY <1>5, <1>7, <2>2, DocMarked
  <2>4. QED
    BY <1>7, <1>8, <2>3
<1> HIDE DEF f1, f2
<1>10. Books!Open = {1, 2} /\ docs = [k \in Books!Open |-> docs[k]] /\ docs[1] = f1 /\ docs[2] = f2
  <2>1. docs = <<f1, f2>>
    BY <1>1 DEF f1, f2
  <2>2. QED
    BY <2>1 DEF Books!Open
<1>11. Books!DocsOK
  <2>1. {1, 2} \subseteq 1 .. MaxDocs
    BY BooksAssumption
  <2>2. QED
    BY <1>2, <1>7, <1>9, <1>10, <2>1 DEF Books!DocsOK
<1>12. Books!StoresOK
  <2>1. files \in [Books!Urls \ {""} -> SUBSET Books!Contents]
    <3>1. Books!Urls \ {""} = {"one", "two", "text", "new"}
      BY DEF Books!Urls
    <3>2. DOMAIN files = {"one", "two", "text", "new"} /\ files = [f \in DOMAIN files |-> files[f]]
      BY <1>2
    <3>3. /\ files["one"] \in SUBSET Books!Contents /\ files["two"] \in SUBSET Books!Contents
          /\ files["text"] \in SUBSET Books!Contents /\ files["new"] \in SUBSET Books!Contents
      BY <1>2 DEF Books!Contents
    <3>4. QED
      BY <3>1, <3>2, <3>3
  <2>2. QED
    BY <1>2, <2>1 DEF Books!StoresOK
<1>13. /\ Books!DataOf(1) \subseteq Books!Kept /\ Books!DataOf(2) \subseteq Books!Kept
       /\ \A f \in DOMAIN files : files[f] \subseteq Books!Kept
  BY <1>10 DEF Books!Kept
<1>14. "a" \in Books!DataOf(1) /\ "b" \in Books!DataOf(1) /\ "c" \in Books!DataOf(2)
  <2>1. Books!DataOf(1) = Books!DataIn(d1) /\ Books!DataOf(2) = Books!DataIn(d2)
    BY <1>7, <1>9, <1>10 DEF Books!DataOf
  <2>2. /\ \A k \in 1 .. 2 : d1[k].data \subseteq Books!DataIn(d1)
        /\ \A k \in 1 .. 1 : d2[k].data \subseteq Books!DataIn(d2)
    BY <1>4, DataHas
  <2>3. 1 \in 1 .. 2 /\ 2 \in 1 .. 2 /\ 1 \in 1 .. 1
    OBVIOUS
  <2>4. QED
    BY <1>3, <1>4, <2>1, <2>2, <2>3
<1>15. "two" \in DOMAIN files /\ "text" \in DOMAIN files /\ "d" \in files["two"] /\ "e" \in files["text"]
  BY <1>2
<1>16. NothingIsLost
  BY <1>13, <1>14, <1>15 DEF NothingIsLost, Books!Contents
<1>17. QED
  BY <1>11, <1>12, <1>16 DEF IInv, Books!BooksOK

\* The documents, the sheets and the files of a macro are what its calls take them
\* for, whatever it calls: vbaworkbook.cxx, vbaworksheet.cxx and what throws in them.
THEOREM BooksInvariant == Spec => []IInv
<1>1. Init => IInv
  BY MacroStarts
<1>2. IInv /\ [Next]_vars => IInv'
  <2> SUFFICES ASSUME IInv, [Next]_vars PROVE IInv'
    OBVIOUS
  <2>1. CASE BooksStep
    BY <2>1, BooksOpenKeeps, BooksCloseKeeps, BooksSheetsKeeps DEF BooksStep, Books!BooksCall
  <2>2. CASE FormatStep
    BY <2>2, NothingChanged DEF FormatStep
  <2>3. CASE ChartStep
    BY <2>3, NothingChanged DEF ChartStep
  <2>4. CASE WindowStep
    BY <2>4, NothingChanged DEF WindowStep
  <2>5. CASE ShapesStep
    BY <2>5, NothingChanged DEF ShapesStep
  <2>6. CASE ControlsStep
    BY <2>6, NothingChanged DEF ControlsStep
  <2>7. CASE UNCHANGED vars
    BY <2>7, NothingChanged DEF vars
  <2>8. QED
    BY <2>1, <2>2, <2>3, <2>4, <2>5, <2>6, <2>7 DEF Next
<1>3. QED
  BY <1>1, <1>2, PTL DEF Spec

\* The contents of every sheet and every file are in an open document or in a file,
\* unless the macro has done away with them or they are counted as astray, through
\* the calls of vbaworkbook.cxx and vbaworksheet.cxx in any order.
THEOREM ContentsAreKept == Spec => []NothingIsLost
<1>1. IInv => NothingIsLost
  BY DEF IInv
<1>2. QED
  BY <1>1, BooksInvariant, PTL

-----------------------------------------------------------------------------
(* Where a macro starts *)

LEMMA FormatStarts == Format!FormatInit => Format!FormatOK
<1> SUFFICES ASSUME Format!FormatInit PROVE Format!FormatOK
  OBVIOUS
<1>1. DOMAIN fmt = DOMAIN Format!Formats
  BY DEF Format!FormatInit
<1>2. fmt.protection \in Format!Protection
  BY DEF Format!FormatInit, Format!Formats, Format!Protection, Format!Protected, Format!OnOff
<1>3. DOMAIN border = Format!Lines /\ \A l \in Format!Lines : DOMAIN border[l] = {"color", "width"}
  BY DEF Format!FormatInit, Format!NoLine
<1>4. DOMAIN valid = DOMAIN Format!NoValidation /\ valid.input = "on"
  BY DEF Format!FormatInit, Format!NoValidation
<1>5. QED
  BY <1>1, <1>2, <1>3, <1>4 DEF Format!FormatOK

LEMMA WindowStarts == Window!WindowInit => Window!WindowOK
<1> SUFFICES ASSUME Window!WindowInit PROVE Window!WindowOK
  OBVIOUS
<1> DEFINE none == ""
<1>1. /\ view = [v \in Window!Views |-> "on"]
      /\ split = [mode |-> "none", column |-> 0, row |-> 0]
      /\ first = [row |-> 0, column |-> 0]
      /\ frame = [title |-> "book", suffix |-> TRUE, state |-> "normal", visible |-> "on",
                  breaks |-> FALSE, zoom |-> "width",
                  rect |-> [left |-> 0, top |-> 0, width |-> 800, height |-> 600]]
      /\ office = [locks |-> 0, bar |-> "on", text |-> none, automatic |-> "on",
                   pointer |-> "default", path |-> "home", formulaBar |-> "on",
                   shown |-> "on"]
  BY Zenon DEF Window!WindowInit
<1> HIDE DEF none
<1>2. view \in [Window!Views -> Window!OnOff]
  BY <1>1 DEF Window!OnOff
<1>3. split \in [mode : {"none", "split", "frozen"}, column : Nat, row : Nat]
  BY <1>1
<1>4. first \in [row : Nat, column : Nat] /\ Window!InSheet(first)
  BY <1>1 DEF Window!InSheet, Window!MaxRow, Window!MaxColumn
<1>5. [left |-> 0, top |-> 0, width |-> 800, height |-> 600] \in [Window!Rect -> Int]
  BY DEF Window!Rect
<1>6. frame \in [title : {"book", "mine"}, suffix : BOOLEAN,
                 state : {"maximized", "minimized", "normal"}, visible : Window!OnOff,
                 breaks : BOOLEAN, zoom : {"width", "50"}, rect : [Window!Rect -> Int]]
  BY <1>1, <1>5 DEF Window!OnOff
<1>7. /\ DOMAIN office = {"locks", "bar", "text", "automatic", "pointer", "path",
                          "formulaBar", "shown"}
      /\ office.locks \in Nat /\ office.formulaBar \in Window!OnOff
  BY <1>1 DEF Window!OnOff
<1>8. split.mode = "none"
  BY <1>1
<1>9. QED
  BY <1>2, <1>3, <1>4, <1>6, <1>7, <1>8 DEF Window!WindowOK

LEMMA ShapesStarts == Shapes!ShapesInit => Shapes!ShapesOK
<1> SUFFICES ASSUME Shapes!ShapesInit PROVE Shapes!ShapesOK
  OBVIOUS
<1> DEFINE at == [l \in Shapes!Lengths \cup Shapes!Margins |-> 1411]
           gradient == [start |-> "black", end |-> "white", angle |-> 0]
<1>0. shape = [at |-> at, angle |-> 0, grow |-> "off", luminance |-> 0, contrast |-> 0,
               lineStyle |-> "solid", dash |-> "dash", weight |-> 0, lineColor |-> "black",
               lineClear |-> 0, arrow |-> "msArrowEnd 5", fillStyle |-> "solid",
               fillColor |-> "white", fillClear |-> 0, gradient |-> gradient]
  BY Zenon DEF Shapes!ShapesInit
<1>1. at \in [Shapes!Lengths \cup Shapes!Margins -> Int]
  OBVIOUS
<1> HIDE DEF at, gradient
<1>6. DOMAIN shape = {"at", "angle", "grow", "luminance", "contrast", "lineStyle", "dash",
                      "weight", "lineColor", "lineClear", "arrow", "fillStyle",
                      "fillColor", "fillClear", "gradient"}
  BY <1>0
<1>7. shape.at = at
  BY <1>0
<1>8. shape.angle = 0 /\ shape.luminance = 0 /\ shape.contrast = 0
  BY <1>0, Zenon
<1>9. shape.lineStyle \in {"none", "solid", "dash"}
  BY <1>0
<1>2. /\ DOMAIN pen = {"dash", "weight"}
      /\ DOMAIN brush = {"style", "angle", "color", "back"}
      /\ brush.style \in {"solid", "gradient"} /\ brush.color \in {"none", "fore", "back"}
  BY DEF Shapes!ShapesInit, Shapes!NewPen, Shapes!NewBrush
<1>3. page = <<"box", "rest">> /\ DOMAIN kinds = {"box", "rest"}
  BY DEF Shapes!ShapesInit
<1>4. page \in Seq(DOMAIN kinds) /\ \A i, k \in DOMAIN page : page[i] = page[k] => i = k
  BY <1>3
<1>5. QED
  BY <1>1, <1>2, <1>3, <1>4, <1>6, <1>7, <1>8, <1>9 DEF Shapes!ShapesOK

LEMMA ControlsStarts == Controls!ControlsInit => Controls!ControlsOK
<1> SUFFICES ASSUME Controls!ControlsInit PROVE Controls!ControlsOK
  OBVIOUS
<1> DEFINE none == ""
<1>1. /\ control = [at |-> [l \in Controls!Sides |-> 10], enabled |-> "on", live |-> "on",
                    visible |-> "on", text |-> none, max |-> 0, lines |-> "off",
                    label |-> none, state |-> 0, many |-> "off", combo |-> none]
      /\ items = <<"a", "b">> /\ picks = <<>> /\ index \in {0, 1}
  BY Zenon DEF Controls!ControlsInit
<1> HIDE DEF none
<1>2. /\ DOMAIN control = {"at", "enabled", "live", "visible", "text", "max", "lines",
                           "label", "state", "many", "combo"}
      /\ control.at \in [Controls!Sides -> Int] /\ control.many \in Controls!OnOff
      /\ items \in Seq({"a", "b", "c"}) /\ picks \in Seq(Nat)
  BY <1>1 DEF Controls!OnOff
<1>3. /\ names \in [one : Controls!Sheets \cup {Controls!NoSheet},
                    two : Controls!Sheets \cup {Controls!NoSheet}]
      /\ sheet \in Controls!Sheets
  BY DEF Controls!ControlsInit, Controls!Sheets, Controls!NoSheet
<1>4. DOMAIN comment = {"there", "visible", "text"}
  BY DEF Controls!ControlsInit
<1>5. QED
  BY <1>1, <1>2, <1>3, <1>4 DEF Controls!ControlsOK

LEMMA ChartStarts == Chart!ChartInit => Chart!ChartOK
<1> SUFFICES ASSUME Chart!ChartInit PROVE Chart!ChartOK
  OBVIOUS
<1>1. source \in [rows : {"rows", "columns"}, rowHeads : BOOLEAN, colHeads : BOOLEAN]
  BY DEF Chart!ChartInit
<1>2. DOMAIN titles = Chart!Titles /\ \A t \in Chart!Titles : DOMAIN titles[t] = {"text", "angle"}
  BY DEF Chart!ChartInit
<1>3. scales \in [Chart!Scales -> [origin : Int, min : Int, max : Int, minor : Int,
                                   major : Int, log : BOOLEAN]]
  <2>1. Chart!AutoScale \in [origin : Int, min : Int, max : Int, minor : Int,
                             major : Int, log : BOOLEAN]
    BY DEF Chart!AutoScale, Chart!Auto
  <2>2. scales = [s \in Chart!Scales |-> Chart!AutoScale]
    BY DEF Chart!ChartInit
  <2>3. QED
    BY <2>1, <2>2
<1>4. axis = Chart!NoAxis
  BY DEF Chart!ChartInit
<1> DEFINE one == Chart!Own
           two == [Chart!Own EXCEPT !.sheet = "s2", !.persist = 2]
<1>5. charts = {one} \/ charts = {one, two}
  BY DEF Chart!ChartInit
<1>6. /\ one \in [sheet : {"s1", "s2"}, persist : Nat, name : {"persist", "mine"}]
      /\ two \in [sheet : {"s1", "s2"}, persist : Nat, name : {"persist", "mine"}]
      /\ one.persist = 1 /\ two.persist = 2
  BY DEF Chart!Own
<1> HIDE DEF one, two
<1>7. Chart!IsFiniteSet(charts)
  <2>1. IsFiniteSet({one}) /\ IsFiniteSet({one, two})
    BY FS_Singleton, FS_AddElement, FS_EmptySet
  <2>2. QED
    BY <1>5, <2>1, FiniteIs
<1>8. /\ \A c \in charts : c \in [sheet : {"s1", "s2"}, persist : Nat, name : {"persist", "mine"}]
      /\ \A c, d \in charts : c.persist = d.persist => c = d
  BY <1>5, <1>6
<1>9. QED
  BY <1>1, <1>2, <1>3, <1>4, <1>7, <1>8 DEF Chart!ChartOK
-----------------------------------------------------------------------------
(* What a macro has set reads as it was set *)

ReadsFine == ObjectsOK /\ SetIsRead

\* A macro keeps to one kind of object: what ReadsFine says of each.
FineOfKind ==
    /\ works = "format" => (ReadsFine <=> FormatFine)
    /\ works = "chart" => (ReadsFine <=> ChartFine)
    /\ works = "books" => (ReadsFine <=> asked = {})
    /\ works = "window" => (ReadsFine <=> WindowFine)
    /\ works = "shapes" => (ReadsFine <=> ShapesFine)
    /\ works = "controls" => (ReadsFine <=> ControlsFine)

LEMMA FineIs == FineOfKind
<1>1. ASSUME works = "format" PROVE ReadsFine <=> FormatFine
  <2>1. \A a : (LosesIt(a) <=> Format!FormatLoses(a)) /\ ReadsOf(a.what) = Format!FormatRead(a.what)
    BY <1>1 DEF LosesIt, ReadsOf
  <2>2. QED
    BY <1>1, <2>1 DEF ReadsFine, ObjectsOK, SetIsRead, FormatFine, Kinds
<1>2. ASSUME works = "chart" PROVE ReadsFine <=> ChartFine
  <2>1. \A a : (LosesIt(a) <=> Chart!ChartLoses(a)) /\ ReadsOf(a.what) = Chart!ChartRead(a.what)
    BY <1>2 DEF LosesIt, ReadsOf
  <2>2. QED
    BY <1>2, <2>1 DEF ReadsFine, ObjectsOK, SetIsRead, ChartFine, Kinds
<1>3. ASSUME works = "books" PROVE ReadsFine <=> asked = {}
  BY <1>3 DEF ReadsFine, ObjectsOK, SetIsRead, Kinds
<1>4. ASSUME works = "window" PROVE ReadsFine <=> WindowFine
  <2>1. \A a : (LosesIt(a) <=> Window!WindowLoses(a)) /\ ReadsOf(a.what) = Window!WindowRead(a.what)
    BY <1>4 DEF LosesIt, ReadsOf
  <2>2. QED
    BY <1>4, <2>1 DEF ReadsFine, ObjectsOK, SetIsRead, WindowFine, Kinds
<1>5. ASSUME works = "shapes" PROVE ReadsFine <=> ShapesFine
  <2>1. \A a : (LosesIt(a) <=> Shapes!ShapesLoses(a)) /\ ReadsOf(a.what) = Shapes!ShapesRead(a.what)
    BY <1>5 DEF LosesIt, ReadsOf
  <2>2. QED
    BY <1>5, <2>1 DEF ReadsFine, ObjectsOK, SetIsRead, ShapesFine, Kinds
<1>6. ASSUME works = "controls" PROVE ReadsFine <=> ControlsFine
  <2>1. \A a : (LosesIt(a) <=> Controls!ControlsLoses(a)) /\ ReadsOf(a.what)
          = Controls!ControlsRead(a.what)
    BY <1>6 DEF LosesIt, ReadsOf
  <2>2. QED
    BY <1>6, <2>1 DEF ReadsFine, ObjectsOK, SetIsRead, ControlsFine, Kinds
<1>7. QED
  BY <1>1, <1>2, <1>3, <1>4, <1>5, <1>6 DEF FineOfKind

LEMMA FineIsNext == FineOfKind'
BY FineIs, PTL

\* A call on the documents sets nothing that is read back.
LEMMA BooksEnd ==
    /\ Books!Answers => asked' = asked
    /\ Books!Throws => asked' = asked
    /\ Books!Refused => asked' = asked
    /\ Books!Escapes => asked' = asked
BY DEF Books!Answers, Books!Throws, Books!Refused, Books!Escapes

LEMMA OpensAskNothing == ASSUME Books!BooksOpen PROVE asked' = asked
<1>1. ASSUME Books!AddBook PROVE asked' = asked
  BY <1>1, BooksEnd DEF Books!AddBook
<1>2. ASSUME NEW format, NEW own, NEW r, Books!OpenText(format, own, r) PROVE asked' = asked
  BY <1>2, BooksEnd DEF Books!OpenText
<1>3. ASSUME NEW url, NEW r, Books!OpenBook(url, r) PROVE asked' = asked
  BY <1>3, BooksEnd DEF Books!OpenBook
<1>4. ASSUME Books!OpenOther PROVE asked' = asked
  BY <1>4, BooksEnd DEF Books!OpenOther
<1>5. ASSUME NEW url, Books!ActivateBook(url) PROVE asked' = asked
  BY <1>5, BooksEnd DEF Books!ActivateBook
<1>6. QED
  BY <1>1, <1>2, <1>3, <1>4, <1>5 DEF Books!BooksOpen

LEMMA ClosesAskNothing == ASSUME Books!BooksClose PROVE asked' = asked
<1>1. ASSUME NEW d, NEW f, Books!SaveCopyAs(d, f) PROVE asked' = asked
  BY <1>1, BooksEnd DEF Books!SaveCopyAs
<1>2. ASSUME NEW d, NEW f, Books!CloseSaved(d, f) PROVE asked' = asked
  BY <1>2, BooksEnd DEF Books!CloseSaved
<1>3. ASSUME NEW d, Books!CloseUnsaved(d) PROVE asked' = asked
  BY <1>3, BooksEnd DEF Books!CloseUnsaved
<1>4. ASSUME NEW d, NEW b, Books!SetSaved(d, b) PROVE asked' = asked
  BY <1>4, BooksEnd DEF Books!SetSaved
<1>5. ASSUME NEW d, NEW b, Books!Lock(d, b) PROVE asked' = asked
  BY <1>5, BooksEnd DEF Books!Lock
<1>6. ASSUME NEW d, Books!Protect(d) \/ Books!Unprotect(d) PROVE asked' = asked
  BY <1>5, <1>6, Zenon DEF Books!Protect, Books!Unprotect
<1>7. QED
  BY <1>1, <1>2, <1>3, <1>4, <1>6, BooksEnd DEF Books!BooksClose

LEMMA SheetsAskNothing == ASSUME Books!BooksSheets PROVE asked' = asked
<1>1. ASSUME NEW d, NEW name, NEW after, Books!AddSheet(d, name, after) PROVE asked' = asked
  BY <1>1, BooksEnd DEF Books!AddSheet
<1>2. ASSUME NEW d, Books!DeleteSheets(d) PROVE asked' = asked
  BY <1>2, BooksEnd DEF Books!DeleteSheets
<1>3. ASSUME NEW d, NEW i, Books!DeleteSheet(d, i) PROVE asked' = asked
  BY <1>3, BooksEnd DEF Books!DeleteSheet
<1>4. ASSUME NEW d, NEW i, Books!ActivateSheet(d, i) PROVE asked' = asked
  BY <1>4, BooksEnd DEF Books!ActivateSheet
<1>5. ASSUME NEW d, NEW i, Books!Paste(d, i) PROVE asked' = asked
  BY <1>5, BooksEnd DEF Books!Paste
<1>6. ASSUME NEW d, NEW i, NEW name, Books!SetName(d, i, name) PROVE asked' = asked
  BY <1>6, BooksEnd DEF Books!SetName
<1>7. ASSUME NEW d, NEW i, Books!MoveToNew(d, i) PROVE asked' = asked
  BY <1>7, BooksEnd DEF Books!MoveToNew, Books!NotOpened
<1>8. ASSUME NEW d, NEW i, Books!CopyToNew(d, i) PROVE asked' = asked
  BY <1>8, BooksEnd DEF Books!CopyToNew, Books!NotOpened
<1>9. ASSUME NEW d, NEW i, NEW name, NEW after, Books!MoveTo(d, i, name, after)
      PROVE  asked' = asked
  BY <1>9, BooksEnd DEF Books!MoveTo
<1>10. ASSUME NEW d, NEW i, NEW name, NEW after, Books!CopyTo(d, i, name, after)
       PROVE  asked' = asked
  BY <1>10, BooksEnd DEF Books!CopyTo
<1>11. QED
  BY <1>1, <1>2, <1>3, <1>4, <1>5, <1>6, <1>7, <1>8, <1>9, <1>10 DEF Books!BooksSheets

\* The step of each kind of object.
LEMMA ReadsStay == ASSUME ReadsFine, UNCHANGED vars PROVE ReadsFine'
<1>1. /\ works' = works /\ asked' = asked
      /\ UNCHANGED <<formatVars, chartVars, windowVars, shapeVars, controlVars>>
  BY DEF vars, callVars
<1>2. ASSUME FormatFine PROVE FormatFine'
  BY <1>1, <1>2, FormatRefused
<1>3. ASSUME ChartFine PROVE ChartFine'
  BY <1>1, <1>3, ChartRefused DEF chartVars, Chart!chartVars
<1>4. ASSUME WindowFine PROVE WindowFine'
  BY <1>1, <1>4, WindowRefused
<1>5. ASSUME ShapesFine PROVE ShapesFine'
  BY <1>1, <1>5, ShapeIs, ShapesRefused DEF shapeVars, ShapesFine
<1>6. ASSUME ControlsFine PROVE ControlsFine'
  BY <1>1, <1>6, ControlsRefused
<1>7. works \in Kinds
  BY DEF ReadsFine, ObjectsOK
<1>8. QED
  BY <1>1, <1>2, <1>3, <1>4, <1>5, <1>6, <1>7, FineIs, FineIsNext DEF FineOfKind, Kinds

LEMMA ReadsStep == ASSUME ReadsFine, Next PROVE ReadsFine'
<1> USE FineIs, FineIsNext DEF FineOfKind
<1>1. CASE FormatStep
  <2>1. works = "format" /\ works' = "format"
    BY <1>1 DEF FormatStep
  <2>2. FormatFine'
    BY <1>1, <2>1, FormatCallKeeps DEF FormatStep
  <2>3. QED
    BY <2>1, <2>2
<1>2. CASE ChartStep
  <2>1. works = "chart" /\ works' = "chart"
    BY <1>2 DEF ChartStep
  <2>2. ChartFine'
    BY <1>2, <2>1, ChartCallKeeps DEF ChartStep
  <2>3. QED
    BY <2>1, <2>2
<1>3. CASE BooksStep
  <2>1. works = "books" /\ works' = "books"
    BY <1>3 DEF BooksStep
  <2>2. asked' = asked
    BY <1>3, OpensAskNothing, ClosesAskNothing, SheetsAskNothing DEF BooksStep, Books!BooksCall
  <2>3. QED
    BY <2>1, <2>2
<1>4. CASE WindowStep
  <2>1. works = "window" /\ works' = "window"
    BY <1>4 DEF WindowStep
  <2>2. WindowFine'
    BY <1>4, <2>1, WindowCallKeeps DEF WindowStep
  <2>3. QED
    BY <2>1, <2>2
<1>5. CASE ShapesStep
  <2>1. works = "shapes" /\ works' = "shapes"
    BY <1>5 DEF ShapesStep
  <2>2. ShapesFine'
    BY <1>5, <2>1, ShapesCallKeeps DEF ShapesStep
  <2>3. QED
    BY <2>1, <2>2
<1>6. CASE ControlsStep
  <2>1. works = "controls" /\ works' = "controls"
    BY <1>6 DEF ControlsStep
  <2>2. ControlsFine'
    BY <1>6, <2>1, ControlsCallKeeps DEF ControlsStep
  <2>3. QED
    BY <2>1, <2>2
<1>7. QED
  BY <1>1, <1>2, <1>3, <1>4, <1>5, <1>6 DEF Next

LEMMA ReadsStart == Init => ReadsFine
<1> SUFFICES ASSUME Init PROVE ReadsFine
  OBVIOUS
<1>1. asked = {} /\ works \in Kinds
  BY DEF Init, CallsInit
<1>2. Format!FormatOK
  BY FormatStarts DEF Init
<1>3. Chart!ChartOK
  BY ChartStarts DEF Init
<1>4. Window!WindowOK
  BY WindowStarts DEF Init
<1>5. Shapes!ShapesOK
  BY ShapesStarts DEF Init
<1>6. Controls!ControlsOK
  BY ControlsStarts DEF Init
<1>7. QED
  BY <1>1, <1>2, <1>3, <1>4, <1>5, <1>6
  DEF ReadsFine, ObjectsOK, SetIsRead, Format!FormatAsked, Chart!ChartAsked,
      Window!WindowAsked, Shapes!ShapesAsked, Controls!ControlsAsked

LEMMA ReadsHold == Spec => []ReadsFine
<1>1. ASSUME ReadsFine, [Next]_vars PROVE ReadsFine'
  BY <1>1, ReadsStay, ReadsStep
<1>2. QED
  BY <1>1, ReadsStart, PTL DEF Spec

\* The objects of a macro are such as the setters of scratch/sc-vba leave them, and
\* what it has set is of what it works on.
THEOREM ObjectsInvariant == Spec => []ObjectsOK
<1>1. ReadsFine => ObjectsOK
  BY DEF ReadsFine
<1>2. QED
  BY <1>1, ReadsHold, PTL

\* What a macro of any length has set of a format, a chart, the window, the shapes or
\* the controls reads as it was set, but for the losses that LosesIt names.
THEOREM SetStaysRead == Spec => []SetIsRead
<1>1. ReadsFine => SetIsRead
  BY DEF ReadsFine
<1>2. QED
  BY <1>1, ReadsHold, PTL
=============================================================================
