------------------------ MODULE BonoboControlProofs ------------------------
(***************************************************************************)
(* Wired, AskedIsShown and PoliteIsServed are invariants of BonoboControl, *)
(* for every set of controls and documents and every number of tries, and  *)
(* every step keeps ZoomIsReported.                                        *)
(***************************************************************************)
EXTENDS BonoboControl, TLAPS

(***************************************************************************)
(* The inductive invariant, control by control.                            *)
(***************************************************************************)

\* What Wired and AskedIsShown say of one control, and that a control which was
\* told to load, and has no frame yet, has not forgotten it.
ControlOK(r, up) ==
    /\ ~r.made => r = Gone
    /\ r.conn => up
    /\ r.realized => r.shown /\ r.frame /\ ~r.pending
    /\ r.realized => r.forgot \/ r.refused \/ r.doc = r.uri
    /\ r.doc # NoUri => r.frame /\ r.doc \in Loadable
    /\ r.view # "none" => r.frame
    /\ r.view = "current" => r.doc # NoUri
    /\ ~r.frame /\ r.uri # NoUri => r.pending

\* What holds besides of a control whose container is polite and whose office lives.
PoliteOK(r) ==
    r.made => /\ r.conn
              /\ r.uri \in Loadable \cup {NoUri}
              /\ r.shown => r.uri # NoUri
              /\ r.frame => r.realized
              /\ r.realized => r.doc # NoUri
              /\ r.view # "stale"

FactoryOK ==
    /\ factory = "down" => \A c \in Controls : ~ctl[c].made
    /\ request = NoControl <=> factory \in {"down", "loop"}
    /\ request # NoControl => ~ctl[request].made
    /\ tries > 0 => factory = "connect"

IInv ==
    /\ TypeOK
    /\ FactoryOK
    /\ \A c \in Controls : ControlOK(ctl[c], office = "up")
    /\ polite /\ ~died => \A c \in Controls : PoliteOK(ctl[c])
    /\ PoliteIsServed

\* What the invariant says of the properties.
LEMMA IInvImplies == IInv => Wired /\ AskedIsShown
  BY DEF IInv, FactoryOK, ControlOK, Wired, AskedIsShown

(***************************************************************************)
(* How a step changes a control.                                           *)
(***************************************************************************)
LEMMA GoneIsControl ==
    /\ Gone \in Control
    /\ \A up \in BOOLEAN : ControlOK(Gone, up)
    /\ PoliteOK(Gone)
  BY DEF Gone, Control, ControlOK, PoliteOK

LEMMA NewIsOK ==
    ASSUME NEW p \in BOOLEAN
    PROVE  /\ NewControl(p) \in Control
           /\ NewControl(p).made
           /\ ControlOK(NewControl(p), TRUE)
           /\ PoliteOK(NewControl(p))
  <1>1. /\ NewControl(p) \in Control
        /\ NewControl(p).made
    BY DEF NewControl, Gone, Control
  <1>2. ControlOK(NewControl(p), TRUE)
    BY DEF NewControl, Gone, ControlOK
  <1>3. PoliteOK(NewControl(p))
    BY DEF NewControl, Gone, PoliteOK
  <1> QED BY <1>1, <1>2, <1>3

\* The process ends, for a reason that its containers may blame the office for.
LEMMA DownKeeps ==
    ASSUME IInv,
           NEW reason \in {"assert", "null", "lost", "install", "spawn", "connect", "refused"},
           Down(reason),
           office' = office, polite' \in BOOLEAN, died' \in BOOLEAN,
           polite' /\ ~died' => reason \in {"install", "spawn", "connect", "refused"}
    PROVE  IInv'
  <1>1. TypeOK'
    BY GoneIsControl, ControlAssumption DEF IInv, TypeOK, Down
  <1>2. FactoryOK'
    BY ControlAssumption DEF Down, FactoryOK, Gone
  <1>3. \A c \in Controls : ctl'[c] = Gone
    BY DEF Down
  <1>4. \A c \in Controls : ControlOK(ctl'[c], (office = "up")')
    BY <1>3, GoneIsControl
  <1>5. \A c \in Controls : PoliteOK(ctl'[c])
    BY <1>3, GoneIsControl
  <1>6. PoliteIsServed'
    BY DEF PoliteIsServed, Down
  <1> QED BY <1>1, <1>2, <1>4, <1>5, <1>6 DEF IInv

\* A callback of c gives it the record r.
LEMMA PutKeeps ==
    ASSUME IInv, NEW c \in Controls, Alive(c),
           NEW r \in Control,
           ctl' = [ctl EXCEPT ![c] = r],
           Stays, office' = office, died' = died,
           polite' \in BOOLEAN, polite' => polite,
           ControlOK(r, office = "up"),
           polite' /\ ~died => PoliteOK(r)
    PROVE  IInv'
  <1> USE DEF Stays
  <1>1. TypeOK'
    BY DEF IInv, TypeOK
  <1>2. FactoryOK'
    BY DEF IInv, TypeOK, FactoryOK, Alive
  <1>3. ctl'[c] = r /\ \A d \in Controls \ {c} : ctl'[d] = ctl[d]
    BY DEF IInv, TypeOK
  <1>4. \A d \in Controls : ControlOK(ctl'[d], (office = "up")')
    BY <1>3 DEF IInv
  <1>5. polite' /\ ~died' => \A d \in Controls : PoliteOK(ctl'[d])
    BY <1>3 DEF IInv
  <1>6. PoliteIsServed'
    BY DEF PoliteIsServed, Alive
  <1> QED BY <1>1, <1>2, <1>4, <1>5, <1>6 DEF IInv

\* The records that callbacks build.
LEMMA WithDocumentIsOK ==
    ASSUME NEW r \in Control, NEW u \in Loadable,
           r.made, r.conn, r.shown, r.realized, r.frame, r.uri = u
    PROVE  /\ WithDocument(r, u) \in Control
           /\ ControlOK(WithDocument(r, u), TRUE)
           /\ r.view # "stale" /\ r.view # "current" => PoliteOK(WithDocument(r, u))
  <1> USE ControlAssumption
  <1> DEFINE s == WithDocument(r, u)
  <1>1. s \in Control
    <2>1. [r EXCEPT !.doc = u] \in Control
      BY DEF Control
    <2>2. PICK q \in Control : q = [r EXCEPT !.doc = u]
      BY <2>1
    <2>3. [q EXCEPT !.pending = FALSE, !.forgot = FALSE, !.refused = FALSE] \in Control
      BY DEF Control
    <2>4. PICK t \in Control :
               t = [q EXCEPT !.pending = FALSE, !.forgot = FALSE, !.refused = FALSE]
      BY <2>3
    <2>5. PICK v \in {"none", "current", "stale"} :
               v = IF r.view = "none" THEN "none" ELSE "stale"
      OBVIOUS
    <2>6. [t EXCEPT !.zoom = 100, !.view = v] \in Control
      <3>1. PICK e \in Control : e = [t EXCEPT !.zoom = 100]
        <4>1. [t EXCEPT !.zoom = 100] \in Control
          BY DEF Control
        <4> QED BY <4>1
      <3>2. [e EXCEPT !.view = v] \in Control
        BY DEF Control
      <3> QED BY <3>1, <3>2 DEF Control
    <2>7. s = [t EXCEPT !.zoom = 100, !.view = v]
      BY <2>2, <2>4, <2>5 DEF WithDocument, Control
    <2> QED BY <2>6, <2>7
  <1>2. /\ s.made /\ s.conn /\ s.shown /\ s.realized /\ s.frame
        /\ ~s.pending /\ s.uri = u /\ s.doc = u
        /\ s.view = IF r.view = "none" THEN "none" ELSE "stale"
    BY DEF WithDocument, Control
  <1>3. u # NoUri
    OBVIOUS
  <1> HIDE DEF s
  <1>4. ControlOK(s, TRUE)
    BY <1>2, <1>3 DEF ControlOK
  <1>5. r.view # "stale" /\ r.view # "current" => PoliteOK(s)
    <2> SUFFICES ASSUME r.view # "stale" /\ r.view # "current" PROVE PoliteOK(s)
      OBVIOUS
    <2>1. r.view = "none"
      BY DEF Control
    <2> QED BY <1>2, <1>3, <2>1 DEF PoliteOK
  <1> QED BY <1>1, <1>4, <1>5 DEF s

LEMMA RefusedIsOK ==
    ASSUME NEW r \in Control, r.made, r.conn, r.shown, r.realized, r.frame,
           r.doc # NoUri => r.doc \in Loadable, r.view = "current" => r.doc # NoUri
    PROVE  Refused(r) \in Control /\ ControlOK(Refused(r), TRUE)
  <1> DEFINE s == Refused(r)
  <1>1. /\ s \in Control /\ s.made /\ s.conn /\ s.shown /\ s.realized /\ s.frame
        /\ ~s.pending /\ s.refused /\ s.doc = r.doc /\ s.view = r.view
    BY DEF Refused, Control
  <1> HIDE DEF s
  <1>2. ControlOK(s, TRUE)
    BY <1>1 DEF ControlOK
  <1> QED BY <1>1, <1>2 DEF s

\* load_uri of a realized widget, and frame_widget_realize, load r.uri.
LEMMA LoadKeeps ==
    ASSUME IInv, NEW c \in Controls, Alive(c), NEW u \in Uris \cup {NoUri},
           NEW r \in Control,
           r.made, r.conn, r.shown, r.realized, r.frame, r.uri = u,
           Load(c, r, u),
           office' = office, died' = died, office = "up",
           polite' \in BOOLEAN, polite' => polite,
           polite' /\ ~died => u \in Loadable /\ r.view = "none"
    PROVE  IInv'
  <1> USE DEF Load
  <1>1. CASE u \notin Loadable /\ Down("assert")
    BY <1>1, DownKeeps DEF IInv, TypeOK
  <1>2. CASE u \in Loadable /\ ctl' = [ctl EXCEPT ![c] = WithDocument(r, u)] /\ Stays
    <2>1. /\ WithDocument(r, u) \in Control
          /\ ControlOK(WithDocument(r, u), TRUE)
          /\ r.view # "stale" /\ r.view # "current" => PoliteOK(WithDocument(r, u))
      BY <1>2, WithDocumentIsOK
    <2>2. ControlOK(WithDocument(r, u), office = "up")
      BY <2>1 DEF ControlOK
    <2> QED BY <1>2, <2>1, <2>2, PutKeeps
  <1> QED BY <1>1, <1>2

LEMMA LoadUriKeeps ==
    ASSUME IInv, NEW c \in Controls, NEW u \in Uris, LoadUri(c, u)
    PROVE  IInv'
  <1> USE ControlAssumption
  <1> DEFINE s == ctl[c]
             r == [s EXCEPT !.uri = u]
  <1>1. /\ s \in Control /\ s.made /\ ControlOK(s, office = "up")
        /\ polite /\ ~died => PoliteOK(s)
    BY DEF LoadUri, IInv, TypeOK, Alive
  <1>2. /\ polite' \in BOOLEAN
        /\ polite' => polite
        /\ polite' => s.uri = NoUri /\ u \in Loadable
        /\ Alive(c) /\ office' = office /\ died' = died /\ died' \in BOOLEAN
    BY DEF LoadUri, IInv, TypeOK, Conduct
  <1> HIDE DEF s
  <1>3. /\ r \in Control /\ r.made = s.made /\ r.conn = s.conn /\ r.shown = s.shown
        /\ r.realized = s.realized /\ r.frame = s.frame /\ r.view = s.view
        /\ r.uri = u /\ r.doc = s.doc /\ r.pending = s.pending
    BY <1>1 DEF Control
  <1> HIDE DEF r
  <1>4. CASE r.realized /\ r.conn /\ Load(c, r, u)
    <2>1. r.shown /\ r.frame /\ office = "up"
      BY <1>1, <1>3, <1>4 DEF ControlOK
    <2>2. ~(polite' /\ ~died)
      BY <1>1, <1>2, <1>3, <1>4, <2>1 DEF PoliteOK
    <2> QED BY <1>1, <1>2, <1>3, <1>4, <2>1, <2>2, LoadKeeps
  <1>5. CASE r.realized /\ ~r.conn /\ Down("lost")
    <2>1. ~(polite' /\ ~died)
      BY <1>1, <1>2, <1>3, <1>5 DEF PoliteOK
    <2>2. Down("lost") /\ office' = office /\ polite' \in BOOLEAN /\ died' \in BOOLEAN
      BY <1>2, <1>5
    <2>3. polite' /\ ~died' => "lost" \in {"install", "spawn", "connect", "refused"}
      BY <1>2, <2>1
    <2> QED BY <2>2, <2>3, DownKeeps
  <1>6. CASE ~r.realized /\ ctl' = [ctl EXCEPT ![c] = [r EXCEPT !.pending = TRUE]] /\ Stays
    <2> DEFINE t == [r EXCEPT !.pending = TRUE]
    <2>1. /\ t \in Control /\ t.made = s.made /\ t.conn = s.conn /\ t.shown = s.shown
          /\ t.realized = FALSE /\ t.frame = s.frame /\ t.view = s.view
          /\ t.uri = u /\ t.doc = s.doc /\ t.pending = TRUE
      BY <1>3, <1>6 DEF Control
    <2> HIDE DEF t
    <2>2. ControlOK(t, office = "up")
      BY <1>1, <1>3, <2>1 DEF ControlOK
    <2>3. polite' /\ ~died => PoliteOK(t)
      BY <1>1, <1>2, <1>3, <1>6, <2>1 DEF PoliteOK
    <2> QED BY <1>2, <1>6, <2>1, <2>2, <2>3, PutKeeps DEF t
  <1>7. CASE /\ r.realized /\ r.conn /\ u \in Loadable
             /\ ctl' = [ctl EXCEPT ![c] = Refused(r)] /\ Stays
    <2>1. r.shown /\ r.frame /\ office = "up"
      BY <1>1, <1>3, <1>7 DEF ControlOK
    <2>2. ~(polite' /\ ~died)
      BY <1>1, <1>2, <1>3, <1>7, <2>1 DEF PoliteOK
    <2>3. r.doc # NoUri => r.doc \in Loadable
      BY <1>1, <1>3 DEF ControlOK
    <2>4. r.view = "current" => r.doc # NoUri
      BY <1>1, <1>3 DEF ControlOK
    <2>5. Refused(r) \in Control /\ ControlOK(Refused(r), TRUE)
      BY <1>1, <1>3, <1>7, <2>1, <2>3, <2>4, RefusedIsOK
    <2>6. ControlOK(Refused(r), office = "up")
      BY <2>1, <2>5 DEF ControlOK
    <2> QED BY <1>2, <1>7, <2>2, <2>5, <2>6, PutKeeps
  <1> QED BY <1>4, <1>5, <1>6, <1>7 DEF LoadUri, r, s

LEMMA ActivateKeeps ==
    ASSUME IInv, NEW c \in Controls, NEW on \in BOOLEAN, Activate(c, on)
    PROVE  IInv'
  <1> USE ControlAssumption
  <1> DEFINE s == ctl[c]
             r == [s EXCEPT !.shown = TRUE, !.active = on]
  <1>1. /\ s \in Control /\ s.made /\ ControlOK(s, office = "up")
        /\ polite /\ ~died => PoliteOK(s)
    BY DEF Activate, IInv, TypeOK, Alive
  <1>2. /\ polite' \in BOOLEAN
        /\ polite' => polite
        /\ polite' => s.uri # NoUri
        /\ Alive(c) /\ Stays /\ office' = office /\ died' = died
        /\ ctl' = [ctl EXCEPT ![c] = r]
    <2>1. ctl' = [ctl EXCEPT ![c] = r]
      BY DEF Activate, IInv, TypeOK
    <2> QED BY <2>1 DEF Activate, IInv, TypeOK, Conduct
  <1> HIDE DEF s
  <1>3. /\ r \in Control /\ r.made = s.made /\ r.conn = s.conn /\ r.shown = TRUE
        /\ r.realized = s.realized /\ r.frame = s.frame /\ r.view = s.view
        /\ r.uri = s.uri /\ r.doc = s.doc /\ r.pending = s.pending
        /\ r.forgot = s.forgot /\ r.refused = s.refused
    BY <1>1 DEF Control
  <1> HIDE DEF r
  <1>4. ControlOK(r, office = "up")
    BY <1>1, <1>3 DEF ControlOK
  <1>5. polite' /\ ~died => PoliteOK(r)
    BY <1>1, <1>2, <1>3 DEF PoliteOK
  <1> QED BY <1>2, <1>3, <1>4, <1>5, PutKeeps

LEMMA NewFrameIsOK ==
    ASSUME NEW s \in Control
    PROVE  LET r == NewFrame(s)
           IN  /\ r \in Control /\ r.made = s.made /\ r.conn = s.conn
               /\ r.shown = s.shown /\ r.realized /\ r.frame /\ r.pending = s.pending
               /\ r.uri = s.uri /\ r.doc = NoUri
               /\ r.view = IF s.view = "none" THEN "none" ELSE "stale"
               /\ r.forgot = (s.forgot \/ s.frame)
  <1> DEFINE r == NewFrame(s)
  <1>1. r \in Control
    <2>1. PICK q \in Control :
               q = [s EXCEPT !.realized = TRUE, !.frame = TRUE, !.doc = NoUri]
      <3>1. [s EXCEPT !.realized = TRUE, !.frame = TRUE, !.doc = NoUri] \in Control
        BY DEF Control
      <3> QED BY <3>1
    <2>2. PICK v \in {"none", "current", "stale"} :
               v = IF s.view = "none" THEN "none" ELSE "stale"
      OBVIOUS
    <2>3. PICK f \in BOOLEAN : f = (s.forgot \/ s.frame)
      BY DEF Control
    <2>4. [q EXCEPT !.view = v, !.forgot = f] \in Control
      BY DEF Control
    <2>5. r = [q EXCEPT !.view = v, !.forgot = f]
      BY <2>1, <2>2, <2>3 DEF NewFrame, Control
    <2> QED BY <2>4, <2>5
  <1>2. /\ r.made = s.made /\ r.conn = s.conn
        /\ r.shown = s.shown /\ r.realized /\ r.frame /\ r.pending = s.pending
        /\ r.uri = s.uri /\ r.doc = NoUri
        /\ r.view = IF s.view = "none" THEN "none" ELSE "stale"
    BY DEF NewFrame, Control
  <1>3. r.forgot = (s.forgot \/ s.frame)
    BY DEF NewFrame, Control
  <1> QED BY <1>1, <1>2, <1>3

LEMMA RealizeKeeps ==
    ASSUME IInv, NEW c \in Controls, Realize(c)
    PROVE  IInv'
  <1> USE ControlAssumption
  <1> DEFINE s == ctl[c]
             r == NewFrame(s)
  <1>1. /\ s \in Control /\ s.made /\ s.shown /\ ~s.realized
        /\ ControlOK(s, office = "up")
        /\ polite /\ ~died => PoliteOK(s)
    BY DEF Realize, IInv, TypeOK, Alive
  <1>2. /\ polite' = polite /\ polite \in BOOLEAN /\ died' \in BOOLEAN
        /\ Alive(c) /\ office' = office /\ died' = died
    BY DEF Realize, IInv, TypeOK
  <1>3. \/ ~r.conn /\ Down("lost")
        \/ r.conn /\ r.pending /\ Load(c, r, r.uri)
        \/ Down("refused")
        \/ r.conn /\ ~r.pending /\ ctl' = [ctl EXCEPT ![c] = r] /\ Stays
    BY DEF Realize
  <1> HIDE DEF s
  <1>4. /\ r \in Control /\ r.made = s.made /\ r.conn = s.conn
        /\ r.shown = s.shown /\ r.realized /\ r.frame /\ r.pending = s.pending
        /\ r.uri = s.uri /\ r.doc = NoUri
        /\ r.view = IF s.view = "none" THEN "none" ELSE "stale"
        /\ r.forgot = (s.forgot \/ s.frame)
    BY <1>1, NewFrameIsOK
  <1> HIDE DEF r
  <1>5. s.pending \in BOOLEAN /\ s.uri \in Uris \cup {NoUri}
    BY <1>1 DEF Control
  \* A polite container loads one document that has a loader, and realizes once.
  <1>6. polite /\ ~died => /\ s.conn /\ s.pending /\ ~s.frame
                          /\ s.uri \in Loadable /\ s.view = "none"
    BY <1>1 DEF PoliteOK, ControlOK
  <1>7. CASE ~r.conn /\ Down("lost")
    <2>1. ~(polite' /\ ~died')
      BY <1>2, <1>4, <1>6, <1>7
    <2> QED BY <1>2, <1>7, <2>1, DownKeeps
  <1>8. CASE r.conn /\ r.pending /\ Load(c, r, r.uri)
    <2>1. office = "up"
      BY <1>1, <1>4, <1>8 DEF ControlOK
    <2>2. polite' /\ ~died => r.uri \in Loadable /\ r.view = "none"
      BY <1>2, <1>4, <1>6
    <2> QED BY <1>1, <1>2, <1>4, <1>5, <1>8, <2>1, <2>2, LoadKeeps
  <1>9. CASE r.conn /\ ~r.pending /\ ctl' = [ctl EXCEPT ![c] = r] /\ Stays
    <2>1. s.frame \/ s.uri = NoUri
      BY <1>1, <1>4, <1>9 DEF ControlOK
    <2>2. ControlOK(r, office = "up")
      BY <1>1, <1>4, <1>9, <2>1 DEF ControlOK
    <2>3. ~(polite' /\ ~died)
      BY <1>2, <1>4, <1>6, <1>9
    <2> QED BY <1>2, <1>4, <1>9, <2>2, <2>3, PutKeeps
  <1>10. CASE Down("refused")
    BY <1>2, <1>10, DownKeeps
  <1> QED BY <1>3, <1>7, <1>8, <1>9, <1>10

\* A command goes to the document of the widget's frame.
LEMMA DispatchKeeps ==
    ASSUME IInv, NEW c \in Controls, Alive(c), NEW r \in Control,
           Dispatch(c, r),
           office' = office, died' = died, polite' \in BOOLEAN, polite' => polite,
           ControlOK(r, office = "up"),
           polite' /\ ~died => r.conn /\ r.doc # NoUri /\ PoliteOK(r)
    PROVE  IInv'
  <1>1. died' \in BOOLEAN
    BY DEF IInv, TypeOK
  <1>2. CASE r.frame /\ ~r.conn /\ Down("lost")
    <2>1. ~(polite' /\ ~died')
      BY <1>2
    <2> QED BY <1>1, <1>2, <2>1, DownKeeps
  <1>3. CASE r.frame /\ r.conn /\ r.doc = NoUri /\ Down("null")
    <2>1. ~(polite' /\ ~died')
      BY <1>3
    <2> QED BY <1>1, <1>3, <2>1, DownKeeps
  <1>4. CASE ctl' = [ctl EXCEPT ![c] = r] /\ Stays
    BY <1>4, PutKeeps
  <1> QED BY <1>2, <1>3, <1>4 DEF Dispatch

LEMMA UnrealizeKeeps ==
    ASSUME IInv, NEW c \in Controls, Unrealize(c)
    PROVE  IInv'
  <1> DEFINE s == ctl[c]
             r == [s EXCEPT !.realized = FALSE]
  <1>1. s \in Control /\ s.made /\ ControlOK(s, office = "up")
    BY DEF Unrealize, IInv, TypeOK, Alive
  <1>2. /\ polite' = FALSE /\ office' = office /\ died' = died
        /\ Alive(c) /\ Dispatch(c, r)
    BY DEF Unrealize, Conduct
  <1> HIDE DEF s
  <1>3. /\ r \in Control /\ r.made = s.made /\ r.conn = s.conn /\ ~r.realized
        /\ r.frame = s.frame /\ r.view = s.view /\ r.uri = s.uri /\ r.doc = s.doc
        /\ r.pending = s.pending
    BY <1>1 DEF Control
  <1> HIDE DEF r
  <1>4. ControlOK(r, office = "up")
    BY <1>1, <1>3 DEF ControlOK
  <1> QED BY <1>2, <1>3, <1>4, DispatchKeeps

LEMMA VerbKeeps ==
    ASSUME IInv, NEW c \in Controls, Verb(c)
    PROVE  IInv'
  <1> DEFINE s == ctl[c]
  <1>1. /\ s \in Control /\ s.made /\ ControlOK(s, office = "up")
        /\ polite /\ ~died => PoliteOK(s)
    BY DEF Verb, IInv, TypeOK, Alive
  <1>2. /\ polite' \in BOOLEAN
        /\ polite' => polite
        /\ polite' => s.doc # NoUri
        /\ Alive(c) /\ office' = office /\ died' = died
        /\ Dispatch(c, s)
    BY DEF Verb, IInv, TypeOK, Conduct
  <1> HIDE DEF s
  <1>3. polite' /\ ~died => s.conn /\ s.doc # NoUri /\ PoliteOK(s)
    BY <1>1, <1>2 DEF PoliteOK
  <1> QED BY <1>1, <1>2, <1>3, DispatchKeeps

LEMMA WithViewIsOK ==
    ASSUME NEW s \in Control, s.made, NEW up, ControlOK(s, up)
    PROVE  LET r == WithView(s)
           IN  /\ r \in Control /\ ControlOK(r, up)
               /\ r.frame = s.frame /\ r.conn = s.conn
               /\ r.view = "none" => ~(s.frame /\ s.doc # NoUri)
               /\ r.view = "stale" => s.view = "stale"
               /\ PoliteOK(s) => PoliteOK(r)
               /\ r.zoom = s.zoom
  <1>1. CASE s.view = "none" /\ s.frame /\ s.doc # NoUri
    <2> DEFINE r == [s EXCEPT !.view = "current"]
    <2>1. /\ r \in Control /\ r.made = s.made /\ r.conn = s.conn /\ r.shown = s.shown
          /\ r.realized = s.realized /\ r.frame = s.frame /\ r.view = "current"
          /\ r.uri = s.uri /\ r.doc = s.doc /\ r.pending = s.pending
          /\ r.forgot = s.forgot /\ r.refused = s.refused /\ r.zoom = s.zoom
      BY DEF Control
    <2>2. WithView(s) = r
      BY <1>1 DEF WithView
    <2> HIDE DEF r
    <2>3. ControlOK(r, up)
      BY <1>1, <2>1 DEF ControlOK
    <2>4. PoliteOK(s) => PoliteOK(r)
      BY <2>1 DEF PoliteOK
    <2> QED BY <2>1, <2>2, <2>3, <2>4
  <1>2. CASE ~(s.view = "none" /\ s.frame /\ s.doc # NoUri)
    BY <1>2 DEF WithView
  <1> QED BY <1>1, <1>2

\* The zoom of a view is set and perhaps reported.
LEMMA ZoomedIsOK ==
    ASSUME NEW r \in Control, NEW z \in Nat, NEW y \in Nat, NEW up, r.made,
           ControlOK(r, up)
    PROVE  LET t == [r EXCEPT !.zoom = z, !.reported = y]
           IN  t \in Control /\ ControlOK(t, up) /\ (PoliteOK(r) => PoliteOK(t))
  <1> DEFINE t == [r EXCEPT !.zoom = z, !.reported = y]
  <1>1. /\ t \in Control /\ t.made = r.made /\ t.conn = r.conn /\ t.shown = r.shown
        /\ t.realized = r.realized /\ t.frame = r.frame /\ t.view = r.view
        /\ t.uri = r.uri /\ t.doc = r.doc /\ t.pending = r.pending
        /\ t.forgot = r.forgot /\ t.refused = r.refused
    BY DEF Control
  <1> HIDE DEF t
  <1>2. ControlOK(t, up)
    BY <1>1 DEF ControlOK
  <1>3. PoliteOK(r) => PoliteOK(t)
    BY <1>1 DEF PoliteOK
  <1> QED BY <1>1, <1>2, <1>3 DEF t

LEMMA StaleViewKeeps ==
    ASSUME IInv, NEW c \in Controls, Alive(c), NEW r, NEW reports \in BOOLEAN,
           StaleView(c, r, reports),
           office' = office, died' = died, polite' \in BOOLEAN, polite' => polite,
           ctl[c].view = "stale"
    PROVE  IInv'
  <1> USE ControlAssumption
  <1> DEFINE s == ctl[c]
  <1>1. /\ s \in Control /\ s.made /\ ControlOK(s, office = "up")
        /\ polite /\ ~died => PoliteOK(s)
        /\ died' \in BOOLEAN
    BY DEF IInv, TypeOK, Alive
  <1>2. ~(polite' /\ ~died')
    BY <1>1 DEF PoliteOK
  <1>3. CASE Down("lost")
    BY <1>1, <1>2, <1>3, DownKeeps
  <1>4. ASSUME NEW z \in FitZooms \cup {100}, Stays,
               ctl' = [ctl EXCEPT ![c].reported = IF reports THEN z ELSE @]
        PROVE  IInv'
    <2>1. PICK y \in Nat : y = IF reports THEN z ELSE s.reported
      <3>1. s.reported \in Nat
        BY <1>1 DEF Control
      <3> QED BY <3>1
    <2>2. PICK x \in Nat : x = s.zoom
      <3>1. s.zoom \in Nat
        BY <1>1 DEF Control
      <3> QED BY <3>1
    <2> DEFINE t == [s EXCEPT !.zoom = x, !.reported = y]
    <2>3. ctl' = [ctl EXCEPT ![c] = t]
      <3>1. ctl' = [ctl EXCEPT ![c] = [s EXCEPT !.reported = y]]
        BY <1>4, <2>1
      <3>2. [s EXCEPT !.reported = y] = t
        BY <1>1, <2>2 DEF Control
      <3> QED BY <3>1, <3>2
    <2>4. t \in Control /\ ControlOK(t, office = "up")
      <3> HIDE DEF s
      <3> QED BY <1>1, ZoomedIsOK
    <2> QED BY <1>2, <1>4, <2>3, <2>4, PutKeeps
  <1> QED BY <1>3, <1>4 DEF StaleView

LEMMA ZoomToKeeps ==
    ASSUME IInv, NEW c \in Controls, NEW z \in Nat, ZoomTo(c, z)
    PROVE  IInv'
  <1> DEFINE s == ctl[c]
             r == WithView(s)
  <1>1. /\ s \in Control /\ s.made /\ ControlOK(s, office = "up")
        /\ polite /\ ~died => PoliteOK(s)
    BY DEF ZoomTo, IInv, TypeOK, Alive
  <1>2. /\ polite' = polite /\ polite \in BOOLEAN /\ died' \in BOOLEAN
        /\ Alive(c) /\ office' = office /\ died' = died
    BY DEF ZoomTo, IInv, TypeOK
  <1>3. \/ r.frame /\ ~r.conn /\ Down("lost")
        \/ UNCHANGED ctl /\ Stays
        \/ r.view = "stale" /\ StaleView(c, r, TRUE)
        \/ ctl' = [ctl EXCEPT ![c] = [r EXCEPT !.zoom = z, !.reported = z]] /\ Stays
    BY DEF ZoomTo
  <1>4. /\ r \in Control /\ ControlOK(r, office = "up")
        /\ r.frame = s.frame /\ r.conn = s.conn
        /\ r.view = "stale" => s.view = "stale"
        /\ PoliteOK(s) => PoliteOK(r)
    BY <1>1, WithViewIsOK
  <1>5. CASE r.frame /\ ~r.conn /\ Down("lost")
    <2>1. ~(polite' /\ ~died')
      BY <1>1, <1>2, <1>4, <1>5 DEF PoliteOK
    <2> QED BY <1>2, <1>5, <2>1, DownKeeps
  <1>6. CASE UNCHANGED ctl /\ Stays
    <2>1. ctl' = [ctl EXCEPT ![c] = s]
      BY <1>6 DEF IInv, TypeOK
    <2> QED BY <1>1, <1>2, <1>6, <2>1, PutKeeps
  <1>7. CASE r.view = "stale" /\ StaleView(c, r, TRUE)
    BY <1>2, <1>4, <1>7, StaleViewKeeps
  <1>8. CASE ctl' = [ctl EXCEPT ![c] = [r EXCEPT !.zoom = z, !.reported = z]] /\ Stays
    <2> DEFINE t == [r EXCEPT !.zoom = z, !.reported = z]
    <2>1. r.made
      BY <1>1 DEF WithView, Control
    <2>2. /\ t \in Control /\ ControlOK(t, office = "up")
          /\ PoliteOK(r) => PoliteOK(t)
      BY <1>4, <2>1, ZoomedIsOK
    <2>3. polite' /\ ~died => PoliteOK(t)
      BY <1>1, <1>2, <1>4, <2>2
    <2> HIDE DEF r
    <2> QED BY <1>2, <1>8, <2>2, <2>3, PutKeeps
  <1> QED BY <1>3, <1>5, <1>6, <1>7, <1>8

LEMMA ZoomWithKeeps ==
    ASSUME IInv, NEW c \in Controls, NEW z \in Nat, NEW reports \in BOOLEAN,
           ZoomWith(c, z, reports)
    PROVE  IInv'
  <1> DEFINE s == ctl[c]
             r == WithView(s)
  <1>1. /\ s \in Control /\ s.made /\ ControlOK(s, office = "up")
        /\ polite /\ ~died => PoliteOK(s)
    BY DEF ZoomWith, IInv, TypeOK, Alive
  <1>2. /\ polite' \in BOOLEAN /\ died' \in BOOLEAN
        /\ polite' => polite
        /\ polite' => s.doc # NoUri
        /\ Alive(c) /\ office' = office /\ died' = died
    BY DEF ZoomWith, IInv, TypeOK, Conduct
  <1>3. \/ r.frame /\ ~r.conn /\ Down("lost")
        \/ r.view = "none" /\ Down("assert")
        \/ r.view = "stale" /\ StaleView(c, r, reports)
        \/ /\ ctl' = [ctl EXCEPT ![c] =
                         [r EXCEPT !.zoom = z, !.reported = IF reports THEN z ELSE @]]
           /\ Stays
    BY DEF ZoomWith
  <1>4. /\ r \in Control /\ ControlOK(r, office = "up")
        /\ r.frame = s.frame /\ r.conn = s.conn
        /\ r.view = "none" => ~(s.frame /\ s.doc # NoUri)
        /\ r.view = "stale" => s.view = "stale"
        /\ PoliteOK(s) => PoliteOK(r)
    BY <1>1, WithViewIsOK
  <1>5. CASE r.frame /\ ~r.conn /\ Down("lost")
    <2>1. ~(polite' /\ ~died')
      BY <1>1, <1>2, <1>4, <1>5 DEF PoliteOK
    <2> QED BY <1>2, <1>5, <2>1, DownKeeps
  <1>6. CASE r.view = "none" /\ Down("assert")
    <2>1. ~(polite' /\ ~died')
      BY <1>1, <1>2, <1>4, <1>6 DEF ControlOK
    <2> QED BY <1>2, <1>6, <2>1, DownKeeps
  <1>7. CASE r.view = "stale" /\ StaleView(c, r, reports)
    BY <1>2, <1>4, <1>7, StaleViewKeeps
  <1>8. CASE /\ ctl' = [ctl EXCEPT ![c] =
                         [r EXCEPT !.zoom = z, !.reported = IF reports THEN z ELSE @]]
             /\ Stays
    <2>1. PICK y \in Nat : y = IF reports THEN z ELSE r.reported
      <3>1. r.reported \in Nat
        BY <1>4 DEF Control
      <3> QED BY <3>1
    <2> DEFINE t == [r EXCEPT !.zoom = z, !.reported = y]
    <2>2. r.made
      BY <1>1 DEF WithView, Control
    <2>3. [r EXCEPT !.zoom = z, !.reported = IF reports THEN z ELSE @] = t
      BY <1>4, <2>1 DEF Control
    <2>4. /\ t \in Control /\ ControlOK(t, office = "up")
          /\ PoliteOK(r) => PoliteOK(t)
      BY <1>4, <2>2, ZoomedIsOK
    <2>5. polite' /\ ~died => PoliteOK(t)
      BY <1>1, <1>2, <1>4, <2>4
    <2> HIDE DEF r
    <2> QED BY <1>2, <1>8, <2>3, <2>4, <2>5, PutKeeps
  <1> QED BY <1>3, <1>5, <1>6, <1>7, <1>8

LEMMA FinalizeKeeps ==
    ASSUME IInv, NEW c \in Controls, Finalize(c)
    PROVE  IInv'
  <1>1. /\ polite' = polite /\ polite \in BOOLEAN /\ office' = office /\ died' = died
        /\ Alive(c) /\ Stays /\ ctl' = [ctl EXCEPT ![c] = Gone]
    BY DEF Finalize, IInv, TypeOK
  <1>2. Gone \in Control /\ ControlOK(Gone, office = "up") /\ PoliteOK(Gone)
    BY GoneIsControl
  <1> QED BY <1>1, <1>2, PutKeeps

(***************************************************************************)
(* The factory and the office.                                             *)
(***************************************************************************)
LEMMA RequestKeeps ==
    ASSUME IInv, NEW c \in Controls, Request(c)
    PROVE  IInv'
  <1> USE ControlAssumption DEF Request
  <1>1. TypeOK'
    BY DEF IInv, TypeOK
  <1>2. FactoryOK'
    BY DEF IInv, TypeOK, FactoryOK
  <1>3. \A d \in Controls : ControlOK(ctl'[d], (office = "up")')
    BY DEF IInv
  <1>4. polite' /\ ~died' => \A d \in Controls : PoliteOK(ctl'[d])
    <2>1. CASE factory = "down"
      BY <2>1 DEF IInv, FactoryOK, PoliteOK
    <2>2. CASE factory # "down"
      BY <2>2 DEF IInv
    <2> QED BY <2>1, <2>2
  <1>5. PoliteIsServed'
    BY DEF PoliteIsServed
  <1> QED BY <1>1, <1>2, <1>3, <1>4, <1>5 DEF IInv

LEMMA MadeKeeps ==
    ASSUME IInv, request # NoControl, Made
    PROVE  IInv'
  <1> USE ControlAssumption
  <1>1. PICK p \in BOOLEAN : ctl' = [ctl EXCEPT ![request] = NewControl(p)]
    BY DEF Made
  <1>2. /\ office = "up" /\ factory' = "loop" /\ request' = NoControl /\ tries' = 0
        /\ why' = why /\ office' = office /\ polite' = polite /\ died' = died
    BY DEF Made
  <1>3. request \in Controls
    BY DEF IInv, TypeOK
  <1>4. /\ NewControl(p) \in Control
        /\ ControlOK(NewControl(p), TRUE)
        /\ PoliteOK(NewControl(p))
    BY NewIsOK
  <1>5. TypeOK'
    BY <1>1, <1>2, <1>3, <1>4 DEF IInv, TypeOK
  <1>6. FactoryOK'
    BY <1>2 DEF FactoryOK
  <1>7. /\ ctl'[request] = NewControl(p)
        /\ \A d \in Controls \ {request} : ctl'[d] = ctl[d]
    BY <1>1, <1>3 DEF IInv, TypeOK
  <1>8. \A d \in Controls : ControlOK(ctl'[d], (office = "up")')
    BY <1>2, <1>4, <1>7 DEF IInv, ControlOK
  <1>9. polite' /\ ~died' => \A d \in Controls : PoliteOK(ctl'[d])
    BY <1>2, <1>4, <1>7 DEF IInv
  <1>10. PoliteIsServed'
    BY <1>2 DEF PoliteIsServed
  <1> QED BY <1>5, <1>6, <1>8, <1>9, <1>10 DEF IInv

LEMMA GetComponentContextKeeps ==
    ASSUME IInv, GetComponentContext
    PROVE  IInv'
  <1>1. Down("install") /\ office' = office /\ polite' \in BOOLEAN /\ died' \in BOOLEAN
    BY DEF GetComponentContext, IInv, TypeOK
  <1> QED BY <1>1, DownKeeps

\* While a control lives in a process whose office has not died, it is up.
LEMMA OfficeIsUp ==
    ASSUME IInv, polite, ~died, NEW c \in Controls, ctl[c].made
    PROVE  office = "up"
  BY DEF IInv, ControlOK, PoliteOK

LEMMA ResolveKeeps ==
    ASSUME IInv, Resolve
    PROVE  IInv'
  <1>1. factory = "resolve" /\ request # NoControl
    BY DEF Resolve, IInv, FactoryOK
  <1>2. CASE Made
    BY <1>1, <1>2, MadeKeeps
  <1>3. CASE /\ office # "up" /\ factory' = "connect" /\ office' = "starting"
             /\ UNCHANGED <<why, request, tries, ctl, polite, died>>
    <2>1. TypeOK'
      BY <1>3 DEF IInv, TypeOK
    <2>2. FactoryOK'
      BY <1>1, <1>3 DEF IInv, FactoryOK
    <2>3. \A d \in Controls : ControlOK(ctl'[d], (office = "up")')
      BY <1>3 DEF IInv, ControlOK
    <2>4. PoliteIsServed'
      BY <1>3 DEF PoliteIsServed
    <2> QED BY <1>3, <2>1, <2>2, <2>3, <2>4 DEF IInv
  <1>4. CASE office # "up" /\ Down("spawn") /\ UNCHANGED <<office, polite, died>>
    <2>1. Down("spawn") /\ office' = office /\ polite' \in BOOLEAN /\ died' \in BOOLEAN
      BY <1>4 DEF IInv, TypeOK
    <2> QED BY <2>1, DownKeeps
  <1> QED BY <1>2, <1>3, <1>4 DEF Resolve

LEMMA ConnectKeeps ==
    ASSUME IInv, Connect
    PROVE  IInv'
  <1> USE ControlAssumption
  <1>1. factory = "connect" /\ request # NoControl
    BY DEF Connect, IInv, FactoryOK
  <1>2. CASE Made
    BY <1>1, <1>2, MadeKeeps
  <1>3. CASE /\ tries < Tries /\ office # "up" /\ tries' = tries + 1
             /\ UNCHANGED <<factory, why, request, office, ctl, polite, died>>
    <2>1. TypeOK'
      BY <1>3 DEF IInv, TypeOK
    <2>2. FactoryOK'
      BY <1>1, <1>3 DEF IInv, FactoryOK
    <2>3. \A d \in Controls : ControlOK(ctl'[d], (office = "up")')
      BY <1>3 DEF IInv
    <2>4. PoliteIsServed'
      BY <1>1, <1>3 DEF PoliteIsServed
    <2> QED BY <1>3, <2>1, <2>2, <2>3, <2>4 DEF IInv
  <1>4. CASE Down("connect") /\ UNCHANGED <<office, polite, died>>
    <2>1. Down("connect") /\ office' = office /\ polite' \in BOOLEAN /\ died' \in BOOLEAN
      BY <1>4 DEF IInv, TypeOK
    <2> QED BY <2>1, DownKeeps
  <1> QED BY <1>2, <1>3, <1>4 DEF Connect

LEMMA OfficeAcceptsKeeps ==
    ASSUME IInv, OfficeAccepts
    PROVE  IInv'
  <1> USE DEF OfficeAccepts
  <1>1. TypeOK'
    BY DEF IInv, TypeOK
  <1>2. FactoryOK'
    BY DEF IInv, FactoryOK
  <1>3. \A d \in Controls : ControlOK(ctl'[d], (office = "up")')
    BY DEF IInv, ControlOK
  <1>4. PoliteIsServed'
    BY DEF IInv, PoliteIsServed
  <1> QED BY <1>1, <1>2, <1>3, <1>4 DEF IInv

LEMMA OfficeDiesKeeps ==
    ASSUME IInv, OfficeDies
    PROVE  IInv'
  <1>1. /\ office' = "none" /\ died' = (died \/ office = "up")
        /\ ctl' = [c \in Controls |-> [ctl[c] EXCEPT !.conn = FALSE]]
        /\ factory' = factory /\ why' = why /\ request' = request /\ tries' = tries
        /\ polite' = polite
    BY DEF OfficeDies
  <1>2. ASSUME NEW c \in Controls
        PROVE  /\ ctl'[c] \in Control /\ ControlOK(ctl'[c], FALSE)
               /\ ctl'[c].made = ctl[c].made
    <2> DEFINE s == ctl[c]
               r == [s EXCEPT !.conn = FALSE]
    <2>1. s \in Control /\ ControlOK(s, office = "up")
      BY DEF IInv, TypeOK
    <2>2. ctl'[c] = r
      BY <1>1
    <2> HIDE DEF s
    <2>3. /\ r \in Control /\ r.made = s.made /\ r.conn = FALSE /\ r.shown = s.shown
          /\ r.realized = s.realized /\ r.frame = s.frame /\ r.view = s.view
          /\ r.uri = s.uri /\ r.doc = s.doc /\ r.pending = s.pending
          /\ r.forgot = s.forgot /\ r.refused = s.refused
      BY <2>1 DEF Control
    <2>4. ~s.made => r = Gone
      <3>1. ~s.made => s = Gone
        BY <2>1 DEF ControlOK
      <3>2. Gone.conn = FALSE
        BY DEF Gone
      <3>3. s.conn = FALSE => r = s
        BY <2>1 DEF Control
      <3> QED BY <3>1, <3>2, <3>3
    <2> HIDE DEF r
    <2>5. ControlOK(r, FALSE)
      BY <2>1, <2>3, <2>4 DEF ControlOK
    <2> QED BY <2>2, <2>3, <2>5 DEF s
  <1>3. TypeOK'
    <2>1. ctl' \in [Controls -> Control]
      BY <1>1, <1>2
    <2>2. died' \in BOOLEAN
      BY <1>1
    <2> QED BY <1>1, <2>1, <2>2 DEF IInv, TypeOK
  <1>4. FactoryOK'
    <2>1. request # NoControl => request \in Controls
      BY DEF IInv, TypeOK
    <2> QED BY <1>1, <1>2, <2>1 DEF IInv, FactoryOK
  <1>5. \A c \in Controls : ControlOK(ctl'[c], (office = "up")')
    BY <1>1, <1>2 DEF ControlOK
  <1>6. polite' /\ ~died' => \A c \in Controls : PoliteOK(ctl'[c])
    <2> SUFFICES ASSUME polite', ~died', NEW c \in Controls
                 PROVE  ~ctl'[c].made
      BY DEF PoliteOK
    <2> QED BY <1>1, <1>2, OfficeIsUp
  <1>7. PoliteIsServed'
    BY <1>1 DEF IInv, PoliteIsServed
  <1> QED BY <1>3, <1>4, <1>5, <1>6, <1>7 DEF IInv

\* Before the first request of a container the process has no control and no
\* office, and the invariant holds.
THEOREM InitOK == Init => IInv
  <1> SUFFICES ASSUME Init PROVE IInv
    OBVIOUS
  <1>1. TypeOK
    <2>1. ctl \in [Controls -> Control]
      BY GoneIsControl DEF Init
    <2>2. tries \in 0..Tries
      BY ControlAssumption DEF Init
    <2> QED BY <2>1, <2>2 DEF Init, TypeOK
  <1>2. FactoryOK
    BY DEF Init, FactoryOK, Gone
  <1>3. \A c \in Controls : ctl[c] = Gone
    BY DEF Init
  <1> QED BY <1>1, <1>2, <1>3, GoneIsControl DEF IInv, PoliteIsServed, Init

LEMMA ClampIsNat ==
    ASSUME NEW z \in Nat
    PROVE  Clamp(z) \in Nat
  BY ControlAssumption DEF Clamp

LEMMA CallbackKeeps ==
    ASSUME IInv, NEW c \in Controls, Callback(c)
    PROVE  IInv'
  <1> USE ControlAssumption
  <1>1. CASE \E u \in Uris : LoadUri(c, u)
    BY <1>1, LoadUriKeeps
  <1>2. CASE \E on \in BOOLEAN : Activate(c, on)
    BY <1>2, ActivateKeeps
  <1>3. CASE Realize(c)
    BY <1>3, RealizeKeeps
  <1>4. CASE Unrealize(c)
    BY <1>4, UnrealizeKeeps
  <1>5. CASE Verb(c)
    BY <1>5, VerbKeeps
  <1>6. CASE SetZoom(c)
    <2>1. PICK z \in FitZooms \cup {MinZoom, MaxZoom} : ZoomTo(c, Clamp(z))
      BY <1>6 DEF SetZoom
    <2>2. Clamp(z) \in Nat
      BY ClampIsNat
    <2> QED BY <2>1, <2>2, ZoomToKeeps
  <1>7. ctl[c].zoom \in Nat
    BY DEF IInv, TypeOK, Control
  <1>8. CASE ZoomIn(c)
    <2>1. (ctl[c].zoom * 6) \div 5 \in Nat
      BY <1>7
    <2>2. Clamp((ctl[c].zoom * 6) \div 5) \in Nat
      BY <2>1, ClampIsNat
    <2> QED BY <1>8, <2>2, ZoomToKeeps DEF ZoomIn
  <1>9. CASE ZoomOut(c)
    <2>1. (ctl[c].zoom * 5) \div 6 \in Nat
      BY <1>7
    <2>2. Clamp((ctl[c].zoom * 5) \div 6) \in Nat
      BY <2>1, ClampIsNat
    <2> QED BY <1>9, <2>2, ZoomToKeeps DEF ZoomOut
  <1>10. CASE ZoomToFit(c)
    BY <1>10, ZoomWithKeeps DEF ZoomToFit
  <1>11. CASE ZoomToDefault(c)
    BY <1>11, ZoomWithKeeps DEF ZoomToDefault
  <1>12. CASE ZoomFitVerb(c)
    BY <1>12, ZoomWithKeeps DEF ZoomFitVerb
  <1>13. CASE Finalize(c)
    BY <1>13, FinalizeKeeps
  <1> QED BY <1>1, <1>2, <1>3, <1>4, <1>5, <1>6, <1>8, <1>9, <1>10, <1>11, <1>12, <1>13
          DEF Callback

LEMMA NextKeeps == IInv /\ [Next]_vars => IInv'
  <1> SUFFICES ASSUME IInv, [Next]_vars PROVE IInv'
    OBVIOUS
  <1>1. CASE GetComponentContext
    BY <1>1, GetComponentContextKeeps
  <1>2. CASE Resolve
    BY <1>2, ResolveKeeps
  <1>3. CASE Connect
    BY <1>3, ConnectKeeps
  <1>4. CASE OfficeAccepts
    BY <1>4, OfficeAcceptsKeeps
  <1>5. CASE OfficeDies
    BY <1>5, OfficeDiesKeeps
  <1>6. CASE \E c \in Controls : Request(c)
    BY <1>6, RequestKeeps
  <1>7. CASE \E c \in Controls : Callback(c)
    BY <1>7, CallbackKeeps
  <1>8. CASE UNCHANGED vars
    BY <1>8 DEF vars, IInv, TypeOK, FactoryOK, PoliteIsServed
  <1> QED BY <1>1, <1>2, <1>3, <1>4, <1>5, <1>6, <1>7, <1>8 DEF Next

\* Every variable keeps its type.
THEOREM TypesAlways == Spec => []TypeOK
  <1>1. Init => IInv BY InitOK
  <1>2. IInv /\ [Next]_vars => IInv' BY NextKeeps
  <1>3. IInv => TypeOK BY DEF IInv
  <1> QED BY <1>1, <1>2, <1>3, PTL DEF Spec

\* The controls of a process stay consistent with its office and its factory, in
\* every order of callbacks.
THEOREM WiredAlways == Spec => []Wired
  <1>1. Init => IInv BY InitOK
  <1>2. IInv /\ [Next]_vars => IInv' BY NextKeeps
  <1>3. IInv => Wired BY IInvImplies
  <1> QED BY <1>1, <1>2, <1>3, PTL DEF Spec

\* load_uri and frame_widget_realize together show what was asked for, when the
\* office does not refuse it.
THEOREM AskedIsShownAlways == Spec => []AskedIsShown
  <1>1. Init => IInv BY InitOK
  <1>2. IInv /\ [Next]_vars => IInv' BY NextKeeps
  <1>3. IInv => AskedIsShown BY IInvImplies
  <1> QED BY <1>1, <1>2, <1>3, PTL DEF Spec

\* For a polite container no assertion fails, and no null reference is used but
\* the one that follows a document refused by the office.
THEOREM PoliteIsServedAlways == Spec => []PoliteIsServed
  <1>1. Init => IInv BY InitOK
  <1>2. IInv /\ [Next]_vars => IInv' BY NextKeeps
  <1>3. IInv => PoliteIsServed BY DEF IInv
  <1> QED BY <1>1, <1>2, <1>3, PTL DEF Spec

(***************************************************************************)
(* A step that changes a zoom.                                             *)
(***************************************************************************)
Reported(c) ==
    \/ ctl'[c].zoom = ctl[c].zoom
    \/ ctl'[c].reported = ctl'[c].zoom
    \/ \E u \in Uris : LoadUri(c, u)
    \/ Realize(c)
    \/ ZoomFitVerb(c)
    \/ ~ctl'[c].made

LEMMA DownReports ==
    ASSUME NEW reason, Down(reason)
    PROVE  \A d \in Controls : Reported(d)
  BY DEF Down, Reported, Gone

LEMMA SameReports ==
    ASSUME ctl' = ctl
    PROVE  \A d \in Controls : Reported(d)
  BY DEF Reported

\* A callback of c that puts a record r there.
LEMMA PutReports ==
    ASSUME TypeOK, NEW c \in Controls, NEW r, ctl' = [ctl EXCEPT ![c] = r],
           r.zoom = ctl[c].zoom \/ r.reported = r.zoom \/ ~r.made
    PROVE  \A d \in Controls : Reported(d)
  <1>1. ctl'[c] = r /\ \A d \in Controls \ {c} : ctl'[d] = ctl[d]
    BY DEF TypeOK
  <1> QED BY <1>1 DEF Reported

\* The callbacks that may change a zoom without a report: those of other controls
\* leave this one as it is.
LEMMA QuietReports ==
    ASSUME TypeOK, NEW c \in Controls, NEW r, ctl' = [ctl EXCEPT ![c] = r],
           (\E u \in Uris : LoadUri(c, u)) \/ Realize(c) \/ ZoomFitVerb(c)
    PROVE  \A d \in Controls : Reported(d)
  <1>1. \A d \in Controls \ {c} : ctl'[d] = ctl[d]
    BY DEF TypeOK
  <1> QED BY <1>1 DEF Reported

LEMMA StaleReports ==
    ASSUME TypeOK, NEW c \in Controls, NEW r, NEW reports, StaleView(c, r, reports)
    PROVE  \A d \in Controls : Reported(d)
  <1>1. CASE Down("lost")
    BY <1>1, DownReports
  <1>2. ASSUME NEW z, ctl' = [ctl EXCEPT ![c].reported = IF reports THEN z ELSE @]
        PROVE  \A d \in Controls : Reported(d)
    <2>1. PICK y : y = IF reports THEN z ELSE ctl[c].reported
      OBVIOUS
    <2>2. ctl' = [ctl EXCEPT ![c] = [ctl[c] EXCEPT !.reported = y]]
      BY <1>2, <2>1
    <2>3. [ctl[c] EXCEPT !.reported = y].zoom = ctl[c].zoom
      BY DEF TypeOK, Control
    <2> QED BY <2>2, <2>3, PutReports
  <1> QED BY <1>1, <1>2 DEF StaleView

LEMMA DispatchReports ==
    ASSUME TypeOK, NEW c \in Controls, NEW r, r.zoom = ctl[c].zoom, Dispatch(c, r)
    PROVE  \A d \in Controls : Reported(d)
  BY DownReports, PutReports DEF Dispatch

LEMMA LoadReports ==
    ASSUME TypeOK, NEW c \in Controls, NEW r, NEW u, Load(c, r, u),
           (\E v \in Uris : LoadUri(c, v)) \/ Realize(c)
    PROVE  \A d \in Controls : Reported(d)
  BY DownReports, QuietReports DEF Load

LEMMA ZoomToReports ==
    ASSUME TypeOK, NEW c \in Controls, NEW z, ZoomTo(c, z)
    PROVE  \A d \in Controls : Reported(d)
  <1> DEFINE r == WithView(ctl[c])
  <1>1. \/ Down("lost")
        \/ UNCHANGED ctl
        \/ StaleView(c, r, TRUE)
        \/ ctl' = [ctl EXCEPT ![c] = [r EXCEPT !.zoom = z, !.reported = z]]
    BY DEF ZoomTo
  <1>2. CASE ctl' = [ctl EXCEPT ![c] = [r EXCEPT !.zoom = z, !.reported = z]]
    <2>1. r \in Control
      BY DEF WithView, TypeOK, Control
    <2> HIDE DEF r
    <2>2. [r EXCEPT !.zoom = z, !.reported = z].reported = z
      BY <2>1 DEF Control
    <2>3. [r EXCEPT !.zoom = z, !.reported = z].zoom = z
      BY <2>1 DEF Control
    <2> QED BY <1>2, <2>2, <2>3, PutReports
  <1> QED BY <1>1, <1>2, DownReports, SameReports, StaleReports

LEMMA ZoomWithReports ==
    ASSUME TypeOK, NEW c \in Controls, NEW z, NEW reports, ZoomWith(c, z, reports),
           reports = TRUE \/ ZoomFitVerb(c)
    PROVE  \A d \in Controls : Reported(d)
  <1> DEFINE r == WithView(ctl[c])
             t == [r EXCEPT !.zoom = z, !.reported = IF reports THEN z ELSE @]
  <1>1. \/ \E reason : Down(reason)
        \/ StaleView(c, r, reports)
        \/ ctl' = [ctl EXCEPT ![c] = t]
    BY DEF ZoomWith
  <1>2. CASE ctl' = [ctl EXCEPT ![c] = t]
    <2>1. CASE reports = TRUE
      <3>1. r \in Control
        BY DEF WithView, TypeOK, Control
      <3>2. t = [r EXCEPT !.zoom = z, !.reported = z]
        BY <2>1
      <3> HIDE DEF r, t
      <3>3. t.reported = z /\ t.zoom = z
        BY <3>1, <3>2 DEF Control
      <3> QED BY <1>2, <3>3, PutReports
    <2>2. CASE ZoomFitVerb(c)
      <3> HIDE DEF t
      <3> QED BY <1>2, <2>2, QuietReports
    <2> QED BY <2>1, <2>2
  <1> QED BY <1>1, <1>2, DownReports, StaleReports

LEMMA CallbackReports ==
    ASSUME TypeOK, NEW c \in Controls, Callback(c)
    PROVE  \A d \in Controls : Reported(d)
  <1>1. ASSUME NEW u \in Uris, LoadUri(c, u)
        PROVE  \A d \in Controls : Reported(d)
    <2> DEFINE r == [ctl[c] EXCEPT !.uri = u]
               t == [r EXCEPT !.pending = TRUE]
    <2>1. \/ Load(c, r, u) \/ Down("lost")
          \/ ctl' = [ctl EXCEPT ![c] = t] \/ ctl' = [ctl EXCEPT ![c] = Refused(r)]
      BY <1>1 DEF LoadUri
    <2> HIDE DEF r, t
    <2> QED BY <1>1, <2>1, LoadReports, DownReports, QuietReports
  <1>2. ASSUME NEW on \in BOOLEAN, Activate(c, on)
        PROVE  \A d \in Controls : Reported(d)
    <2>1. ctl' = [ctl EXCEPT ![c] = [ctl[c] EXCEPT !.shown = TRUE, !.active = on]]
      BY <1>2 DEF Activate, TypeOK
    <2>2. [ctl[c] EXCEPT !.shown = TRUE, !.active = on].zoom = ctl[c].zoom
      BY DEF TypeOK, Control
    <2> QED BY <2>1, <2>2, PutReports
  <1>3. CASE Realize(c)
    <2> DEFINE r == NewFrame(ctl[c])
    <2>1. \/ \E reason : Down(reason)
          \/ Load(c, r, r.uri)
          \/ ctl' = [ctl EXCEPT ![c] = r]
      BY <1>3 DEF Realize
    <2> HIDE DEF r
    <2> QED BY <1>3, <2>1, LoadReports, DownReports, QuietReports
  <1>4. CASE Unrealize(c)
    <2>1. [ctl[c] EXCEPT !.realized = FALSE].zoom = ctl[c].zoom
      BY DEF TypeOK, Control
    <2> QED BY <1>4, <2>1, DispatchReports DEF Unrealize
  <1>5. CASE Verb(c)
    BY <1>5, DispatchReports DEF Verb
  <1>6. CASE SetZoom(c) \/ ZoomIn(c) \/ ZoomOut(c)
    BY <1>6, ZoomToReports DEF SetZoom, ZoomIn, ZoomOut
  <1>7. CASE ZoomToFit(c) \/ ZoomToDefault(c)
    BY <1>7, ZoomWithReports DEF ZoomToFit, ZoomToDefault
  <1>8. CASE ZoomFitVerb(c)
    <2>1. PICK z \in FitZooms : ZoomWith(c, z, FALSE)
      BY <1>8 DEF ZoomFitVerb
    <2> QED BY <1>8, <2>1, ZoomWithReports
  <1>9. CASE Finalize(c)
    <2>1. ctl' = [ctl EXCEPT ![c] = Gone] /\ ~Gone.made
      BY <1>9 DEF Finalize, Gone
    <2> QED BY <2>1, PutReports
  <1> QED BY <1>1, <1>2, <1>3, <1>4, <1>5, <1>6, <1>7, <1>8, <1>9 DEF Callback

LEMMA NextReports == IInv /\ [Next]_vars => [\A c \in Controls : Reported(c)]_vars
  <1> SUFFICES ASSUME IInv, Next PROVE \A c \in Controls : Reported(c)
    OBVIOUS
  <1>1. TypeOK
    BY DEF IInv
  <1>2. CASE GetComponentContext
    BY <1>2, DownReports DEF GetComponentContext
  <1>3. ASSUME Made, request # NoControl
        PROVE  \A c \in Controls : Reported(c)
    <2>1. PICK p \in BOOLEAN : ctl' = [ctl EXCEPT ![request] = NewControl(p)]
      BY <1>3 DEF Made
    <2>2. request \in Controls /\ ctl[request] = Gone
      BY <1>3 DEF IInv, TypeOK, FactoryOK, ControlOK
    <2>3. NewControl(p).zoom = ctl[request].zoom
      BY <2>2 DEF NewControl, Gone
    <2> QED BY <1>1, <2>1, <2>2, <2>3, PutReports
  <1>4. CASE Resolve
    <2>1. request # NoControl
      BY <1>4 DEF Resolve, IInv, FactoryOK
    <2> QED BY <1>3, <1>4, <2>1, DownReports, SameReports DEF Resolve
  <1>5. CASE Connect
    <2>1. request # NoControl
      BY <1>5 DEF Connect, IInv, FactoryOK
    <2> QED BY <1>3, <1>5, <2>1, DownReports, SameReports DEF Connect
  <1>6. CASE OfficeAccepts
    BY <1>6, SameReports DEF OfficeAccepts
  <1>7. CASE OfficeDies
    <2> SUFFICES ASSUME NEW c \in Controls PROVE ctl'[c].zoom = ctl[c].zoom
      BY DEF Reported
    <2>1. ctl'[c] = [ctl[c] EXCEPT !.conn = FALSE]
      BY <1>7 DEF OfficeDies
    <2> QED BY <1>1, <2>1 DEF TypeOK, Control
  <1>8. CASE \E c \in Controls : Request(c)
    BY <1>8, SameReports DEF Request
  <1>9. CASE \E c \in Controls : Callback(c)
    BY <1>1, <1>9, CallbackReports
  <1> QED BY <1>2, <1>4, <1>5, <1>6, <1>7, <1>8, <1>9 DEF Next

(***************************************************************************)
(* What a polite container is told.                                        *)
(***************************************************************************)
Told(c) ==
    polite' /\ ~died' /\ ctl'[c].reported # ctl[c].reported =>
        \/ /\ ctl'[c].reported = ctl'[c].zoom
           /\ ctl'[c].reported \in MinZoom..MaxZoom \/ ZoomToFit(c)
        \/ ~ctl'[c].made

LEMMA DownTells ==
    ASSUME NEW reason, Down(reason)
    PROVE  \A d \in Controls : Told(d)
  BY DEF Down, Told, Gone

LEMMA SameTells ==
    ASSUME ctl' = ctl
    PROVE  \A d \in Controls : Told(d)
  BY DEF Told

LEMMA PutTells ==
    ASSUME TypeOK, NEW c \in Controls, NEW r, ctl' = [ctl EXCEPT ![c] = r],
           \/ r.reported = ctl[c].reported
           \/ ~r.made
           \/ /\ r.reported = r.zoom
              /\ r.reported \in MinZoom..MaxZoom \/ ZoomToFit(c)
    PROVE  \A d \in Controls : Told(d)
  <1>1. ctl'[c] = r /\ \A d \in Controls \ {c} : ctl'[d] = ctl[d]
    BY DEF TypeOK
  <1> QED BY <1>1 DEF Told

\* A view that is cached and gone is none of a polite container's.
LEMMA StaleTells ==
    ASSUME IInv, NEW c \in Controls, ctl[c].view = "stale",
           died' = died, polite' => polite, Alive(c)
    PROVE  \A d \in Controls : Told(d)
  BY DEF IInv, PoliteOK, Told, Alive

LEMMA DispatchTells ==
    ASSUME TypeOK, NEW c \in Controls, NEW r, r.reported = ctl[c].reported, Dispatch(c, r)
    PROVE  \A d \in Controls : Told(d)
  BY DownTells, PutTells DEF Dispatch

LEMMA LoadTells ==
    ASSUME TypeOK, NEW c \in Controls, NEW r \in Control, NEW u, Load(c, r, u),
           r.reported = ctl[c].reported
    PROVE  \A d \in Controls : Told(d)
  <1>1. WithDocument(r, u).reported = r.reported
    BY DEF WithDocument, Control
  <1> QED BY <1>1, DownTells, PutTells DEF Load

LEMMA WithViewTells ==
    ASSUME NEW s \in Control
    PROVE  /\ WithView(s) \in Control
           /\ WithView(s).reported = s.reported
           /\ WithView(s).view = "stale" => s.view = "stale"
  BY DEF WithView, Control

LEMMA ZoomToTells ==
    ASSUME IInv, NEW c \in Controls, NEW z \in MinZoom..MaxZoom, ZoomTo(c, z)
    PROVE  \A d \in Controls : Told(d)
  <1> DEFINE r == WithView(ctl[c])
             t == [r EXCEPT !.zoom = z, !.reported = z]
  <1>1. /\ ctl[c] \in Control /\ TypeOK /\ Alive(c)
        /\ died' = died /\ polite' = polite
    BY DEF IInv, TypeOK, ZoomTo
  <1>2. \/ Down("lost")
        \/ ctl' = ctl
        \/ r.view = "stale"
        \/ ctl' = [ctl EXCEPT ![c] = t]
    BY DEF ZoomTo
  <1>3. r \in Control /\ (r.view = "stale" => ctl[c].view = "stale")
    BY <1>1, WithViewTells
  <1>4. CASE r.view = "stale"
    BY <1>1, <1>3, <1>4, StaleTells
  <1>5. CASE ctl' = [ctl EXCEPT ![c] = t]
    <2> HIDE DEF r
    <2>1. t.reported = z /\ t.zoom = z
      BY <1>3 DEF Control
    <2> HIDE DEF t
    <2> QED BY <1>1, <1>5, <2>1, PutTells
  <1> QED BY <1>2, <1>4, <1>5, DownTells, SameTells

LEMMA ZoomWithTells ==
    ASSUME IInv, NEW c \in Controls, NEW z, NEW reports \in BOOLEAN,
           ZoomWith(c, z, reports),
           reports => z \in MinZoom..MaxZoom \/ ZoomToFit(c)
    PROVE  \A d \in Controls : Told(d)
  <1> DEFINE r == WithView(ctl[c])
             t == [r EXCEPT !.zoom = z, !.reported = IF reports THEN z ELSE @]
  <1>1. /\ ctl[c] \in Control /\ TypeOK /\ Alive(c)
        /\ died' = died /\ (polite' => polite)
    BY DEF IInv, TypeOK, ZoomWith, Conduct
  <1>2. \/ \E reason : Down(reason)
        \/ r.view = "stale"
        \/ ctl' = [ctl EXCEPT ![c] = t]
    BY DEF ZoomWith
  <1>3. /\ r \in Control /\ r.reported = ctl[c].reported
        /\ r.view = "stale" => ctl[c].view = "stale"
    BY <1>1, WithViewTells
  <1>4. CASE r.view = "stale"
    BY <1>1, <1>3, <1>4, StaleTells
  <1>5. CASE ctl' = [ctl EXCEPT ![c] = t]
    <2> HIDE DEF r
    <2>1. t.zoom = z /\ t.reported = IF reports THEN z ELSE r.reported
      BY <1>3 DEF Control
    <2> HIDE DEF t
    <2> QED BY <1>1, <1>3, <1>5, <2>1, PutTells
  <1> QED BY <1>2, <1>4, <1>5, DownTells

LEMMA ClampIsWithin ==
    ASSUME NEW z \in Nat
    PROVE  Clamp(z) \in MinZoom..MaxZoom
  BY ControlAssumption DEF Clamp

LEMMA LoadUriTells ==
    ASSUME TypeOK, NEW c \in Controls, NEW u \in Uris, LoadUri(c, u)
    PROVE  \A d \in Controls : Told(d)
  <1> DEFINE s == ctl[c]
             r == [s EXCEPT !.uri = u]
             t == [r EXCEPT !.pending = TRUE]
  <1>1. \/ Load(c, r, u) \/ Down("lost")
        \/ ctl' = [ctl EXCEPT ![c] = t]
        \/ ctl' = [ctl EXCEPT ![c] = Refused(r)]
    BY DEF LoadUri
  <1>2. s \in Control
    BY DEF TypeOK
  <1> HIDE DEF s
  <1>3. r \in Control /\ r.reported = s.reported
    BY <1>2 DEF Control
  <1> HIDE DEF r
  <1>4. t.reported = s.reported /\ Refused(r).reported = s.reported
    BY <1>3 DEF Refused, Control
  <1> HIDE DEF t
  <1> QED BY <1>1, <1>3, <1>4, LoadTells, DownTells, PutTells DEF s

LEMMA RealizeTells ==
    ASSUME TypeOK, NEW c \in Controls, Realize(c)
    PROVE  \A d \in Controls : Told(d)
  <1> DEFINE s == ctl[c]
             r == NewFrame(s)
  <1>1. \/ \E reason : Down(reason)
        \/ Load(c, r, r.uri)
        \/ ctl' = [ctl EXCEPT ![c] = r]
    BY DEF Realize
  <1>2. s \in Control
    BY DEF TypeOK
  <1> HIDE DEF s
  <1>3. r \in Control
    BY <1>2, NewFrameIsOK
  <1>4. r.reported = s.reported
    BY <1>2 DEF NewFrame, Control
  <1> HIDE DEF r
  <1> QED BY <1>1, <1>3, <1>4, LoadTells, DownTells, PutTells DEF s

LEMMA CallbackTells ==
    ASSUME IInv, NEW c \in Controls, Callback(c)
    PROVE  \A d \in Controls : Told(d)
  <1>1. TypeOK /\ ctl[c] \in Control
    BY DEF IInv, TypeOK
  <1>2. CASE \E u \in Uris : LoadUri(c, u)
    BY <1>1, <1>2, LoadUriTells
  <1>3. CASE Realize(c)
    BY <1>1, <1>3, RealizeTells
  <1>4. ASSUME NEW on \in BOOLEAN, Activate(c, on)
        PROVE  \A d \in Controls : Told(d)
    <2>1. ctl' = [ctl EXCEPT ![c] = [ctl[c] EXCEPT !.shown = TRUE, !.active = on]]
      BY <1>1, <1>4 DEF Activate, TypeOK
    <2>2. [ctl[c] EXCEPT !.shown = TRUE, !.active = on].reported = ctl[c].reported
      BY <1>1 DEF Control
    <2> QED BY <1>1, <2>1, <2>2, PutTells
  <1>5. CASE Unrealize(c)
    <2>1. [ctl[c] EXCEPT !.realized = FALSE].reported = ctl[c].reported
      BY <1>1 DEF Control
    <2> QED BY <1>1, <1>5, <2>1, DispatchTells DEF Unrealize
  <1>6. CASE Verb(c)
    BY <1>1, <1>6, DispatchTells DEF Verb
  <1>7. CASE SetZoom(c)
    <2>1. PICK z \in FitZooms \cup {MinZoom, MaxZoom} : ZoomTo(c, Clamp(z))
      BY <1>7 DEF SetZoom
    <2>2. Clamp(z) \in MinZoom..MaxZoom
      BY ControlAssumption, ClampIsWithin
    <2> QED BY <2>1, <2>2, ZoomToTells
  <1>8. ctl[c].zoom \in Nat
    BY <1>1 DEF Control
  <1>9. CASE ZoomIn(c)
    <2>1. (ctl[c].zoom * 6) \div 5 \in Nat
      BY <1>8
    <2> QED BY <1>9, <2>1, ClampIsWithin, ZoomToTells DEF ZoomIn
  <1>10. CASE ZoomOut(c)
    <2>1. (ctl[c].zoom * 5) \div 6 \in Nat
      BY <1>8
    <2> QED BY <1>10, <2>1, ClampIsWithin, ZoomToTells DEF ZoomOut
  <1>11. CASE ZoomToFit(c)
    <2>1. PICK z \in FitZooms : ZoomWith(c, z, TRUE)
      BY <1>11 DEF ZoomToFit
    <2> QED BY <1>11, <2>1, ZoomWithTells
  <1>12. CASE ZoomToDefault(c)
    <2>1. 100 \in MinZoom..MaxZoom
      BY ControlAssumption
    <2>2. PICK z \in MinZoom..MaxZoom : ZoomWith(c, z, TRUE)
      BY <1>12, <2>1 DEF ZoomToDefault
    <2> QED BY <2>2, ZoomWithTells
  <1>13. CASE ZoomFitVerb(c)
    <2>1. PICK z \in FitZooms : ZoomWith(c, z, FALSE)
      BY <1>13 DEF ZoomFitVerb
    <2> QED BY <2>1, ZoomWithTells
  <1>14. CASE Finalize(c)
    <2>1. ctl' = [ctl EXCEPT ![c] = Gone] /\ ~Gone.made
      BY <1>14 DEF Finalize, Gone
    <2> QED BY <1>1, <2>1, PutTells
  <1> QED BY <1>2, <1>3, <1>4, <1>5, <1>6, <1>7, <1>9, <1>10, <1>11, <1>12, <1>13, <1>14
          DEF Callback

LEMMA NextTells == IInv /\ [Next]_vars => [\A c \in Controls : Told(c)]_vars
  <1> SUFFICES ASSUME IInv, Next PROVE \A c \in Controls : Told(c)
    OBVIOUS
  <1>1. TypeOK
    BY DEF IInv
  <1>2. CASE GetComponentContext
    BY <1>2, DownTells DEF GetComponentContext
  <1>3. ASSUME Made, request # NoControl
        PROVE  \A c \in Controls : Told(c)
    <2>1. PICK p \in BOOLEAN : ctl' = [ctl EXCEPT ![request] = NewControl(p)]
      BY <1>3 DEF Made
    <2>2. request \in Controls /\ ctl[request] = Gone
      BY <1>3 DEF IInv, TypeOK, FactoryOK, ControlOK
    <2>3. NewControl(p).reported = ctl[request].reported
      BY <2>2 DEF NewControl, Gone
    <2> QED BY <1>1, <2>1, <2>2, <2>3, PutTells
  <1>4. CASE Resolve
    <2>1. request # NoControl
      BY <1>4 DEF Resolve, IInv, FactoryOK
    <2> QED BY <1>3, <1>4, <2>1, DownTells, SameTells DEF Resolve
  <1>5. CASE Connect
    <2>1. request # NoControl
      BY <1>5 DEF Connect, IInv, FactoryOK
    <2> QED BY <1>3, <1>5, <2>1, DownTells, SameTells DEF Connect
  <1>6. CASE OfficeAccepts
    BY <1>6, SameTells DEF OfficeAccepts
  <1>7. CASE OfficeDies
    <2> SUFFICES ASSUME NEW c \in Controls PROVE ctl'[c].reported = ctl[c].reported
      BY DEF Told
    <2>1. ctl'[c] = [ctl[c] EXCEPT !.conn = FALSE]
      BY <1>7 DEF OfficeDies
    <2> QED BY <1>1, <2>1 DEF TypeOK, Control
  <1>8. CASE \E c \in Controls : Request(c)
    BY <1>8, SameTells DEF Request
  <1>9. CASE \E c \in Controls : Callback(c)
    BY <1>9, CallbackTells
  <1> QED BY <1>2, <1>4, <1>5, <1>6, <1>7, <1>8, <1>9 DEF Next

ReportedAndTold(c) ==
    /\ Reported(c)
    /\ Told(c)

\* A callback that changes the zoom tells the container, but for those that
\* ZoomIsReported names, and a polite container is told of its present view only.
THEOREM ZoomIsReportedAlways == Spec => ZoomIsReported
  <1>1. Init => IInv BY InitOK
  <1>2. IInv /\ [Next]_vars => IInv' BY NextKeeps
  <1>3. IInv /\ [Next]_vars => [\A c \in Controls : Reported(c)]_vars BY NextReports
  <1>4. IInv /\ [Next]_vars => [\A c \in Controls : Told(c)]_vars BY NextTells
  <1>5. /\ [\A c \in Controls : Reported(c)]_vars
        /\ [\A c \in Controls : Told(c)]_vars
        => [\A c \in Controls : ReportedAndTold(c)]_vars
    BY DEF ReportedAndTold
  <1>6. Spec => [][\A c \in Controls : ReportedAndTold(c)]_vars
    BY <1>1, <1>2, <1>3, <1>4, <1>5, PTL DEF Spec
  <1> QED BY <1>6 DEF ZoomIsReported, ReportedAndTold, Reported, Told
=============================================================================
