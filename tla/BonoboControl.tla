--------------------------- MODULE BonoboControl ---------------------------
(***************************************************************************)
(* bonobo/src: a process that makes controls showing office documents.     *)
(* The container (a file manager) calls them back in any order; each       *)
(* callback runs to its end in the one thread of the process and talks to  *)
(* an office process, which may be starting, up, or have died.  A call to  *)
(* a dead office throws, and no callback catches: the process is gone with *)
(* all its controls, as it is when a g_assert fails.                       *)
(*                                                                         *)
(* The documents' contents, the user interface and the windows are left    *)
(* out.  What the office answers is modelled from how this code uses it.   *)
(***************************************************************************)
EXTENDS Integers

CONSTANTS
    Controls,
    Uris,           \* addresses of documents
    Loadable,       \* those for which the office has a loader
    NoUri,
    NoControl,
    Tries,          \* 30 in the code
    MinZoom, MaxZoom,
    FitZooms        \* zooms at which a page may fill a window

ASSUME ControlAssumption ==
    /\ Loadable \subseteq Uris
    /\ NoUri \notin Uris
    /\ NoControl \notin Controls
    /\ Tries \in Nat
    /\ MinZoom \in Nat /\ MaxZoom \in Nat
    /\ MinZoom <= 100 /\ 100 <= MaxZoom
    /\ FitZooms \subseteq Nat

VARIABLES
    factory,    \* what the process is doing
    why,        \* how the process ended
    request,    \* the control that factory() is making
    tries,
    office,
    ctl,        \* the controls
    \* observation
    polite,     \* containers have called back in the order documents are shown
    died        \* an office that was up has died since the process started

vars == <<factory, why, request, tries, office, ctl, polite, died>>

Clamp(z) == IF z < MinZoom THEN MinZoom ELSE IF z > MaxZoom THEN MaxZoom ELSE z

\* _OOoBonoboControlPrivate and _StarFrameWidgetPrivate.  conn: the office the
\* control was made with is there.  view is the cached view_properties: those
\* of the present document, of an earlier one, or not asked for.
Control ==
    [made     : BOOLEAN,
     conn     : BOOLEAN,
     shown    : BOOLEAN,
     active   : BOOLEAN,
     realized : BOOLEAN,
     frame    : BOOLEAN,
     pending  : BOOLEAN,
     uri      : Uris \cup {NoUri},
     doc      : Uris \cup {NoUri},
     view     : {"none", "current", "stale"},
     zoom     : Nat,
     reported : Nat,
     \* observation: what kept a realized widget from the document asked for
     forgot   : BOOLEAN,    \* it was realized again
     refused  : BOOLEAN]    \* the office could not load it

Gone ==
    [made |-> FALSE, conn |-> FALSE, shown |-> FALSE, active |-> FALSE,
     realized |-> FALSE, frame |-> FALSE, pending |-> FALSE, uri |-> NoUri,
     doc |-> NoUri, view |-> "none", zoom |-> 100, reported |-> 100,
     forgot |-> FALSE, refused |-> FALSE]

TypeOK ==
    /\ factory \in {"down", "loop", "resolve", "connect"}
    /\ why \in {"none", "assert", "null", "lost", "install", "spawn", "connect",
               "refused"}
    /\ request \in Controls \cup {NoControl}
    /\ tries \in 0..Tries
    /\ office \in {"none", "starting", "up"}
    /\ ctl \in [Controls -> Control]
    /\ polite \in BOOLEAN
    /\ died \in BOOLEAN

(***************************************************************************)
(* The process ends: g_assert, a null reference, an exception, exit().     *)
(***************************************************************************)
Down(reason) ==
    /\ factory' = "down"
    /\ why' = reason
    /\ request' = NoControl
    /\ tries' = 0
    /\ ctl' = [c \in Controls |-> Gone]

Stays == UNCHANGED <<factory, why, request, tries>>

(***************************************************************************)
(* main.cxx, remote-uno-helper.cxx: factory() blocks until it has the      *)
(* component context of an office.                                         *)
(***************************************************************************)
Request(c) ==
    /\ factory \in {"down", "loop"}
    /\ ~ctl[c].made
    /\ factory' = "resolve"
    /\ request' = c
    /\ IF factory = "down" THEN why' = "none" /\ polite' = TRUE /\ died' = FALSE
                           ELSE UNCHANGED <<why, polite, died>>
    /\ UNCHANGED <<tries, office, ctl>>

\* ooo_bonobo_control_new: pending_load is not initialised.
NewControl(p) == [Gone EXCEPT !.made = TRUE, !.conn = TRUE, !.pending = p]

Made ==
    /\ office = "up"
    /\ \E p \in BOOLEAN : ctl' = [ctl EXCEPT ![request] = NewControl(p)]
    /\ factory' = "loop"
    /\ request' = NoControl
    /\ tries' = 0
    /\ UNCHANGED <<why, office, polite, died>>

\* getComponentContext: without its files nothing will work.
GetComponentContext ==
    /\ factory = "resolve"
    /\ Down("install")
    /\ UNCHANGED <<office, polite, died>>

\* getRemoteComponentContext
Resolve ==
    /\ factory = "resolve"
    /\ \/ Made
       \/ /\ office # "up"
          /\ factory' = "connect"
          /\ office' = "starting"
          /\ UNCHANGED <<why, request, tries, ctl, polite, died>>
       \/ /\ office # "up"
          /\ Down("spawn")
          /\ UNCHANGED <<office, polite, died>>

\* Mutant: the loop does not count its tries.
ConnectUncounted ==
    /\ factory = "connect"
    /\ \/ tries < Tries /\ Made
       \/ /\ tries < Tries
          /\ office # "up"
          /\ UNCHANGED vars
       \/ /\ tries = Tries
          /\ Down("connect")
          /\ UNCHANGED <<office, polite, died>>

Connect ==
    /\ factory = "connect"
    /\ \/ tries < Tries /\ Made
       \/ /\ tries < Tries
          /\ office # "up"
          /\ tries' = tries + 1
          /\ UNCHANGED <<factory, why, request, office, ctl, polite, died>>
       \/ /\ tries = Tries
          /\ Down("connect")
          /\ UNCHANGED <<office, polite, died>>

(***************************************************************************)
(* The office.                                                             *)
(***************************************************************************)
OfficeAccepts ==
    /\ office = "starting"
    /\ office' = "up"
    /\ UNCHANGED <<factory, why, request, tries, ctl, polite, died>>

OfficeDies ==
    /\ office # "none"
    /\ office' = "none"
    /\ died' = (died \/ office = "up")
    /\ ctl' = [c \in Controls |-> [ctl[c] EXCEPT !.conn = FALSE]]
    /\ UNCHANGED <<factory, why, request, tries, polite>>

(***************************************************************************)
(* The callbacks of a control.                                             *)
(***************************************************************************)
Alive(c) == factory = "loop" /\ ctl[c].made

\* A container that shows a document: one load before the control is shown,
\* what needs a document once it is there, and no taking back.
Conduct(ok) == polite' = (polite /\ ok)

\* FrameLoadFileFromUrl: the controller of the document replaces another, and
\* with it the view properties.
WithDocument(r, u) ==
    [r EXCEPT !.doc = u, !.pending = FALSE, !.forgot = FALSE, !.refused = FALSE,
              !.zoom = 100, !.view = IF @ = "none" THEN "none" ELSE "stale"]

\* FrameLoadFileFromUrl does not look at what load() returns.  FALSE, for a
\* document that is damaged or cannot be read, leaves the frame as it was.
Refused(r) == [r EXCEPT !.pending = FALSE, !.refused = TRUE]

\* A document of a type without a loader fails an assertion.
Load(c, r, u) ==
    \/ /\ u \in Loadable
       /\ ctl' = [ctl EXCEPT ![c] = WithDocument(r, u)]
       /\ Stays
    \/ /\ u \notin Loadable
       /\ Down("assert")

\* Mutant: what is to be loaded is remembered, and that it is to be is not.
LoadUriForgets(c, u) ==
    /\ Alive(c)
    /\ LET r == [ctl[c] EXCEPT !.uri = u]
       IN  \/ r.realized /\ r.conn /\ Load(c, r, u)
           \/ /\ r.realized /\ r.conn /\ u \in Loadable
              /\ ctl' = [ctl EXCEPT ![c] = Refused(r)]
              /\ Stays
           \/ r.realized /\ ~r.conn /\ Down("lost")
           \/ ~r.realized /\ ctl' = [ctl EXCEPT ![c] = r] /\ Stays
    /\ Conduct(ctl[c].uri = NoUri /\ u \in Loadable)
    /\ UNCHANGED <<office, died>>

LoadUri(c, u) ==
    /\ Alive(c)
    /\ LET r == [ctl[c] EXCEPT !.uri = u]
       IN  \/ r.realized /\ r.conn /\ Load(c, r, u)
           \/ /\ r.realized /\ r.conn /\ u \in Loadable
              /\ ctl' = [ctl EXCEPT ![c] = Refused(r)]
              /\ Stays
           \/ r.realized /\ ~r.conn /\ Down("lost")
           \/ /\ ~r.realized
              /\ ctl' = [ctl EXCEPT ![c] = [r EXCEPT !.pending = TRUE]]
              /\ Stays
    /\ Conduct(ctl[c].uri = NoUri /\ u \in Loadable)
    /\ UNCHANGED <<office, died>>

Activate(c, on) ==
    /\ Alive(c)
    /\ ctl' = [ctl EXCEPT ![c].shown = TRUE, ![c].active = on]
    /\ Conduct(ctl[c].uri # NoUri)
    /\ Stays
    /\ UNCHANGED <<office, died>>

\* star_frame_widget_realize: a new window and a new frame.  The view of an
\* earlier frame stays cached.
NewFrame(r) ==
    [r EXCEPT !.realized = TRUE, !.frame = TRUE, !.doc = NoUri,
              !.view = IF @ = "none" THEN "none" ELSE "stale",
              !.forgot = @ \/ r.frame]

\* Mutant: the widget is put into full screen mode before the document is there.
RealizeEarly(c) ==
    /\ Alive(c)
    /\ ctl[c].shown
    /\ ~ctl[c].realized
    /\ LET r == NewFrame(ctl[c])
       IN  \/ ~r.conn /\ Down("lost")
           \/ r.conn /\ r.pending /\ Down("null")
           \/ r.conn /\ ~r.pending /\ ctl' = [ctl EXCEPT ![c] = r] /\ Stays
    /\ UNCHANGED <<office, polite, died>>

\* frame_widget_realize loads, then asks the frame for full screen mode: without
\* a document, when the load was refused, queryDispatch gives nothing to ask.
Realize(c) ==
    /\ Alive(c)
    /\ ctl[c].shown
    /\ ~ctl[c].realized
    /\ LET r == NewFrame(ctl[c])
       IN  \/ ~r.conn /\ Down("lost")
           \/ r.conn /\ r.pending /\ Load(c, r, r.uri)
           \/ r.conn /\ r.pending /\ r.uri \in Loadable /\ Down("refused")
           \/ r.conn /\ ~r.pending /\ ctl' = [ctl EXCEPT ![c] = r] /\ Stays
    /\ UNCHANGED <<office, polite, died>>

\* queryDispatch gives nothing for a frame without a document.
Dispatch(c, r) ==
    \/ r.frame /\ ~r.conn /\ Down("lost")
    \/ r.frame /\ r.conn /\ r.doc = NoUri /\ Down("null")
    \/ /\ r.frame => r.conn /\ r.doc # NoUri
       /\ ctl' = [ctl EXCEPT ![c] = r]
       /\ Stays

\* Mutant: the widget that is not realized any more gives up its frame.
UnrealizeDrops(c) ==
    /\ Alive(c)
    /\ ctl[c].realized
    /\ Dispatch(c, [ctl[c] EXCEPT !.frame = FALSE])
    /\ Conduct(FALSE)
    /\ UNCHANGED <<office, died>>

\* star_frame_widget_unrealize leaves full screen mode.  The frame stays.
Unrealize(c) ==
    /\ Alive(c)
    /\ ctl[c].realized
    /\ Dispatch(c, [ctl[c] EXCEPT !.realized = FALSE])
    /\ Conduct(FALSE)
    /\ UNCHANGED <<office, died>>

\* verb_FileSaveAs_cb, verb_FilePrint_cb and the like
Verb(c) ==
    /\ Alive(c)
    /\ ctl[c].active
    /\ Dispatch(c, ctl[c])
    /\ Conduct(ctl[c].doc # NoUri)
    /\ UNCHANGED <<office, died>>

\* star_frame_widget_get_view_properties
WithView(r) ==
    IF r.view = "none" /\ r.frame /\ r.doc # NoUri THEN [r EXCEPT !.view = "current"]
                                                   ELSE r

\* The view of a replaced document throws, or ignores what it is told; the
\* zoom that is then read from it has no value.
StaleView(c, r, reports) ==
    \/ Down("lost")
    \/ /\ \E z \in FitZooms \cup {100} :
            ctl' = [ctl EXCEPT ![c].reported = IF reports THEN z ELSE @]
       /\ Stays

\* Mutant: the level is reported before it is set.
ZoomToEarly(c, z) ==
    /\ Alive(c)
    /\ LET r == WithView(ctl[c])
       IN  \/ r.frame /\ ~r.conn /\ Down("lost")
           \/ (r.conn \/ ~r.frame) /\ r.view = "none" /\ UNCHANGED ctl /\ Stays
           \/ r.conn /\ r.view = "stale" /\ StaleView(c, r, TRUE)
           \/ /\ r.conn /\ r.view = "current"
              /\ ctl' = [ctl EXCEPT ![c] = [r EXCEPT !.zoom = z, !.reported = r.zoom]]
              /\ Stays
    /\ UNCHANGED <<office, polite, died>>

\* zoomable_set_zoom_level_cb, zoom_in_cb, zoom_out_cb
ZoomTo(c, z) ==
    /\ Alive(c)
    /\ LET r == WithView(ctl[c])
       IN  \/ r.frame /\ ~r.conn /\ Down("lost")
           \/ (r.conn \/ ~r.frame) /\ r.view = "none" /\ UNCHANGED ctl /\ Stays
           \/ r.conn /\ r.view = "stale" /\ StaleView(c, r, TRUE)
           \/ /\ r.conn /\ r.view = "current"
              /\ ctl' = [ctl EXCEPT ![c] = [r EXCEPT !.zoom = z, !.reported = z]]
              /\ Stays
    /\ UNCHANGED <<office, polite, died>>

SetZoom(c)  == \E z \in FitZooms \cup {MinZoom, MaxZoom} : ZoomTo(c, Clamp(z))
ZoomIn(c)   == ZoomTo(c, Clamp((ctl[c].zoom * 6) \div 5))
ZoomOut(c)  == ZoomTo(c, Clamp((ctl[c].zoom * 5) \div 6))

\* zoom_to_fit_cb, zoom_to_default_cb; verb_ZoomFit_cb does not report
ZoomWith(c, z, reports) ==
    /\ Alive(c)
    /\ LET r == WithView(ctl[c])
       IN  \/ r.frame /\ ~r.conn /\ Down("lost")
           \/ (r.conn \/ ~r.frame) /\ r.view = "none" /\ Down("assert")
           \/ r.conn /\ r.view = "stale" /\ StaleView(c, r, reports)
           \/ /\ r.conn /\ r.view = "current"
              /\ ctl' = [ctl EXCEPT ![c] =
                           [r EXCEPT !.zoom = z, !.reported = IF reports THEN z ELSE @]]
              /\ Stays
    /\ Conduct(ctl[c].doc # NoUri)
    /\ UNCHANGED <<office, died>>

ZoomToFit(c)     == \E z \in FitZooms : ZoomWith(c, z, TRUE)
ZoomToDefault(c) == ZoomWith(c, 100, TRUE)
ZoomFitVerb(c)   == ctl[c].active /\ \E z \in FitZooms : ZoomWith(c, z, FALSE)

\* star_frame_widget_dispose lets the frame go before the widget is unrealized.
Finalize(c) ==
    /\ Alive(c)
    /\ ctl' = [ctl EXCEPT ![c] = Gone]
    /\ Stays
    /\ UNCHANGED <<office, polite, died>>

Init ==
    /\ factory = "down"
    /\ why = "none"
    /\ request = NoControl
    /\ tries = 0
    /\ office = "none"
    /\ ctl = [c \in Controls |-> Gone]
    /\ polite = TRUE
    /\ died = FALSE

Callback(c) ==
    \/ \E u \in Uris : LoadUri(c, u)
    \/ \E on \in BOOLEAN : Activate(c, on)
    \/ Realize(c) \/ Unrealize(c) \/ Verb(c)
    \/ SetZoom(c) \/ ZoomIn(c) \/ ZoomOut(c)
    \/ ZoomToFit(c) \/ ZoomToDefault(c) \/ ZoomFitVerb(c)
    \/ Finalize(c)

Next ==
    \/ GetComponentContext \/ Resolve \/ Connect
    \/ OfficeAccepts \/ OfficeDies
    \/ \E c \in Controls : Request(c) \/ Callback(c)

Spec     == Init /\ [][Next]_vars
FairSpec == Spec /\ WF_vars(Resolve) /\ WF_vars(Connect)

(***************************************************************************)
(* Properties.                                                             *)
(***************************************************************************)

\* What the callbacks rely on when they use a widget without looking: controls
\* live in a running process, a control reaches the office only while that is
\* up, a realized widget has a frame, documents and views belong to a frame,
\* and the process waits for an office exactly while it makes a control.
Wired ==
    /\ factory = "down" => \A c \in Controls : ~ctl[c].made
    /\ request = NoControl <=> factory \in {"down", "loop"}
    /\ request # NoControl => ~ctl[request].made
    /\ tries > 0 => factory = "connect"
    /\ \A c \in Controls :
         LET r == ctl[c]
         IN  /\ ~r.made => r = Gone
             /\ r.conn => office = "up"
             /\ r.realized => r.shown /\ r.frame
             /\ r.doc # NoUri => r.frame /\ r.doc \in Loadable
             /\ r.view # "none" => r.frame
             /\ r.view = "current" => r.doc # NoUri

\* load_uri and frame_widget_realize share the loading between them: a realized
\* widget has no load left to do, and shows the document that was asked for last,
\* whichever came first, with two exceptions: the widget was realized again (the
\* new frame starts without a document), or the office refused the document and
\* the code, which does not look, takes it for loaded.
AskedIsShown ==
    \A c \in Controls :
        LET r == ctl[c]
        IN  r.realized => /\ ~r.pending
                          /\ r.forgot \/ r.refused \/ r.doc = r.uri

\* A process whose containers load a document of a type the office knows, then
\* show the control, then use it, and whose office lives, ends only when it
\* cannot get an office or the office refuses the document: no assertion fails,
\* and no other null reference is used.
PoliteIsServed ==
    factory = "down" /\ polite /\ ~died =>
        why \in {"none", "install", "spawn", "connect", "refused"}

\* Whenever a callback changes the zoom, the container is told the one the view
\* has now (a document that is loaded, and the verb ZoomFit, do not tell).  And a
\* polite container, whose office lives, is told nothing else: no zoom of a view
\* that is cached and gone, and but for a page fitted into its window, none
\* outside the limits.
ZoomIsReported ==
    [][\A c \in Controls :
         /\ \/ ctl'[c].zoom = ctl[c].zoom
            \/ ctl'[c].reported = ctl'[c].zoom
            \/ \E u \in Uris : LoadUri(c, u)
            \/ Realize(c)
            \/ ZoomFitVerb(c)
            \/ ~ctl'[c].made
         /\ polite' /\ ~died' /\ ctl'[c].reported # ctl[c].reported =>
            \/ /\ ctl'[c].reported = ctl'[c].zoom
               /\ ctl'[c].reported \in MinZoom..MaxZoom \/ ZoomToFit(c)
            \/ ~ctl'[c].made]_vars

\* factory() blocks the process, but not for ever: there is a control, or the
\* process has ended.
RequestEnds == request # NoControl ~> request = NoControl
=============================================================================
