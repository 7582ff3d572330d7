------------------------------- MODULE VbaBooks -------------------------------
(***************************************************************************)
(* scratch/sc-vba: workbooks and worksheets as a macro handles them:       *)
(* vbaworkbooks.cxx, vbaworkbook.cxx, vbaworksheets.cxx, vbaworksheet.cxx  *)
(* and what they use of vbahelper.cxx.                                     *)
(*                                                                         *)
(* Three documents are easily taken for each other: that of the object, the *)
(* current document (ThisComponent of the macro) and the one whose view is *)
(* active.                                                                 *)
(***************************************************************************)
EXTENDS VbaCalls

CONSTANTS MaxDocs, MaxSheets    \* bounds: documents, and sheets of a document

VARIABLES
    docs,       \* open documents
    this,       \* ThisComponent, if the macro has one
    front,      \* the document whose view is active
    clip,       \* contents on the clipboard
    files,      \* contents of files
    delim,      \* the delimiter of the last text that was opened
    tossed,     \* observation: contents the macro was told to do away with
    astray      \* observation: contents lost in a way described below

bookVars == <<docs, this, front, clip, files, delim, tossed, astray>>

NoDoc == 0
Open  == DOMAIN docs

\* Sheet1 is <<1>>, its copy Sheet1_2 is <<1, 2>>.
Sheet(name, data) == [name |-> name, data |-> data]

Doc(sheets, url) ==
    [sheets |-> sheets, active |-> 1, url |-> url, saved |-> TRUE, readonly |-> FALSE,
     locked |-> FALSE]

Contents == {"a", "b", "c", "d", "e"}

\* The macro's own document, perhaps read-only, an unsaved one, and two files.
BooksInit ==
    /\ \E r \in BOOLEAN :
          docs = <<[Doc(<<Sheet(<<1>>, {"a"}), Sheet(<<2>>, {"b"})>>, "one")
                        EXCEPT !.saved = FALSE, !.readonly = r],
                   [Doc(<<Sheet(<<1>>, {"c"})>>, "") EXCEPT !.saved = FALSE]>>
    /\ this \in {1, NoDoc}
    /\ front \in {1, 2}
    /\ clip = {}
    /\ files = [one |-> {}, two |-> {"d"}, text |-> {"e"}, new |-> {}]
    /\ delim = "comma"
    /\ tossed = {}
    /\ astray = {}

DataIn(sheets) == UNION {sheets[i].data : i \in DOMAIN sheets}
DataOf(d)  == DataIn(docs[d].sheets)
NamesOf(d) == {docs[d].sheets[i].name : i \in DOMAIN docs[d].sheets}
Kept == (UNION {DataOf(d) : d \in Open}) \cup (UNION {files[f] : f \in DOMAIN files})

\* getCurrentDocument
Current == IF this = NoDoc THEN front ELSE this

\* A macro runs as long as its document and the office do.
Goes == got # "aborted" /\ Open # {} /\ (this = NoDoc \/ this \in Open)

Added(open, d, doc) == [k \in DOMAIN open \cup {d} |-> IF k = d THEN doc ELSE open[k]]

Put(d, doc) ==
    /\ docs' = [docs EXCEPT ![d] = doc]
    /\ UNCHANGED this
PutSheets(d, sheets, active) ==
    Put(d, [docs[d] EXCEPT !.sheets = sheets, !.active = active, !.saved = FALSE])

\* A document that is opened or made comes to the front.
NewDoc(doc) ==
    \E d \in (1..MaxDocs) \ Open :
        /\ docs' = Added(docs, d, doc)
        /\ front' = d
        /\ UNCHANGED this
Drop(d) ==
    /\ docs' = [k \in Open \ {d} |-> docs[k]]
    /\ front' \in IF front # d THEN {front}
                  ELSE IF Open = {d} THEN {NoDoc} ELSE Open \ {d}
    /\ UNCHANGED this

Refused == UNCHANGED bookVars /\ Throws

\* An exception that the function does not declare: where declarations are
\* enforced the office aborts, with all that is not in a file.
Escapes ==
    \/ Refused
    \/ /\ docs' = [d \in {} |-> {}]
       /\ front' = NoDoc
       /\ astray' = astray \cup (UNION {DataOf(d) : d \in Open})
       /\ got' = "aborted"
       /\ UNCHANGED <<this, clip, files, delim, tossed, asked>>

(***************************************************************************)
(* Workbooks                                                               *)
(***************************************************************************)

\* What does not load, throws.
AddBook ==
    \/ /\ NewDoc(Doc(<<Sheet(<<1>>, {}), Sheet(<<2>>, {})>>, ""))
       /\ UNCHANGED <<clip, files, delim, tossed, astray>>
       /\ Answers
    \/ Escapes

Delimiters == <<"tab", "comma", "space", "semicolon">>
NoFormat == 0

\* A format that is not custom needs no delimiter; without a format, and with 5, it
\* is that of the last time.
Owns == {"none", "", "bar"}
DelimiterOk(format, own) == format \in 0..6 /\ (format = 6 => own \notin {"none", ""})
DelimiterOf(format, own) ==
    CASE format \in 1..4 -> Delimiters[format]
      [] format = 6 -> own
      [] OTHER -> delim

\* A file that is open already comes to the front.
Loaded(url, readonly) ==
    \/ /\ \E d \in Open : docs[d].url = url /\ front' = d
       /\ UNCHANGED <<docs, this>>
    \/ /\ ~\E d \in Open : docs[d].url = url
       /\ NewDoc([Doc(<<Sheet(<<1>>, files[url])>>, url) EXCEPT !.readonly = readonly])

OpenText(format, own, readonly) ==
    \/ ~DelimiterOk(format, own) /\ Refused
    \/ /\ DelimiterOk(format, own)
       /\ delim' = DelimiterOf(format, own)
       /\ \/ Loaded("text", readonly) /\ Answers
          \/ UNCHANGED <<docs, this, front>> /\ Throws
       /\ UNCHANGED <<clip, files, tossed, astray>>
OpenBook(url, readonly) ==
    /\ Loaded(url, readonly)
    /\ UNCHANGED <<clip, files, delim, tossed, astray>>
    /\ Answers
OpenOther == Refused

\* By name: the last part of the URL, which all unsaved documents lack; the last
\* of them it is.
Named(url) == {d \in Open : docs[d].url = url}
ActivateBook(url) ==
    \/ /\ Named(url) # {}
       /\ front' = CHOOSE d \in Named(url) : \A k \in Named(url) : k <= d
       /\ UNCHANGED <<docs, this, clip, files, delim, tossed, astray>>
       /\ Answers
    \/ Named(url) = {} /\ Escapes

(***************************************************************************)
(* Workbook                                                                *)
(***************************************************************************)

\* A text file has the sheet that is active.
Written(d) ==
    IF docs[d].url = "text" THEN docs[d].sheets[docs[d].active].data ELSE DataOf(d)
Store(d, f) ==
    /\ files' = [files EXCEPT ![f] = Written(d)]
    /\ UNCHANGED <<clip, delim>>

\* What the user, or the macro, lets go with a document or a file.
Toss(data) == tossed' = tossed \cup data /\ UNCHANGED astray

\* .uno:CloseDoc, of the current document: the user is asked about changes.
CloseCurrent ==
    \/ /\ docs[Current].saved
       /\ Drop(Current) /\ Toss(DataOf(Current))
       /\ UNCHANGED <<clip, files, delim>>
    \/ /\ ~docs[Current].saved
       /\ \/ UNCHANGED bookVars
          \/ /\ Drop(Current) /\ Toss(DataOf(Current))
             /\ UNCHANGED <<clip, files, delim>>

\* .uno:Save
Save(d) ==
    \/ /\ docs[d].url # "" /\ ~docs[d].readonly
       /\ Store(d, docs[d].url)
       /\ Put(d, [docs[d] EXCEPT !.saved = TRUE])
       /\ UNCHANGED front
       /\ Toss(files[docs[d].url])
    \/ UNCHANGED bookVars

SaveCopyAs(d, f) ==
    \/ /\ files' = [files EXCEPT ![f] = DataOf(d)]
       /\ UNCHANGED <<docs, this, front, clip, delim>>
       /\ Toss(files[f])
       /\ Answers
    \/ Escapes

\* Close with SaveChanges, to the file f or its own: a document that has no file
\* cannot be stored.
CloseSaved(d, f) ==
    LET file == IF f = "" THEN docs[d].url ELSE f
    IN  \/ docs[d].readonly /\ Refused
        \/ ~docs[d].readonly /\ Escapes
        \/ /\ ~docs[d].readonly /\ file # ""
           /\ Store(d, file)
           /\ tossed' = tossed \cup files[file]
           /\ astray' = astray \cup (DataOf(d) \ Written(d))
           /\ \/ Drop(d) /\ Answers
              \/ /\ Put(d, [docs[d] EXCEPT !.url = file, !.saved = TRUE])
                 /\ UNCHANGED front
                 /\ Throws

\* Close without: it counts as saved before it is known to close.
CloseUnsaved(d) ==
    \/ /\ Drop(d)
       /\ Toss(DataOf(d))
       /\ UNCHANGED <<clip, files, delim>>
       /\ Answers
    \/ /\ Put(d, [docs[d] EXCEPT !.saved = TRUE])
       /\ UNCHANGED <<front, clip, files, delim, tossed, astray>>
       /\ Throws
    \/ Escapes

\* Saved is passed on as Modified.
SetSaved(d, b) ==
    /\ Put(d, [docs[d] EXCEPT !.saved = ~b])
    /\ UNCHANGED <<front, clip, files, delim, tossed, astray>>
    /\ Answers
GetSaved(d) == ~docs[d].saved

Lock(d, b) ==
    \/ ~b /\ ~docs[d].locked /\ Refused
    \/ /\ b \/ docs[d].locked
       /\ Put(d, [docs[d] EXCEPT !.locked = b])
       /\ UNCHANGED <<front, clip, files, delim, tossed, astray>>
       /\ Answers
Protect(d)   == Lock(d, TRUE)
Unprotect(d) == Lock(d, FALSE)

(***************************************************************************)
(* Worksheets                                                              *)
(***************************************************************************)
IndexOf(d, name) ==
    IF name \in NamesOf(d)
    THEN CHOOSE i \in DOMAIN docs[d].sheets : docs[d].sheets[i].name = name ELSE 0

Insert(s, i, t) == SubSeq(s, 1, i) \o t \o SubSeq(s, i + 1, Len(s))
Without(s, i)   == SubSeq(s, 1, i - 1) \o SubSeq(s, i + 1, Len(s))

\* Mutant: the last sheet goes, and the active one is still the last but none.
ActiveStays(n, i) == i
ActiveOf(n, i)    == IF i > n THEN n ELSE i

\* Sheet4 is the first name tried for the fourth sheet.
FreshName(d) ==
    LET n == CHOOSE k \in Len(docs[d].sheets) + 1 .. 2 * Len(docs[d].sheets) + 1 :
                 /\ <<k>> \notin NamesOf(d)
                 /\ \A j \in Len(docs[d].sheets) + 1 .. k - 1 : <<j>> \in NamesOf(d)
    IN  <<n>>

NoName == <<>>

\* Add: Before and After are names; what is not given, or not the name of a sheet of
\* this document, is the active sheet of the current one, or the first.  One sheet of
\* Count.
AddSheet(d, name, after) ==
    LET ref == IF name = NoName
               THEN docs[Current].sheets[docs[Current].active].name ELSE name
        at  == (IF IndexOf(d, ref) = 0 THEN 0 ELSE IndexOf(d, ref) - 1)
               + (IF name # NoName /\ after THEN 1 ELSE 0)
    IN  \/ docs[d].locked /\ Refused
        \/ /\ ~docs[d].locked
           /\ Len(docs[d].sheets) < MaxSheets
           /\ PutSheets(d, Insert(docs[d].sheets, at, <<Sheet(FreshName(d), {})>>),
                        docs[d].active + IF at < docs[d].active THEN 1 ELSE 0)
           /\ UNCHANGED <<front, clip, files, delim, tossed, astray>>
           /\ Answers

\* Delete, of all sheets: the next one has moved up when its turn comes, so that
\* every other sheet stays and the last ones are not there any more.
DeleteSheets(d) ==
    LET s == docs[d].sheets IN
    \/ (docs[d].locked \/ Len(s) = 1) /\ Refused
    \/ /\ ~docs[d].locked /\ Len(s) > 1
       /\ PutSheets(d, [i \in 1..(Len(s) \div 2) |-> s[2 * i]], 1)
       /\ Toss(DataOf(d))
       /\ UNCHANGED <<front, clip, files, delim>>
       /\ Throws
    \/ ~docs[d].locked /\ Len(s) > 1 /\ Escapes

(***************************************************************************)
(* Worksheet                                                               *)
(***************************************************************************)

\* The document does not part with its last sheet.
DeleteSheet(d, i) ==
    \/ (docs[d].locked \/ Len(docs[d].sheets) = 1) /\ Refused
    \/ /\ ~docs[d].locked /\ Len(docs[d].sheets) > 1
       /\ PutSheets(d, Without(docs[d].sheets, i),
                    ActiveOf(Len(docs[d].sheets) - 1, docs[d].active))
       /\ Toss(docs[d].sheets[i].data)
       /\ UNCHANGED <<front, clip, files, delim>>
       /\ Answers

\* A name that is taken is ignored.
SetName(d, i, name) ==
    /\ IF name \in NamesOf(d) THEN UNCHANGED <<docs, this>>
       ELSE PutSheets(d, [docs[d].sheets EXCEPT ![i].name = name], docs[d].active)
    /\ UNCHANGED <<front, clip, files, delim, tossed, astray>>
    /\ Answers

ActivateSheet(d, i) ==
    /\ Put(d, [docs[d] EXCEPT !.active = i])
    /\ UNCHANGED <<front, clip, files, delim, tossed, astray>>
    /\ Answers

\* implnCopy, after the sheet has been selected: what is selected in the current
\* document, and that may be anything.
Copied(d, i) ==
    IF d = Current THEN {docs[d].sheets[i].data}
    ELSE {{}, docs[Current].sheets[docs[Current].active].data}

Selected(d, i) == [docs EXCEPT ![d].active = i]

PastedDoc(name, data) == [Doc(<<Sheet(name, data)>>, "") EXCEPT !.saved = FALSE]

\* Move and Copy without a place: through the clipboard into a new document, if it
\* can be opened; Move then deletes the sheet, which the document may refuse.
Opened(d, i, data) ==
    \E n \in (1..MaxDocs) \ Open :
        /\ docs' = Added(Selected(d, i), n, PastedDoc(docs[d].sheets[i].name, data))
        /\ front' = n
        /\ UNCHANGED <<this, files, delim, tossed, astray>>

NotOpened(d, i) ==
    /\ docs' = Selected(d, i)
    /\ UNCHANGED <<this, front, files, delim, tossed, astray>>
    /\ Answers

CopyToNew(d, i) ==
    \E data \in Copied(d, i) :
        /\ clip' = data
        /\ NotOpened(d, i) \/ (Opened(d, i, data) /\ Answers)

\* Mutant: the sheet is deleted, whether there is a new document or not.
MoveToNewDeletes(d, i) ==
    /\ clip' \in Copied(d, i)
    /\ ~docs[d].locked /\ Len(docs[d].sheets) > 1
    /\ PutSheets(d, Without(docs[d].sheets, i), ActiveOf(Len(docs[d].sheets) - 1, i))
    /\ UNCHANGED <<front, files, delim, tossed, astray>>
    /\ Answers

LeftBehind(d, i) ==
    [docs[d] EXCEPT !.sheets = Without(@, i),
                    !.active = ActiveOf(Len(docs[d].sheets) - 1, i),
                    !.saved  = FALSE]

MoveToNew(d, i) ==
    \E data \in Copied(d, i) :
        /\ clip' = data
        /\ \/ NotOpened(d, i)
           \/ /\ docs[d].locked \/ Len(docs[d].sheets) = 1
              /\ Opened(d, i, data)
              /\ Throws
           \/ /\ ~docs[d].locked /\ Len(docs[d].sheets) > 1
              /\ \E n \in (1..MaxDocs) \ Open :
                    /\ docs' = Added([docs EXCEPT ![d] = LeftBehind(d, i)], n,
                                     PastedDoc(docs[d].sheets[i].name, data))
                    /\ front' = n
              /\ astray' = astray \cup IF d = Current THEN {} ELSE docs[d].sheets[i].data
              /\ UNCHANGED <<this, files, delim, tossed>>
              /\ Answers

\* With a place: the name of the other sheet is looked up in the own document, and
\* nothing happens when there is none.
Placed(d, name, after) == IndexOf(d, name) - 1 + IF after THEN 1 ELSE 0

MoveTo(d, i, name, after) ==
    LET s  == docs[d].sheets
        to == Placed(d, name, after)
        at == IF i - 1 < to THEN to - 1 ELSE to
    IN  /\ \/ name \notin NamesOf(d) /\ UNCHANGED <<docs, this>> /\ Answers
           \/ name \in NamesOf(d) /\ docs[d].locked /\ UNCHANGED <<docs, this>> /\ Throws
           \/ /\ name \in NamesOf(d) /\ ~docs[d].locked
              /\ PutSheets(d, Insert(Without(s, i), at, <<s[i]>>), docs[d].active)
              /\ Answers
        /\ UNCHANGED <<front, clip, files, delim, tossed, astray>>

\* getNewSpreadsheetName
NewName(d, name) ==
    LET n == CHOOSE k \in 2 .. Len(docs[d].sheets) + 2 :
                 /\ Append(name, k) \notin NamesOf(d)
                 /\ \A j \in 2 .. k - 1 : Append(name, j) \in NamesOf(d)
    IN  Append(name, n)

CopyTo(d, i, name, after) ==
    LET s == docs[d].sheets
        t == [s[i] EXCEPT !.name = NewName(d, @)]
    IN  /\ \/ name \notin NamesOf(d) /\ UNCHANGED <<docs, this>> /\ Answers
           \/ name \in NamesOf(d) /\ docs[d].locked /\ UNCHANGED <<docs, this>> /\ Throws
           \/ /\ name \in NamesOf(d) /\ ~docs[d].locked
              /\ Len(s) < MaxSheets
              /\ PutSheets(d, Insert(s, Placed(d, name, after), <<t>>), docs[d].active)
              /\ Answers
        /\ UNCHANGED <<front, clip, files, delim, tossed, astray>>

\* Paste, without a destination: into the view that is active, whatever the sheet.
Paste(d, i) ==
    LET at  == docs[front].active
        old == docs[front].sheets[at].data
    IN  \E data \in {clip, clip \cup old} :
           /\ PutSheets(front, [docs[front].sheets EXCEPT ![at].data = data], at)
           /\ IF <<d, i>> = <<front, at>> THEN Toss(old)
              ELSE astray' = astray \cup old /\ UNCHANGED tossed
           /\ UNCHANGED <<front, clip, files, delim>>
           /\ Answers

(***************************************************************************)
(* The calls.                                                              *)
(***************************************************************************)
BooksOpen ==
    \/ AddBook
    \/ \E format \in {NoFormat, 1, 5, 6, 7}, own \in Owns, r \in BOOLEAN :
          OpenText(format, own, r)
    \/ \E r \in BOOLEAN : OpenBook("two", r)
    \/ OpenOther
    \/ \E url \in {"", "one", "two"} : ActivateBook(url)

BooksClose ==
    \/ CloseCurrent /\ Answers
    \/ \E d \in Open :
          \/ Save(d) /\ Answers
          \/ CloseUnsaved(d)
          \/ \E f \in {"two", "new"} : SaveCopyAs(d, f)
          \/ \E f \in {"", "new"} : CloseSaved(d, f)
          \/ \E b \in BOOLEAN : SetSaved(d, b)
          \/ Protect(d) \/ Unprotect(d)

BooksSheets ==
    \E d \in Open :
        \/ \E name \in {NoName, <<1>>, <<2>>}, after \in BOOLEAN : AddSheet(d, name, after)
        \/ DeleteSheets(d)
        \/ \E i \in DOMAIN docs[d].sheets :
              \/ DeleteSheet(d, i) \/ ActivateSheet(d, i) \/ Paste(d, i)
              \/ SetName(d, i, <<3>>)
              \/ MoveToNew(d, i) \/ CopyToNew(d, i)
              \/ \E name \in {<<1>>, <<2>>}, after \in BOOLEAN :
                    MoveTo(d, i, name, after) \/ CopyTo(d, i, name, after)

(***************************************************************************)
(* Types.                                                                  *)
(***************************************************************************)
Urls == {"", "one", "two", "text", "new"}

SheetRecord == [name : Seq(Nat), data : SUBSET Contents]

IsDoc(doc) ==
    /\ doc \in [sheets : Seq(SheetRecord), active : Nat, url : Urls,
                saved : BOOLEAN, readonly : BOOLEAN, locked : BOOLEAN]
    /\ doc.active \in DOMAIN doc.sheets

\* The document that is the current one exists.
DocsOK ==
    /\ Open \subseteq 1..MaxDocs
    /\ docs = [d \in Open |-> docs[d]]
    /\ \A d \in Open : IsDoc(docs[d])
    /\ this \in {1, NoDoc}
    /\ IF Open = {} THEN front = NoDoc ELSE front \in Open

StoresOK ==
    /\ files \in [Urls \ {""} -> SUBSET Contents]
    /\ delim \in {"tab", "comma", "space", "semicolon", "bar"}
    /\ {clip, tossed, astray} \subseteq SUBSET Contents

BooksOK == DocsOK /\ StoresOK

BooksCall == Ready /\ Goes /\ (BooksOpen \/ BooksClose \/ BooksSheets)
=============================================================================
