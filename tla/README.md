# A formal model of ooo-build

ooo-build (go-oo) turns the source tarballs of OpenOffice.org into a patched,
built and installed office, and carries programs that live beside the office: a
control that shows documents in file managers, a bridge to a managed runtime,
and the objects that let macros written for another office run in this one.
This directory holds TLA+ models of the parts of it that keep state, the TLC
configurations that check them on small instances, and proofs, checked by TLAPS,
of what holds for every instance.

Contents: [the system](#the-system), [hazards](#what-is-hard-here),
[modules](#modules), [runs](#runs), [proofs](#proofs),
[findings](#findings), [limits](#not-modelled), [plan](#plan).

## The system

The repository is a meta build: scripts, make rules and patches, with a few
programs of its own beside them.

| part | source | state | operations |
| --- | --- | --- | --- |
| patch engine | `patches/apply.pl.in`: `apply_patches`, `remove_patches`, `do_patch` | the source tree; the directory `applied_patches` with one numbered copy (a *record*) of each applied patch | apply a list incrementally, remove everything |
| patch selection | `patches/apply.pl.in`: `list_patches` and what it calls | the parsed `apply` file | which patches a distro gets, in which order; hotfixes; conditions and milestone rules |
| patch tools | `bin/sloppypatch.pl`, `bin/defuzzpatch`, `bin/applyflags` | temporary files, the regenerated patch | filter a patch to the directories that exist; regenerate a fuzzy patch; compute options |
| build stamps | `Makefile.shared`, `bin/transform` | stamp files and their times, `.bak` files, the tree | unpack, patch, decorate, build, unpatch |
| unpack | `bin/unpack` | the build directory | remove and create the tree, localisation, dictionaries |
| downloader | `download.in` | tarballs | fetch what is missing |
| gob | `bin/gob`, `bin/gob-bump`, `bin/gob-merge`, `bin/gob-update` | git branches and tags | export patches to branches, move them to a new milestone |
| bonobo control | `bonobo/src` | one record for each control: widget, frame, document, pending load, cached view properties, zoom | make, load, realize, unrealize, activate, zoom, verbs, finalize |
| remote office | `bonobo/src/remote-uno-helper.cxx` | the office process behind a pipe | connect, start, try again, give up |
| mono-uno bridge | `scratch/mono-uno-bridge` | reference counts, registries of mapped objects, monitors | map in both directions, acquire, release, revoke, make a bridge |
| VBA ranges | `scratch/sc-vba`: `vbarange.cxx` | cells, rows and columns, merged areas and filters, selection, clipboard | address, set and get, fill, sort, filter, insert, delete, copy, cut, paste |
| VBA formats | `vbaformat.cxx`, `vbafont.cxx`, `vbaborders.cxx`, `vbainterior.cxx`, `vbavalidation.cxx` | properties of the cells and whether they differ | set and get each attribute |
| VBA charts | `vbachart.cxx`, `vbaaxis.cxx`, `vbacharts.cxx` and their parts | diagram, titles, axes, the charts of a sheet | set and get types, titles, scales; add, name and delete charts |
| VBA documents | `vbaworkbook(s).cxx`, `vbaworksheet(s).cxx` | open documents, their sheets, the active ones, files, the clipboard | open, add, save, close, copy, move, delete, paste, activate |
| VBA windows, application | `vbawindow.cxx`, `vbapane.cxx`, `vbaapplication.cxx` | view, panes, frame, flags of the application | scroll, split, freeze, zoom, flags |
| VBA shapes | `vbashape(s).cxx`, `vbashaperange.cxx`, line, fill, colour, picture, text frame | drawing objects of a sheet, collections taken of them | add, delete, group, set and get |
| VBA controls, names, comments | `vbalistbox.cxx`, `vbaoleobject.cxx`, `vbaname(s).cxx`, `vbacomment.cxx` and others | values of controls, defined names, comments | set and get, select, define |

How they interact: `make` runs `bin/transform --revert`, computes options with
`bin/applyflags`, calls `apply.pl`, runs `bin/transform --apply` and touches a
stamp. `apply.pl` selects patches from the `apply` file, then compares them with
`applied_patches` and calls `patch`, `sloppypatch.pl` or `defuzzpatch` for each
patch it takes off or puts on. Nothing locks anything: the parts share the
build directory, and each trusts what the previous one, or its own previous and
perhaps interrupted run, has left there. `gob` calls the same selection and
turns the result into branches. The bonobo control is a process that a container (a
file manager) drives by callbacks and that talks to an office process over a
pipe; what the office throws is caught nowhere, so that all controls of the process
end with it. The bridge lives inside the office process, and threads of the
managed runtime and of UNO are in it at the same time. The VBA objects live
inside the office too: a macro calls them one after the other, each call goes
through to the document at once, and an error may be handled by the macro, which
then goes on with what a call has left half done.

What makes each part correct:

* **engine**: the records tell the truth about the tree; what was put on comes
  off again; incremental application gives the tree that unpacking and applying
  everything would give; a run that died can be started again.
* **selection**: the list is that of the boolean meaning of the sections; every
  patch once; hotfixes replace what they name.
* **stamps**: a target that make believes up to date was made from the current
  patches, artwork and tools, after any sequence of interrupted runs.
* **downloader**: what is skipped is complete.
* **gob**: a branch that counts as bumped holds the merged result.
* **bonobo control**: a document asked for is shown once the widget exists, in
  either order of the two events; callbacks that come in another order than the
  usual meet no null reference; the zoom told to the container is the one shown;
  a request for a control ends, also when no office comes up.
* **bridge**: an object lives as long as somebody holds it and no longer, is
  mapped to one proxy, and no lock is kept.
* **VBA objects**: what a macro has set reads as it was set; a call that borrows
  the selection or the clipboard returns it; nothing of a sheet or a file is lost
  but by a call that does away with it.

## What is hard here

`PROJECT.json` lists the hazards by line. They fall into four groups: a run that
dies between changing the tree and changing the record of the change (engine,
stamps, downloader, gob); order, since patches overlap on files and only come off
in the reverse order; state that is trusted although it is stale (records,
stamps, `.bak` files, cached properties); in the bonobo control and the
bridge, callbacks and threads that meet in an order nobody wrote down; and in the
VBA objects, calls of several objects on shared properties of a document, each of
which is right by itself and undoes another.

Parts that are not modelled have hazards of their own, which `PROJECT.json` does
not list: a tarball whose download was cut off is taken for complete, because only
its presence is asked (`download.in`); `gob-bump` goes on after a failed merge from a
branch that is neither old nor new (`bin/gob-bump`); the milestones of conditions are
compared as strings, a group that two sections name is followed twice, and a
hotfix is used up by the first distro that lists the patch (`patches/apply.pl.in`:
148, 161, 622); `applyflags` glues an option to the one before (`bin/applyflags`: 50).

## Modules

| module | models |
| --- | --- |
| `PatchStack` | what the engine promises: a patch is put on top, is taken from the top only, and success is reported of the right tree only |
| `PatchEngine` | `apply_patches`, `remove_patches`, `do_patch`, `applied_patches_list`, `patched_files`, `is_dependent_patch`, with accidents and the developer; its properties; the refinement of `PatchStack`; the mutants |
| `MCPatchEngine` | seven patches on three files and the families of lists for TLC |
| `PatchEngineProofs` | proofs about `PatchEngine`: types, the memory of a run, agreement of tree and records; what a run that ends well leaves, how much harm torn runs can do; tidy lists, on which it implements `PatchStack` |
| `BuildStamps` | the rules of `Makefile.shared` from `unpack` to `build`, with `patch.unapply` and `clean`, `bin/transform`, and what the other scripts do to the tree; its properties and mutants |
| `MCBuildStamps` | the goals for TLC |
| `BuildStampsProofs` | proofs about `BuildStamps`: what the stamps promise |
| `BonoboControl` | `factory` with the connection to the office, and all callbacks of a control; its properties and mutants |
| `MCBonoboControl` | the instance for TLC |
| `BonoboControlProofs` | proofs about `BonoboControl` |
| `MonoBridge` | `Mapping_map_to_uno`, `Mapping_map_to_mono`, `uno_ext_getMapping`, `MapManagedToUno`, `MapUnoToManaged`, `acquire`, `release` and revoke, step by step between threads; its properties and mutants |
| `MCMonoBridge` | the instance for TLC |
| `MonoBridgeProofs` | proofs about `MonoBridge` |
| `VbaAreas` | Range objects as values: areas, offsets, cells, rows, columns, enumeration, union |
| `VbaRange` | the calls of a Range on a sheet; extends `VbaAreas`; its properties and mutants |
| `MCVbaRange` | the Ranges and the sheet for TLC |
| `VbaRangeProofs` | proofs about `VbaRange` |
| `VbaCalls` | what the calls of a macro have in common: how a call ends, what has been set |
| `VbaFormat`, `VbaChart`, `VbaBooks`, `VbaWindow`, `VbaShapes`, `VbaControls` | the objects named in the table above, one module for each kind |
| `VbaMacro` | a macro over these six, which it takes in with `INSTANCE`; the properties of all of them |
| `VbaFormatProofs` | proofs about `VbaMacro`: the window, the format of a range, and charts keep what was set |
| `VbaShapesProofs` | the same for controls, names and comments, and for shapes; extends `VbaFormatProofs` |
| `VbaMacroProofs` | proofs about the documents, and the theorems about `VbaMacro`; extends `VbaShapesProofs` |

`BuildStamps` and `PatchEngine` are not composed by `INSTANCE`: a run of the
engine is one line of a recipe, and `BuildStamps` uses only what `PatchEngine`
shows of it (`AppliedIsComplete`, `RemoveIsSafe`): success means that exactly
the listed patches, or none, are in the tree, provided that the tree is whole
and no run was torn; failure may leave any of them.

### PatchEngine

*The tree.* Two patches without a common file commute, so the tree is the set
`applied` of patches in it and the relation `over` between patches that share a
file: `<<d, e>>` when `d` was put on a file that `e` had already changed. `half`
holds the patches of which only some hunks are there. The hunks are abstracted: GNU patch
*may* refuse a patch that does not fit, *may* refuse to reverse one that another
patch lies over or that touches what a half-applied one touched, and always
refuses to reverse one that is not there. An empty file reverses to nothing and
succeeds, as GNU patch does.

*The records.* A record has a number, a name and a content: the bytes of the
patch, or `Empty` when `copy()` created the file and did not fill it. Names are
compared the way the zero-padded numbers compare as strings (`NameLess`), with
`Limit` for the number at which the padding ends.

*The run.* One variable for each variable of the script (`list` for `@Patches`,
`existing` for `%existing_patches`, `patched`, `todo` for `@to_unapply`, `queue`
for `@to_apply` as positions of the list, `num` for `$patch_num`), and `pc`:

| `pc` | lines | actions |
| --- | --- | --- |
| `idle` | between runs | `StartApply`, `StartRemove`, `ManualReverse`, `Unpack` |
| `plan` | 823-851 | `KeepEntry`, `ReplaceEntry`, `NewEntry`, `PlanDone` |
| `unapply`, `unlink` | 853-858 | `ReversePatch`, `RefuseReverse`, `UnlinkRecord`, `UnlinkFails`, `BreakReverse` |
| `apply` | 860-883 | `NumberPatches`, `SkipPatch`, `ApplyPatch`, `RefuseApply`, `BreakApply`, `ApplyDone` |
| `copy`, `fill` | 877-881 | `CreateRecord`, `FillRecord` |
| `remove`, `erase` | 890-901 | as for `unapply`, `unlink`; `RemoveDone` |

`StartApply` takes lines 778-821 in one step: they read the records and change
nothing but the memory of the run. The tree and the record of a patch are
written in separate steps, and copying is two steps. `Kill` ends a run anywhere
outside the four *windows* `unlink`, `erase`, `copy`, `fill`; `KillInside` ends
it in a window and, like a failing `unlink` and a `patch` that stops half way, is
counted in `tears`. Most invariants are about `tears = 0`: no run was torn since
the tree was unpacked.

### BuildStamps

*Stamps.* `exists` holds the stamp files that are there, `old` those of them that
are older than one of their prerequisites; that is all make reads off the clock.
Touching a stamp makes it new and the stamps that depend on it old. `Fresh` is
what make takes for up to date.

*The run.* `Walk(goal)` is the order in which a serial make considers targets,
`walk` what is left of it, `line` the next line of the recipe that runs. Each line
of `Recipe` that changes something has an action, in the order of the
`Makefile`: a run can fail or be killed at every one of them.

| lines | actions |
| --- | --- |
| make itself | `Start`, `Consider`, `Finish`, `Kill` |
| `touch $@`, `rm -f` of stamps | `Touch`, `RemoveStamps` |
| `transform --revert`, `--apply` | `Revert`, `BackUp`, `BackUpTorn`, `Munge`, `MungeFails`, `MungeKilled` |
| `apply.pl`, `apply.pl -R` | `Patch`, `Unpatch`, `ApplyPlStops` |
| `unpack`, `install-artwork`, `build-tools`, `build-ooo` | `Unpack`, `UnpackLoses`, `UnpackStops`, `Install`, `InstallLoses`, `InstallStops`, `BuildTools`, `Compile`, `CompileStops` |
| `clean-local` | `Erase`, `EraseKilled` |
| the developer | `EditPatches`, `EditArtwork`, `ForgetUnpack`, `RemoveTree` |

*The tree.* `tree` says whether the files are all there, `applied` and `art`
whether patches and artwork are those of now (`current`), of before an edit
(`stale`), or incomplete; an edit turns `current` into `stale`, so that the number of
edits is not bounded. `font` and `bak` stand for one munged file and its `.bak`.
`compiled` says that the last `build-ooo` ended well on the tree as it is.

*Accidents.* Several scripts do not look at the status of a command: `transform`
always exits with 0, a failing `mv` or `cp` goes unnoticed. A run that is killed
inside `apply.pl`, in `rm -rf`, or before `patch.unapply` has removed the stamp leaves
something no later run can see. `damage` holds the kinds of such accidents that
have not been made good (by unpacking again, say). It is an observation, not
a guard: the invariants say which promises hold in spite of which accidents.
`missed` holds the inputs that were edited after their recipe read them and before
it touched its stamp.

### BonoboControl

One process with several controls and one office. Each callback is one action: the
process has one thread, and a callback runs to its end. `ctl` holds for each
control the fields of `_OOoBonoboControlPrivate` and `_StarFrameWidgetPrivate` that
decide something; `Gone` is a control that has not been made or is finalized.

| code | actions |
| --- | --- |
| `factory`, `ooo_bonobo_control_new`, `getComponentContext` | `Request`, `Resolve`, `Connect` |
| the office process | `OfficeAccepts`, `OfficeDies` |
| `load_uri`, `frame_widget_realize`, `star_frame_widget_unrealize` | `LoadUri`, `Realize`, `Unrealize` |
| `ooo_bonobo_control_activate`, the verbs | `Activate`, `Verb`, `ZoomFitVerb`, `Dispatch` |
| the callbacks of `BonoboZoomable` | `SetZoom`, `ZoomIn`, `ZoomOut`, `ZoomToFit`, `ZoomToDefault`, and `StaleView` when the cached view is that of another document |
| dispose, finalize | `Finalize` |

`factory` says what the process does, `why` how it ended. An office that has gone makes
whatever call comes next throw, and the process is `down`. The office may refuse
any document, also one it has a loader for (the file is damaged, say); the code drops what
`load()` returns (`ooo-bonobo-control.cxx`: 311), so the load counts as done and the
frame stays as it was (`refused`). A call that then needs the document ends the process. A
view is `none`, `current` or `stale`. `polite` observes whether the containers have kept to
the order load, show, use; nothing is assumed of them: every order is in the model.

What holds is stated with these faults in it. `AskedIsShown`: a realized control
has no load left to do and shows what was asked for last, unless it was realized again
or its document was refused. `PoliteIsServed`: while the office lives, polite containers
end the process only if no office comes up or a document is refused. `ZoomIsReported`:
each callback tells the zoom the view has; a polite container is told no other, in
particular none of a view that is gone, and none outside the limits.

### MonoBridge

A call, a lock, an interlocked operation and a call of a registry are one step each.
`ref` is `m_ref` of the proxies and of the bridge, `entries` how often each is
registered, `held` how many references each thread has, `at` where each thread is.
The registries free an object with its last registration; a lookup acquires what
it finds, also an object whose count has fallen to zero and that another thread
is about to revoke, and that registers it again. `keys` is the table `m_objects`
of the managed side, from which nothing is ever removed. Each new bridge
replaces `env`, the environment whose `monitor` serializes `MapUnoToManaged`.

### VbaAreas and VbaRange

A Range is a sequence of areas with two flags (made as rows, as columns). A sheet
is a function from cells to one of a few contents, one of three number formats, a
note and the wrap flag; `lines` has hidden, grouped and broken rows and columns,
`marks` merged areas, the print area and the automatic filter, `view` the selection
and the cursor, `app` the clipboard and the options that outlive a call. Each call
of the macro is an action with the early returns and exceptions of the method; a
call that throws half way leaves what it has done. `wrote` remembers the last
property that was set and that nothing has touched since.

The filter has the area it was made with, a header or none, the fields that have a
condition, and `held`, the rows it hides. A query (`FilterQuery`: `refresh`,
and `Query` of the view) shows all rows of its body and hides those that do not meet the
conditions, any of them in the model; rows that the macro has hidden or shown itself are shown or hidden
with them, and `wrote` forgets what was set for such rows. `lost` are rows whose condition went without a
query: ten of them without a criterion writes the condition away and refreshes nothing
(`vbarange.cxx`: 3978-4041), and these rows stay hidden when the filter is switched off.
`FilterIsTidy` says that no others do.

### VbaMacro and its parts

Each of the six modules has the state of its objects, one action for each method
that changes something, and two operators: what an attribute reads as, and for
which values this is known to differ from what was set (the places are in the
comments, with the reason: a rounding, a constant that stands for two things, a
setter that writes another property). `VbaCalls` keeps in `asked` what has been set;
a method that says it sets something else as well takes that out of `asked`. What
remains must be read back, after any other calls. No method of one kind touches the
state of another: a macro works on one kind (`works`), and the others keep the
state they started in.

So `SetIsRead` has two kinds of exceptions, and both can be found by name. `LosesIt`
(`FormatLoses` and so on) names values that do not come back. Calls that change more
than they are called for are marked where they are, and `asked` forgets what they name:
`WroteAtCost` sets what it is called for and writes over other attributes,
`Clobbers` only does the latter, `Spoils` throws when it has written some. They are:

| module | calls |
| --- | --- |
| `VbaFormat` | ShowInput (writes IgnoreBlank), Superscript and Subscript (end each other), an Add of a validation that throws after it has deleted the settings |
| `VbaChart` | ChartType (the axes, PlotBy), making an Axis object, Crosses and CrossesAt (fix both ends of the scale), getting a ChartObject (renames it) |
| `VbaWindow` | FreezePanes, SplitHorizontal, SplitVertical, Split at the first cell, nested ScreenUpdating, the text of the status bar over its display, Calculation and EnableCalculation |
| `VbaShapes` | Weight, DashStyle and Visible of a line (write each other, or throw when they have), ForeColor, BackColor and SchemeColor of a fill, an increment of a range that throws at a later shape |
| `VbaControls` | Selected of another entry than the last one asked for, AddItem and Clear |

What `SetIsRead` shows is that no call but these loses anything, and these nothing but what they name.
Calls that are meant to change several attributes (a colour and its index, Delete, scrolling) use
`WroteOver` and `Changes`, with the same effect on `asked`.

`Add` of a validation fetches the settings, deletes them in the document (`vbavalidation.cxx`: 250), looks at its
arguments, and writes the settings fetched before back with the new ones: so a call that
succeeds keeps the settings, and one that throws after the deletion leaves the
defaults. Types other than lists and whole numbers are refused by the code; the second
formula and the operator, which no getter reads, are left out.

Lengths of shapes are in hundredths of a point, and converted as
`Millimeter` does, cutting off what is below a hundredth of a millimetre; what was set
may read up to three hundredths of a point less or more, in `ShapesLoses`. The integer
arithmetic of the model stands for the doubles of the code, but for `Scale`, where a
hundredth of a millimetre may get lost. `ObjectsOK` says what the objects of each kind are like
whatever a macro does (no two charts are stored under one name, a shape is on
the sheet once), and that what is remembered as set is of objects that there are.

In `VbaBooks`, documents hold sheets and sheets hold contents. `tossed` has what the
macro was told to do away with. `astray` has what is lost although no call was
asked to: a Move without a place from a workbook that is not the current one
(`vbaworksheet.cxx`: 334-339), saving in a format that does not keep all sheets, an
undeclared exception of Close that aborts the office. Everything else must still be
somewhere.

## Runs

The runs of `PatchEngine` all use the patches of `MCPatchEngine`: a and b in two versions, a, b, d on
file f, c, d on file g, e without effect. That is enough for two patches on one
file in either order, a patch that depends on two others on different files, a
changed patch below or above an unchanged one, and one that is skipped.

| run | lists | tears | states | checks |
| --- | --- | --- | --- | --- |
| `tidy` | tidy | 0 | 3,095 | `IInv`, `FromScratch`, `UnapplyIsSafe`, `StackSpec`, `SkippedIsInTree` |
| `torn` | free | 2 | 146,930 | `TypeOK`, `IInv`, `TreeIsRecorded`, `OverFollowsNumbers`, `RemoveIsSafe`, `AppliedIsComplete`, `AppliedIsRecorded`, `NoLeftover`, `DiscrepancyCounted`, `RunEnds` |
| `skipped`, `unlink`, `buried`, `wide` | free, free, free, growing | 1, 1, 0, 0 | until violated | one property each, see [Findings](#findings) |

`BuildStamps` has two runs:

| run | goals | accidents | states | checks |
| --- | --- | --- | --- | --- |
| `goals` | `build`, `patch.unapply`, `clean` | 1 | 930,477 | `StampInv`, `GoalInv`, `BuiltFromCurrent`, `SettledAfterSuccess`, `PatchesMeetOriginalFonts`, `UnapplyRestores` |
| `unapply` | all | 0 | until violated | `BuildHasAllPatches` |

The number of make runs, edits, kills and failures is not bounded. `MaxAccidents`
bounds the kinds of accidents that are present at a time (`unapply`, which needs no
accident but a failing `apply.pl -R`, is not counted).
"make unpack" and "make patch.apply" add no states but their own ends: each is a
"make build" that is killed after its first targets. `OneTrouble` is a constraint of the run `goals`: states in which an
edit was missed and an accident is present are checked, but what comes after them is
not. All properties of the run are proved without these bounds and for every set of goals, so that
the run only has to meet each single kind of trouble.

*Tidy* lists are edited the way patches are developed: versions of a patch
touch the same files, and a patch never stands without the patches that other
lists have ahead of it on a common file (so new patches come at the end of their
file's patches). For these the engine is as good as unpacking and applying
everything (`FromScratch`) and implements `PatchStack`. *Free* lists also
reorder, insert and drop predecessors. `MaxNum`
bounds the record numbers (a run starts only if its numbers fit): 6 and 8 let
three to four runs with changes follow each other before the developer
unpacks or removes everything. `MaxTears` 2 lets the damage of one torn run meet that of another;
3 tears, or a `MaxNum` of 7, were tried without another result.

The other components have one run each:

| run | instance | states | checks |
| --- | --- | --- | --- |
| `container` | two controls, two addresses of which the office can load one, two attempts, zooms from 95 to 100 | 208,939 | `Wired`, `AskedIsShown`, `PoliteIsServed`, `ZoomIsReported`, `RequestEnds` |
| `threads` | two threads, one managed and one UNO object, two references of a thread to each | 88,138 | `Counts`, `FailsOnlyAfterFree`, `FailsOnlyWithTwoBridges`, `LockIsReturned` |
| `macro` | macros of two calls on a sheet of four cells, starting from six Ranges | 107,154 | `IInv`, `WrittenIsRead`, `CellsInOrder`, `FilterIsTidy`, `BorrowedIsReturned`, `NothingIsLost` |
| `macro_calls` | macros of three calls on each of six kinds of objects | 1,304,677 | `IInv`, `ObjectsOK`, `SetIsRead`, `NothingIsLost` |

Two controls are what it takes for one to end the process of another, and an
address that cannot be loaded reaches the assertion. The two limits of the zoom
are so close that both are met by a step of 1.2. Two threads meet in all windows
of the bridge; a third adds no new pair of places, and the proofs have no bound. A
sheet of two columns and two rows has first and last ones that differ, and Ranges of
two areas lose one to a loop that ends too early. Three calls are enough for a
setter, a call that disturbs it or throws, and one that brings the disturbed state
out; the observations need no further call, since they are compared in every state. In
`macro` and `macro_calls` a macro ends after its calls: deadlock is not checked there.

*Fairness.* `FairSpec` of `PatchEngine` has weak fairness of the script's own steps (`RunStep`):
the process is scheduled and `patch` terminates. Nothing is assumed of
accidents or of the developer. `FairSpec` of `BonoboControl` has weak fairness of
`Resolve` and `Connect`, the loop in which `factory` waits: the process is scheduled,
and `resolve` returns or throws. That the office comes up is not assumed. `FairSpec` of
`MonoBridge` has weak fairness of each thread inside the bridge; whoever waits
for a lock is not promised to get it, since only weak fairness is assumed. The
liveness properties are `RunEnds`, `RequestEnds` and `LockIsReturned`.
Deadlock is checked in all runs but the two of macros: the developer, the container
and the threads can always do something.

Each property has a mutant of the code under which TLC finds it violated; the
mutants stand above the definitions they replace and are named in
`PROJECT.json`.

## Proofs

Every safety property of every passing run is proved, for all values of the constants; a run
checks each of them on a small instance first. Model-checked only are the three liveness properties,
`RunEnds`, `RequestEnds` and `LockIsReturned`, which are out of the prover's reach.

`PatchEngineProofs` proves about the engine, for every set of patches, every family of lists and every
bound, in three parts:

* the records: `TypeCorrect`, and with `CoreInvariant` `NothingLeftOver`,
  `TreeAlwaysRecorded`, `NumbersTellTheOrder`, `RemoveAlwaysSafe`;
* a run: with `RunInvariant` `ListIsRecorded` (`AppliedIsRecorded`),
  `ListIsApplied` (`AppliedIsComplete`), `DamageIsBounded` (`DiscrepancyCounted`);
* tidy lists: `InductiveInvariant` (`Spec => []IInv`), `AsFromScratch`
  (`FromScratch`), `UnapplyAlwaysSafe` (`UnapplyIsSafe`), `SkippedWasApplied`
  (`SkippedIsInTree` when `MaxTears` is 0), `EngineIsAStack` (the refinement
  `StackSpec`, when lists are tidy, `MaxTears` is 0 and `MaxNum` is below `Limit`).

So all the safety properties of the runs `tidy` and `torn` are proved. The
assumptions are the three of `PatchEngine`: the constants have their types,
`Empty` is no patch, and whether a patch is skipped for want of its directories
depends on the files it touches only (`EffectAssumption`). The hypotheses of `SkippedWasApplied` and `EngineIsAStack` are
those of the run `tidy`, and the runs `skipped` and `wide` show that they are needed; `tidy`
lists reach every step of the engine. `FromScratch` and `UnapplyIsSafe` have the same
conditions in the property itself (`Orderly`).

*The core.* `TreeIsRecorded` and `OverFollowsNumbers` are
not inductive. That a record just written gets the highest number needs
`NumbersOK` (numbers are unique, the next one is new), that the window belongs to
one known patch needs `MemoryOK` (whoever is in a window has a last record or a
next position), and that nothing lies over the patch in hand needs `LedgerOK`.
Each is preserved action by action; an action that
tears the run makes the ledger part vacuous, and only `Unpack`, which empties
both stores, sets `tears` back. `PlanOK` is the invariant of the planning loop:
the records still to be matched are named in the rest of the list, one record
for each name; at the end of the list none is left. `RemoveAlwaysSafe` follows:
below `Limit` the last name has the highest number, so nothing lies over its patch.

*The run.* `ListOK` follows the list through a run: each entry the planning loop
has considered is queued, has no effect, or has a record that is kept. At the end the queue
is empty, which is `ListIsRecorded`, and also holds for lists that name a patch twice.
`NamesOK` is the converse, that each record kept is that of an entry; it needs unique names
and a tree without torn runs. `DebtOK` counts: the patches that are half applied or
not recorded, and the records, are together at most as many as the patches that are
both in a store and recorded, and one more for each torn run; in a window one more for the
patch in hand. Bounding the discrepancy itself is not inductive: a patch with two
records is none, and becomes one when it is taken off by one of them.

*The stack.* What lies over what is a relation on the tree that the script does not
see. `Founded` says that each record has below it, with lower numbers, all patches that
some list has ahead of it on a common file; `Grounded` that it lies over nothing else;
`WholePlan` that with a record that comes off, all that stands on it comes off. With
tidy lists they are inductive (`OrderOK`), and `OverOK` says that patches that share a
file are comparable. Together with `OverFollowsNumbers` the order in the tree is then that of the
numbers, which is that of any list: `AsFromScratch`. For the refinement each step is
mapped to a step of `PatchStack` (`TakenFromTheTop`, `PutOnTop`, `ReportedRightly`) or
to none (`StackUntouched`).

`BuildStampsProofs` proves, for every set of goals and any number of accidents:

* `StampsKeepTheirPromise`: `Spec => []StampInv`.
* `UpToDateIsCurrent`: `Spec => []BuiltFromCurrent`.
* `FontsAreReverted`: `Spec => []PatchesMeetOriginalFonts`.

The assumption is that of `BuildStamps`: goals are targets of the makefile, the bound is a
natural number. `BuiltFromCurrent` speaks of a tree in which every stamp is
fresh; to be inductive it needs what each stamp promises alone, while others
are missing (`FontOK`, `PatchesOK`, `ArtworkOK`, `CompiledOK`), what a recipe has
already done at each of its lines, and that a recipe only runs when its stamp is
not fresh and, for all but `unpack` and the phony goals, when the tree has been unpacked
(`RunOK`). The last one is the reason why it is enough that the rule of
`stamp/patch.apply` has no prerequisite for the tree: a serial make considers `unpack`
first. One lemma for each line of a recipe and each step of make and of the developer; in each, one step per
conjunct of `StampInv`.

It also proves:

* `GoalsAreReached`: `Spec => []GoalInv`.
* `BuildIsSettled`: `Spec => []SettledAfterSuccess`.
* `UnapplyPutsBack`: `Spec => []UnapplyRestores`.

`GoalInv` is about the walk of make through its targets. `WalkOK`: whoever has been passed
is fresh but for edits since, because all that a recipe makes stale or removes lies
ahead of it in the walk. `UnapplyOK`: how far the recipe of `patch.unapply` has come, line by line;
before it, the fonts of a whole tree and their backups are in one of four states
(`WholeTreeFonts`), from each of which a revert restores them.

`BonoboControlProofs` proves, for every number of controls, addresses and
attempts, and any zooms:

* `TypesAlways`, `WiredAlways`, `AskedIsShownAlways`, `PoliteIsServedAlways`:
  the three invariants of the run `container`, and the types.
* `ZoomIsReportedAlways`: `Spec => ZoomIsReported`, an action property.

`PoliteIsServed` says how the process may end as long as containers are polite. To be
inductive it needs what politeness gives in between (`PoliteOK`): a control that is
shown has been given a document the office has a loader for, one that is realized shows a
document (when it is refused, realizing ends the process), and a view is never that of an old one; and that the process waits for an office
only while it makes a control (`FactoryOK`). The assumptions are that addresses and controls are not the
null values, and that the limits of the zoom are numbers around 100.

`MonoBridgeProofs` proves, for every finite set of threads, all objects and any bound
on references:

* `CountsAlways`: `Spec => []Counts`.
* `FailsOnlyAfterFreeAlways`, `FailsOnlyWithTwoBridgesAlways`.

`Counts` relates `ref` to the number of references of all threads, a cardinality; each
lemma on a step says by how much the cardinality changes (`OneMore`, `OneLess`),
with the theorems of the library on finite sets. It is not inductive alone: that a
proxy is made only when there is none needs the lock (`LockOK`: who creates or
registers owns it, and no other thread has registered meanwhile); that only
a freed object's key can be met needs `KeysOK`; that two threads are not both inside one
environment needs `MonitorOK`, which is about the newest environment only as long
as there was one bridge. `FreshEnvironment` shows that a new bridge finds an
environment nobody uses, so that the bound on their number restricts nothing.
One lemma for each action; most go through `PlainKeeps`, `StepKeeps` or
`ManagedKeeps`, which say what other threads rely on.

`VbaRangeProofs` proves, for a sheet of any size, any Ranges (with any number of
areas, on the sheet or off it) and contents a macro begins with, and macros of any length:

* `MacroInvariant`: `Spec => []IInv`, with it `SetIsReadBack` (`WrittenIsRead`)
  and `FilterStaysTidy` (`FilterIsTidy`).
* `SelectionReturned` (`BorrowedIsReturned`) and `CutIsSafe` (`NothingIsLost`), two action
  properties.
* `CellsCountInOrder` (`CellsInOrder`).

The assumptions are that the macro begins with Ranges and a sheet of the right types, and that
the bound on calls is a number. `WrittenIsRead` compares what a setter was given with what a
getter says, which is not inductive: a getter asks the first area, the first row, or whether
all cells agree. `Written` says instead what is in each cell, row and column of the areas
that the setter has reached; it is kept by every call that does not say that it disturbs the
property, the ones that throw half way included. The types hold for areas off the sheet as well, since
nothing keeps a Range on it. `FilterIsTidy` needs `FilterOK`: a filter keeps its conditions only
while it is on, and a row it holds back is in the body that the next query goes over, or
lost already; this is why the area of the filter never changes.
Calls that work area by area are folds over the sequence of areas. No theorem of
the library on folds can be used, so `FoldExists` and `FoldKeeps` show by the least
counterexample (`LeastOfNat`) that the function behind a fold exists and what it keeps, and each
such call has a lemma of its own for its step (`ArrayFold`, `FillFold`, `MergeFold` and so on).
`CellsCountInOrder` rests on the arithmetic of quotients (`RowOfIndex`), `CutIsSafe` on where
a cell of a moved area is afterwards (`MovedHasCell`).

`VbaMacroProofs`, with `VbaFormatProofs` and `VbaShapesProofs` below it, proves, for any number
of documents (two at least, which the macro finds open) and of sheets, and macros of any length:

* `BooksInvariant`: `Spec => []IInv`.
* `ContentsAreKept`: `Spec => []NothingIsLost`.
* `ObjectsInvariant`: `Spec => []ObjectsOK`.
* `SetStaysRead`: `Spec => []SetIsRead`.

`NothingIsLost` needs the types and, for the calls that go by the current document, the
active view or the active sheet, that all three exist as long as the macro goes on
(`DocsOK`); this is also why `Escapes`, after which the office is gone, ends all calls. The
lemmas go by what a call does to documents: it writes one (`PutKeeps`, `SheetsKeep`),
opens one (`AddedKeeps`), drops one (`DropKeeps`) or only files and views change
(`StayKeeps`); each says what has to be accounted for. Sheets are put in
and taken out by `Insert` and `Without`, of which `DataInserted` and `DataWithout`
say what they contain. That `FreshName` and `NewName` find a name at all is the
pigeonhole principle of the library (`NameIsFound`).

`SetIsRead` alone is not inductive. A getter may read several properties, and a setter
may derive one from another, so that a call keeps what was set only on objects as setters
leave them. `ObjectsOK` says so for each kind (`FormatOK`, `ChartOK`, `WindowOK`, `ShapesOK`,
`ControlsOK`), and what can have been set: no title of an axis that the diagram does not have, no
position of a shape that was deleted, no value of a name that is not defined (`FormatAsked` and so on).
`ReadsFine` is the two together. `FormatCallKeeps`, `ChartCallKeeps`, `WindowCallKeeps`,
`ControlsCallKeeps` and `ShapesCallKeeps` say that every call of a kind keeps them; under each
there is one lemma for each method, and under those a lemma that says which attributes can read otherwise
when some properties have changed (`FormatLeaves`, `ChartLeaves`, `ControlsLeaves`,
`ShapesLeaves`), so that a method has only to account for its own. That a kind of objects is
untouched while the macro works on another is `FineOfKind`.

The harder lemmas: a chart finds a free number for its name by the pigeonhole principle
(`FreeNameIs`); a sheet without some of its shapes has every other shape once and in the
same order (`RanksAre`), which gives what `ZOrder`, `Delete` and
`Group` do to a position; the type
of a chart is set as one value and read off the properties of its diagram case by case
(the sets `Solid`, `Line`, `Scatter` and so on of `VbaChart` list what there is).
With lengths that were read rounded to whole points `SetIsRead` was not inductive:
`IncrementLeft` may start from a length that lost a fraction, and macros longer than those of the run
drift. The bound of three hundredths of a point in `ShapesLoses` holds
for every length, sum and double of lengths.

## Findings

| run | what the code does |
| --- | --- |
| `skipped` | a run killed between `patch -R` and `unlink` makes the next one print "already applied, skipped" of a patch that is not in the tree |
| `unlink` | `unlink $patch \|\| die` never dies; a run ends well with the record of a patch it took off |
| `buried` | a patch that moves ahead of an applied one on a common file ends up on top of it, and the next change of the lower one makes `patch -R` fail |
| `wide` | `%04d` and string order put record 10000 before 9999, and removal meets a buried patch |
| `unapply` | `make patch.unapply` that does not reach its last line leaves the stamp of the patches, and the next `make` ends well on a tree without all of them |

`wide` runs with numbers to base 2 and a limit of 4, which brings the edge within
a few runs.

## Not modelled

Of the build: `make -j`, two runs of make at the same time, `OOO_GIT_MANAGED`, stamps and
inputs with equal times, the targets after `build`, the second and later conversion of `intro.bmp`
as a state of its own, files unpacked from a single tarball over an old tree (`SPLIT`
is `yes`). Of the engine:
The text of patches and fuzz; `--defuzz`; `check_tag`, which dies before anything is touched;
two runs of `apply.pl` at the same time on one tree; a tree in which directories
appear between two `--pieces` runs (`NoEffect` is constant); lists that name a
patch twice (`AppliedIsComplete` assumes they do not). Statistics, packaging, test
automation, configuration, translations and the experiments under `scratch/`
other than the bridge and the VBA objects are output, data or sequences of file copies without
state that a later run trusts. The selection of patches, the downloader and `gob` have
such state and are planned.

Of the bonobo control: menus, windows and contents of documents, and the
calls in the middle of a callback, which runs in one step (an office that dies
during a callback is one that died before it). Of the bridge: calls of methods through
a proxy, several interface types of one object, and the collector. Of the VBA
objects: Find, TextToColumns, Consolidate, AdvancedFilter and hyperlinks of a Range;
series of charts; page setup, passwords and import filters of documents; format
conditions, styles, characters, dialogs, pivot tables, worksheet functions and the
globals. What the office does with a property is modelled from how the code uses it;
Calc leaves rows that a filter hides out of copies to the clipboard, which is not modelled; a
macro has one document object of each kind at a time, except for `VbaBooks`, which
has up to `MaxDocs` documents of `MaxSheets` sheets.

## Plan

In this order, the engine first because everything else builds on its promise:

1. `PatchStack`, `PatchEngine`, their runs and proofs: done.
2. `BuildStamps`, its runs and proofs: done for a serial make. Left: a parallel make, where
   recipes of independent targets run at the same time.
3. `PatchSelect`: `select_subset`, `process_cond_targets`, `rules_pass`,
   `list_patches` as functions against the boolean meaning of a section; hotfixes
   over several distros; `applyflags`, `defuzzpatch`.
4. `Download`, then `GobBump` and `GobExport`: restartable sequences.
5. `BonoboControl` with the remote office, its run and proofs: done.
6. `MonoBridge`, its run and proofs: done for one interface type. Left: calls through a proxy.
7. `VbaAreas`, `VbaRange`, `VbaMacro` and its parts: done for what the tables name. Left:
   format conditions and styles.
8. Further proofs: done for all safety properties of the runs.
