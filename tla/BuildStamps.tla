---------------------------- MODULE BuildStamps ----------------------------
(***************************************************************************)
(* Makefile.shared: how make takes the source tree from tarballs to a      *)
(* build.  Every target is a stamp file that the last line of its recipe   *)
(* touches; make remakes a target whose stamp is missing or older than one *)
(* of its prerequisites and trusts every other.  The recipes change the    *)
(* tree line by line, and a run may fail or be killed at every line.       *)
(*                                                                         *)
(* Clocks are not modelled, only what make asks of them: old is the set of *)
(* stamps that have a newer prerequisite.  Versions are relative: what was *)
(* made from the present patches or artwork is "current" and becomes       *)
(* "stale" when the developer edits them, so edits need no bound.          *)
(*                                                                         *)
(* make runs one job at a time and OOO_GIT_MANAGED is empty.  apply.pl is  *)
(* one line of a recipe here; its own steps are the module PatchEngine.    *)
(***************************************************************************)
EXTENDS Naturals, Sequences, FiniteSets

CONSTANTS
    Goals,          \* what the developer asks make for
    MaxAccidents    \* bound: kinds of accidents in the tree at a time

Stamp == {"unpack", "patch.apply", "prebuild", "artwork.install",
          "build.tools", "build_prepared", "build"}
Phony == {"patch.unapply", "clean"}

ASSUME GoalAssumption ==
    /\ Goals \subseteq {"unpack", "patch.apply", "build"} \cup Phony
    /\ MaxAccidents \in Nat

VARIABLES
    \* the stamp files
    exists,     \* those that are there
    old,        \* those of them that are older than a prerequisite
    \* the build directory
    tree,       \* the unpacked sources
    applied,    \* the patches in them
    font,       \* a file that transform munges, VCL.xcu
    bak,        \* its .bak file
    art,        \* the installed artwork
    compiled,   \* the last build-ooo ended well, on the tree as it is now
    \* the run of make
    goal,
    walk,       \* targets make has still to consider; the first may be running
    line,       \* the line of its recipe that is next; 0: not started
    outcome,
    \* observation
    missed,     \* inputs edited after a recipe read them, before it was done
    damage      \* what has gone wrong and was not reported, or not undone

directory == <<tree, applied, font, bak, art>>
run       == <<goal, walk, line, outcome>>
vars      == <<exists, old, directory, compiled, run, missed, damage>>

Input == {"patches", "artwork"}

(***************************************************************************)
(* The accidents that a later run cannot see:                              *)
(*   records  apply.pl was killed (what that may mean is in PatchEngine)   *)
(*   fonts    transform left a part of the font file, or of its backup     *)
(*   mv       a package was unpacked but not moved into the tree           *)
(*   copy     an artwork file was not copied or not converted              *)
(*   clean    "rm -rf" of the tree was killed                              *)
(*   unapply  patch.unapply stopped before it removed the stamp            *)
(***************************************************************************)
Accident == {"records", "fonts", "mv", "copy", "clean", "unapply"}

Spoiled(a) ==
    /\ damage' = damage \cup {a}
    /\ Cardinality(damage' \ {"unapply"}) <= MaxAccidents

\* What a line does to the tree makes the build one of another tree.
KeepBuild == compiled' = (compiled /\ directory' = directory)

TypeOK ==
    /\ exists \subseteq Stamp
    /\ old \subseteq exists
    /\ tree \in {"none", "part", "full"}
    /\ applied \in {"none", "mixed", "stale", "current"}
    /\ font \in {"gone", "part", "orig", "munged"}
    /\ bak \in {"none", "part", "orig", "munged"}
    /\ art \in {"none", "part", "stale", "current"}
    /\ compiled \in BOOLEAN
    /\ goal \in Goals \cup {"none"}
    /\ walk \in Seq(Stamp \cup Phony)
    /\ line \in 0..6
    /\ outcome \in {"none", "running", "done"}
    /\ missed \subseteq Input
    /\ damage \subseteq Accident

(***************************************************************************)
(* The rules.                                                              *)
(***************************************************************************)
\* Mutant: the artwork is no part of what a build needs.
PreparedNoArt == {"unpack", "patch.apply", "build.tools", "prebuild"}
Prepared == {"unpack", "patch.apply", "artwork.install", "build.tools", "prebuild"}

\* The stamps a stamp depends on.  Patches and artwork are inputs, see Edit.
Prerequisites(t) ==
    CASE t = "prebuild"        -> {"unpack"}
      [] t = "artwork.install" -> {"unpack", "prebuild"}
      [] t = "build.tools"     -> {"prebuild"}
      [] t = "build_prepared"  -> Prepared
      [] t = "build"           -> {"build_prepared"}
      [] OTHER                 -> {}

\* Mutant: the tools are made before the directories they go to.
WalkToolsFirst(g) ==
    <<"unpack", "patch.apply", "build.tools", "prebuild", "artwork.install",
      "build_prepared", "build">>

\* The order in which a serial make considers the targets a goal needs.
Walk(g) ==
    CASE g = "unpack"      -> <<"unpack">>
      [] g = "patch.apply" -> <<"unpack", "patch.apply">>
      [] g = "build"       -> <<"unpack", "patch.apply", "prebuild",
                                "artwork.install", "build.tools",
                                "build_prepared", "build">>
      [] OTHER             -> <<g>>

\* Mutant: patches are taken off without reverting the fonts.
UnapplyNoRevert == <<"unpatch", "rm">>
UnapplyLines == <<"revert", "unpatch", "rm">>

\* The lines of a recipe that change something.
Recipe(t) ==
    CASE t = "unpack"          -> <<"revert", "unpatch", "unpack", "rm", "touch">>
      [] t = "patch.apply"     -> <<"revert", "patch", "backup", "munge", "rm",
                                    "touch">>
      [] t = "artwork.install" -> <<"install", "touch">>
      [] t = "build.tools"     -> <<"tools", "touch">>
      [] t = "build"           -> <<"compile", "touch">>
      [] t = "patch.unapply"   -> UnapplyLines
      [] t = "clean"           -> <<"rm", "erase">>
      [] OTHER                 -> <<"touch">>

\* Mutant: unpacking leaves the stamp of the patches alone.
UnpackedNotPatches == {"build", "artwork.install"}
UnpackedAnew == {"build", "patch.apply", "artwork.install"}

\* The stamps an "rm" line removes; that of unpack is in the tree.
RemovedBy(t) ==
    CASE t = "unpack"        -> UnpackedAnew
      [] t = "patch.apply"   -> {"build"}
      [] t = "patch.unapply" -> {"patch.apply"}
      [] t = "clean"         -> {"artwork.install", "patch.apply", "prebuild",
                                 "build.tools", "build"}
      [] OTHER               -> {}

Dependents(t) == {s \in Stamp : t \in Prerequisites(s)}

Fresh(t) == t \in exists \ old

(***************************************************************************)
(* The run.                                                                *)
(***************************************************************************)
Running == outcome = "running"
Target  == Head(walk)

At(l) == Running /\ line > 0 /\ Recipe(Target)[line] = l

\* The line has ended well: the next one, or the next target.
GoOn ==
    /\ IF line = Len(Recipe(Target))
       THEN walk' = Tail(walk) /\ line' = 0
       ELSE line' = line + 1 /\ UNCHANGED walk
    /\ UNCHANGED <<goal, outcome>>

\* The line has failed or was killed, and make with it.
Stop ==
    /\ walk' = <<>>
    /\ line' = 0
    /\ outcome' = "none"
    /\ goal' = "none"

Start(g) ==
    /\ ~Running
    /\ goal' = g
    /\ walk' = Walk(g)
    /\ line' = 0
    /\ outcome' = "running"
    /\ UNCHANGED <<exists, old, directory, compiled, missed, damage>>

Consider ==
    /\ Running
    /\ line = 0
    /\ walk # <<>>
    /\ IF Fresh(Target) THEN walk' = Tail(walk) /\ UNCHANGED line
                        ELSE line' = 1 /\ UNCHANGED walk
    /\ UNCHANGED <<exists, old, directory, compiled, goal, outcome, missed, damage>>

Finish ==
    /\ Running
    /\ walk = <<>>
    /\ outcome' = "done"
    /\ UNCHANGED <<exists, old, directory, compiled, goal, walk, line, missed, damage>>

Touch ==
    /\ At("touch")
    /\ exists' = exists \cup {Target}
    /\ old' = (old \ {Target}) \cup (Dependents(Target) \cap exists)
    /\ damage' = IF Target = "patch.apply" THEN damage \ {"unapply"} ELSE damage
    /\ GoOn
    /\ UNCHANGED <<directory, compiled, missed>>

RemoveStamps ==
    /\ At("rm")
    /\ exists' = exists \ RemovedBy(Target)
    /\ old' = old \ RemovedBy(Target)
    /\ damage' = IF "patch.apply" \in RemovedBy(Target) THEN damage \ {"unapply"}
                                                        ELSE damage
    /\ GoOn
    /\ UNCHANGED <<directory, compiled, missed>>

\* A run killed between two lines, or while a line is waiting to start.
Kill ==
    /\ Running
    /\ Stop
    /\ UNCHANGED <<exists, old, directory, compiled, missed, damage>>

(***************************************************************************)
(* bin/transform.  It always exits with 0.  font-munge is "perl -pi.bak":  *)
(* it renames the file to its .bak, over the copy, and writes a new one.   *)
(***************************************************************************)
Revert ==
    /\ At("revert")
    /\ IF bak = "none" THEN UNCHANGED <<font, bak>>
                       ELSE font' = bak /\ bak' = "none"
    /\ damage' =
         (IF bak = "orig" THEN damage \ {"fonts"} ELSE damage)
           \cup {a \in {"unapply"} :
                    Target = "patch.unapply" /\ "patch.apply" \in exists}
    /\ GoOn
    /\ UNCHANGED <<exists, old, tree, applied, art, missed>>
    /\ KeepBuild

BackUp ==
    /\ At("backup")
    /\ bak' = IF font = "gone" THEN bak ELSE font
    /\ GoOn
    /\ UNCHANGED <<exists, old, tree, applied, font, art, missed, damage>>
    /\ KeepBuild

\* cp stops half way; only a kill ends the run.
BackUpTorn ==
    /\ At("backup")
    /\ font # "gone"
    /\ bak' = "part"
    /\ Spoiled("fonts")
    /\ GoOn \/ Stop
    /\ UNCHANGED <<exists, old, tree, applied, font, art, missed>>
    /\ KeepBuild

Munge ==
    /\ At("munge")
    /\ IF font = "gone" THEN UNCHANGED <<font, bak, damage>>
       ELSE /\ font' = IF font = "part" THEN "part" ELSE "munged"
            /\ bak' = font
            /\ damage' = IF font = "orig" THEN damage \ {"fonts"} ELSE damage
    /\ GoOn
    /\ UNCHANGED <<exists, old, tree, applied, art, missed>>
    /\ KeepBuild

\* perl cannot open the file, or cannot write all of the new one.
MungeFails ==
    /\ At("munge")
    /\ font # "gone"
    /\ \/ UNCHANGED <<font, bak>>
       \/ font' = "part" /\ bak' = font
    /\ Spoiled("fonts")
    /\ GoOn
    /\ UNCHANGED <<exists, old, tree, applied, art, missed>>
    /\ KeepBuild

MungeKilled ==
    /\ At("munge")
    /\ font # "gone"
    /\ font' = "part"
    /\ bak' = font
    /\ Stop
    /\ UNCHANGED <<exists, old, tree, applied, art, missed, damage>>
    /\ KeepBuild

(***************************************************************************)
(* patches/apply.pl, as PatchEngine promises it: success means exactly the *)
(* listed patches, or none, on a whole tree and records that no kill tore. *)
(***************************************************************************)
Reliable == tree = "full" /\ "records" \notin damage

Patch ==
    /\ At("patch")
    /\ applied' \in IF Reliable THEN {"current"} ELSE {"current", "mixed"}
    /\ missed' = missed \ {"patches"}
    /\ GoOn
    /\ UNCHANGED <<exists, old, tree, font, bak, art, damage>>
    /\ KeepBuild

Unpatch ==
    /\ At("unpatch")
    /\ \/ applied' = "none"
       \/ ~Reliable /\ applied # "none" /\ applied' = "mixed"
    /\ GoOn
    /\ UNCHANGED <<exists, old, tree, font, bak, art, missed, damage>>
    /\ KeepBuild

\* A patch is refused, or apply.pl is killed.
ApplyPlStops ==
    /\ At("patch") \/ At("unpatch")
    /\ applied' \in {applied, "mixed"}
    /\ UNCHANGED damage \/ Spoiled("records")
    /\ Stop
    /\ UNCHANGED <<exists, old, tree, font, bak, art, missed>>
    /\ KeepBuild

(***************************************************************************)
(* bin/unpack removes the tree and unpacks every package into a new one.   *)
(***************************************************************************)
Unpack ==
    /\ At("unpack")
    /\ tree' = "full"
    /\ applied' = "none"
    /\ font' = "orig"
    /\ bak' = "none"
    /\ art' = "none"
    /\ damage' = damage \cap {"unapply"}
    /\ GoOn
    /\ UNCHANGED <<exists, old, missed>>
    /\ KeepBuild

\* The mv of a package into the tree is not checked.
UnpackLoses ==
    /\ At("unpack")
    /\ tree' = "part"
    /\ applied' = "none"
    /\ font' \in {"orig", "gone"}
    /\ bak' = "none"
    /\ art' = "none"
    /\ MaxAccidents > 0
    /\ damage' = (damage \cap {"unapply"}) \cup {"mv"}
    /\ GoOn
    /\ UNCHANGED <<exists, old, missed>>
    /\ KeepBuild

\* An archive is missing or broken, or the script is killed on the way.
UnpackStops ==
    /\ At("unpack")
    /\ tree' \in {tree, "none", "part"}
    /\ IF tree' = tree THEN UNCHANGED <<applied, font, bak, art>>
       ELSE /\ applied' \in {"none", "mixed"}
            /\ font' \in {font, "gone", "part", "orig"}
            /\ bak' = "none"
            /\ art' \in {art, "none"}
    /\ Stop
    /\ UNCHANGED <<exists, old, missed, damage>>
    /\ KeepBuild

(***************************************************************************)
(* The other recipes.                                                      *)
(***************************************************************************)
Install ==
    /\ At("install")
    /\ art' = "current"
    /\ missed' = missed \ {"artwork"}
    /\ GoOn
    /\ UNCHANGED <<exists, old, tree, applied, font, bak, damage>>
    /\ KeepBuild

\* Most copies, and the conversion of intro.bmp, may fail unnoticed.
InstallLoses ==
    /\ At("install")
    /\ art' = "part"
    /\ missed' = missed \ {"artwork"}
    /\ Spoiled("copy")
    /\ GoOn
    /\ UNCHANGED <<exists, old, tree, applied, font, bak>>
    /\ KeepBuild

InstallStops ==
    /\ At("install")
    /\ art' \in {art, "part"}
    /\ Stop
    /\ UNCHANGED <<exists, old, tree, applied, font, bak, missed, damage>>
    /\ KeepBuild

BuildTools ==
    /\ At("tools")
    /\ GoOn
    /\ UNCHANGED <<exists, old, directory, compiled, missed, damage>>

Compile ==
    /\ At("compile")
    /\ compiled' = TRUE
    /\ GoOn
    /\ UNCHANGED <<exists, old, directory, missed, damage>>

CompileStops ==
    /\ At("compile")
    /\ compiled' = FALSE
    /\ Stop
    /\ UNCHANGED <<exists, old, directory, missed, damage>>

\* clean-local: rm -rf $(OOBUILDDIR), with the stamp of unpack in it
NoTree ==
    /\ tree' = "none"
    /\ applied' = "none"
    /\ font' = "gone"
    /\ bak' = "none"
    /\ art' = "none"
    /\ exists' = exists \ {"unpack"}
    /\ old' = old \ {"unpack"}
    /\ damage' = damage \cap {"unapply"}

Erase ==
    /\ At("erase")
    /\ NoTree
    /\ GoOn
    /\ UNCHANGED <<missed>>
    /\ KeepBuild

\* Killed: any file may be gone, that of the stamp as well.
EraseKilled ==
    /\ At("erase")
    /\ tree # "none"
    /\ tree' = "part"
    /\ applied' \in {"none", "mixed"}
    /\ font' \in {font, "gone"}
    /\ bak' \in {bak, "none"}
    /\ art' \in {art, "none", "part"}
    /\ exists' \in {exists, exists \ {"unpack"}}
    /\ old' = old \cap exists'
    /\ Spoiled("clean")
    /\ Stop
    /\ UNCHANGED <<missed>>
    /\ KeepBuild

(***************************************************************************)
(* The developer.                                                          *)
(***************************************************************************)
Aged(v) == IF v = "current" THEN "stale" ELSE v

\* A .diff file, the apply file or apply.pl itself, which configure writes.
EditPatches ==
    /\ applied' = Aged(applied)
    /\ old' = old \cup (exists \cap {"patch.apply"})
    /\ missed' = IF Running /\ line > 2 /\ Target = "patch.apply"
                 THEN missed \cup {"patches"} ELSE missed
    /\ UNCHANGED <<exists, tree, font, bak, art, compiled, run, damage>>

\* One of src/*.png and src/*.bmp: other pictures are no prerequisites.
EditArtwork ==
    /\ art' = Aged(art)
    /\ old' = old \cup (exists \cap {"artwork.install"})
    /\ missed' = IF Running /\ line > 1 /\ Target = "artwork.install"
                 THEN missed \cup {"artwork"} ELSE missed
    /\ UNCHANGED <<exists, tree, applied, font, bak, compiled, run, damage>>

\* The stamp, or the whole tree, is removed to have it unpacked anew.
ForgetUnpack ==
    /\ ~Running
    /\ exists' = exists \ {"unpack"}
    /\ old' = old \ {"unpack"}
    /\ outcome' = "none"
    /\ goal' = "none"
    /\ UNCHANGED <<directory, compiled, walk, line, missed, damage>>

RemoveTree ==
    /\ ~Running
    /\ NoTree
    /\ outcome' = "none"
    /\ goal' = "none"
    /\ UNCHANGED <<walk, line, missed>>
    /\ KeepBuild

Init ==
    /\ exists = {}
    /\ old = {}
    /\ tree = "none"
    /\ applied = "none"
    /\ font = "gone"
    /\ bak = "none"
    /\ art = "none"
    /\ compiled = FALSE
    /\ goal = "none"
    /\ walk = <<>>
    /\ line = 0
    /\ outcome = "none"
    /\ missed = {}
    /\ damage = {}

Make      == Consider \/ Finish \/ Touch \/ RemoveStamps \/ Kill
Transform == Revert \/ BackUp \/ BackUpTorn \/ Munge \/ MungeFails \/ MungeKilled
ApplyPl   == Patch \/ Unpatch \/ ApplyPlStops
Scripts   ==
    \/ Unpack \/ UnpackLoses \/ UnpackStops
    \/ Install \/ InstallLoses \/ InstallStops
    \/ BuildTools \/ Compile \/ CompileStops
    \/ Erase \/ EraseKilled
Developer ==
    \/ \E g \in Goals : Start(g)
    \/ EditPatches \/ EditArtwork \/ ForgetUnpack \/ RemoveTree

Next == Make \/ Transform \/ ApplyPl \/ Scripts \/ Developer

Spec == Init /\ [][Next]_vars

(***************************************************************************)
(* Properties.                                                             *)
(***************************************************************************)
UpToDate == exists = Stamp /\ old = {}

\* When make would find nothing to do, and no accident went unreported, the
\* build is one of the whole tree with the present patches, the present
\* artwork and the munged fonts; an edit can be missing only if it was made
\* after the recipe had read the patches and before its stamp was touched.
BuiltFromCurrent ==
    UpToDate /\ damage = {} =>
        /\ tree = "full"
        /\ compiled
        /\ font = "munged"
        /\ applied = IF "patches" \in missed THEN "stale" ELSE "current"
        /\ art = IF "artwork" \in missed THEN "stale" ELSE "current"

\* A successful "make" leaves nothing to do but what was edited meanwhile: it
\* makes the stamps in an order in which none is older than what it needs.
SettledAfterSuccess ==
    outcome = "done" /\ goal = "build" =>
        exists = Stamp /\ old \subseteq {"patch.apply", "artwork.install"}

\* apply.pl never meets a munged font file, whose lines no patch would fit,
\* and never with a backup beside it that a later revert would put back over
\* what was patched.
PatchesMeetOriginalFonts ==
    At("patch") \/ At("unpatch") =>
        /\ bak = "none"
        /\ damage = {} \/ damage = {"unapply"} => font # "munged"

\* After a successful patch.unapply the sources are as they were unpacked.
UnapplyRestores ==
    outcome = "done" /\ goal = "patch.unapply" =>
        /\ bak = "none"
        /\ (tree = "full" /\ damage = {}) => (applied = "none" /\ font = "orig")

(***************************************************************************)
(* The invariant behind them.  A stamp is a promise about the tree that    *)
(* holds while unpack's stamp is there, unless an accident is known; the   *)
(* lines of a recipe build the promise up before its stamp is touched.     *)
(***************************************************************************)
Doing(t)       == line > 0 /\ Target = t
Without(kinds) == \A k \in kinds : k \notin damage

PatchesAsRead == applied = IF "patches" \in missed THEN "stale" ELSE "current"
ArtworkAsRead == art = IF "artwork" \in missed THEN "stale" ELSE "current"
Decorated     == font = "munged" /\ bak = "orig"

RunOK ==
    /\ line > 0 => Running /\ walk # <<>> /\ line <= Len(Recipe(Target))
    /\ line > 0 /\ Target \in Stamp => ~Fresh(Target)
    /\ "unpack" \notin old
    /\ walk \in Seq(Stamp) \/ walk \in {<<p>> : p \in Phony}
    /\ Running /\ walk # <<>> =>
         Target = "unpack" \/ Target \in Phony \/ "unpack" \in exists

TreeOK ==
    /\ "unpack" \in exists => tree = "full" \/ ~Without({"mv", "clean"})
    /\ Doing("unpack") /\ line > 3 => tree = "full" \/ ~Without({"mv", "clean"})

FontOK ==
    /\ Without({"fonts", "mv", "clean"}) =>
         /\ font = "munged" => bak = "orig"
         /\ bak \in {"none", "orig"}
    /\ Without({"fonts", "mv", "clean"}) /\ "unpack" \in exists =>
         <<font, bak>> \in {<<"orig", "none">>, <<"orig", "orig">>,
                            <<"munged", "orig">>, <<"part", "orig">>}
    /\ (Doing("patch.apply") \/ Doing("patch.unapply")) /\ line = 2 => bak = "none"
    /\ Doing("unpack") /\ line > 1 => bak = "none"
    /\ Without({"fonts", "mv", "clean"}) /\ Doing("unpack") /\ line > 3 =>
         font = "orig"

StampsGone ==
    /\ Doing("unpack") /\ line > 4 => RemovedBy("unpack") \cap exists = {}
    /\ Doing("clean") /\ line > 1 => RemovedBy("clean") \cap exists = {}
    /\ Doing("patch.unapply") /\ line > 1 /\ "patch.apply" \in exists =>
         "unapply" \in damage

PatchesOK ==
    /\ Doing("patch.apply") /\ Without({"fonts", "mv", "clean"}) =>
         /\ line \in {2, 3} => font = "orig" /\ bak = "none"
         /\ line = 4 => font = "orig" /\ bak = "orig"
         /\ line > 4 => Decorated
    /\ Doing("patch.apply") /\ line > 2 /\ Without({"records", "mv", "clean"}) =>
         PatchesAsRead
    /\ Fresh("patch.apply") /\ "unpack" \in exists /\ "unapply" \notin damage =>
         /\ Without({"fonts", "mv", "clean"}) => Decorated
         /\ Without({"records", "mv", "clean"}) => PatchesAsRead

ArtworkOK ==
    Without({"mv", "copy", "clean"}) =>
        /\ Doing("artwork.install") /\ line > 1 => ArtworkAsRead
        /\ Fresh("artwork.install") /\ "unpack" \in exists => ArtworkAsRead

CompiledOK ==
    /\ Doing("build") /\ line > 1 => compiled
    /\ UpToDate /\ damage = {} => compiled

\* Inductive: what every stamp promises, and what a running recipe has
\* already done for the stamp it is about to touch.
StampInv ==
    TypeOK /\ RunOK /\ TreeOK /\ FontOK /\ StampsGone /\ PatchesOK /\ ArtworkOK
    /\ CompiledOK

(***************************************************************************)
(* And behind what a goal promises.  A run for "build" leaves every target *)
(* it has gone by settled, because what a target makes older or removes    *)
(* comes later in the walk; patch.unapply restores one thing per line.     *)
(***************************************************************************)
Edited   == {"patch.apply", "artwork.install"}
Ahead(i) == {walk[j] : j \in i + 1 .. Len(walk)}
Passed   == Stamp \ {walk[i] : i \in DOMAIN walk}

WalkOK ==
    /\ outcome = "done" => walk = <<>>
    /\ goal = "build" =>
         /\ \A i \in DOMAIN walk :
              /\ walk[i] \in Stamp
              /\ Dependents(walk[i]) \cup RemovedBy(walk[i]) \subseteq Ahead(i)
         /\ Passed \subseteq exists
         /\ old \cap Passed \subseteq Edited

FontRestored ==
    bak = "none" /\ (tree = "full" /\ Without({"fonts", "mv", "clean"}) => font = "orig")
PatchesRestored ==
    tree = "full" /\ Without({"records"}) => applied = "none"

WholeTreeFonts ==
    tree = "full" /\ Without({"fonts", "mv", "clean"}) =>
        <<font, bak>> \in {<<"orig", "none">>, <<"orig", "orig">>,
                           <<"munged", "orig">>, <<"part", "orig">>}

UnapplyOK ==
    /\ WholeTreeFonts
    /\ Doing("patch.unapply") =>
         /\ line > 1 => FontRestored
         /\ line > 2 => PatchesRestored
    /\ goal = "patch.unapply" =>
         IF walk = <<>> THEN FontRestored /\ PatchesRestored
                        ELSE Target = "patch.unapply"

\* Inductive, together with StampInv.
GoalInv == WalkOK /\ UnapplyOK

\* doc/intro.txt:126 "It applies all the selected patches", whatever happened
\* before: a "make" that ends well leaves a tree that has them all.
BuildHasAllPatches ==
    outcome = "done" /\ goal = "build" /\ "patch.apply" \notin old
      /\ missed = {} /\ damage \subseteq {"unapply"} =>
        applied = "current"
=============================================================================
