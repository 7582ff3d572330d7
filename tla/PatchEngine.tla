---------------------------- MODULE PatchEngine ----------------------------
(***************************************************************************)
(* patches/apply.pl: the engine that puts a list of patches onto the       *)
(* unpacked source tree and takes them off again.                          *)
(*                                                                         *)
(* A run is one invocation of the script.  What survives a run is the      *)
(* source tree and the directory applied_patches, in which every applied   *)
(* patch leaves a copy of itself, a record named NNNN-<patch>.diff.  The   *)
(* tree and the records are two stores written one after the other, and    *)
(* the run can die or be killed between the two.                           *)
(*                                                                         *)
(* Two patches that share no file commute, so the tree is not kept as text *)
(* but as the set of patches that are in it and, for each two of them that *)
(* share a file, which one lies over the other.                            *)
(***************************************************************************)
EXTENDS Naturals, Sequences, FiniteSets

CONSTANTS
    Name,       \* basenames of patch files
    File,       \* files of the source tree
    Diff,       \* contents of patch files; two versions of a patch are two Diffs
    NameOf,     \* the basename a Diff is stored under
    FilesOf,    \* the files named in a Diff's headers (patched_files)
    NoEffect,   \* Diffs a --pieces run skips: none of their top directories exists
    Empty,      \* content of a record that copy() created but did not fill
    Lists,      \* what list_patches() may return as the apply file is edited
    Radix,      \* 10: records are numbered in decimal
    Limit,      \* 10^4: the first number "%04d" prints with one digit more
    MaxNum,     \* bound: a run starts only if its numbers stay within 1..MaxNum
    MaxTears    \* bound: how often a run is torn between the tree and a record

ASSUME DataAssumption ==
    /\ NameOf \in [Diff -> Name]
    /\ FilesOf \in [Diff -> SUBSET File]
    /\ NoEffect \subseteq Diff
    /\ Empty \notin Diff
    /\ Lists \subseteq Seq(Diff)

\* patch_has_no_effect() looks at nothing but the files of a patch.
ASSUME EffectAssumption ==
    \A d, e \in Diff : FilesOf[d] = FilesOf[e] => (d \in NoEffect <=> e \in NoEffect)

ASSUME NumberAssumption ==
    /\ Radix \in Nat \ {0}
    /\ Limit \in Nat
    /\ MaxNum \in Nat
    /\ MaxTears \in Nat

VARIABLES
    \* what outlives a run
    applied,    \* the Diffs that are in the source tree
    over,       \* <<d, e>>: d was put onto a file that e had already changed
    half,       \* Diffs of which only some hunks are in the tree
    records,    \* the record files of applied_patches
    \* the memory of the run
    pc,
    list,       \* @Patches
    cursor,     \* the entry of @Patches the planning loop is at
    existing,   \* %existing_patches
    patched,    \* %patched
    todo,       \* @to_unapply, or what remove_patches still has to remove
    queue,      \* @to_apply, as positions of @Patches
    num,        \* $patch_num
    \* observation
    outcome,    \* how the last run ended
    tears       \* how often a run was torn between the tree and a record

tree   == <<applied, over, half>>
memory == <<list, cursor, existing, patched, todo, queue, num>>
vars   == <<tree, records, pc, memory, outcome, tears>>

RecordFile == [num : Nat, name : Name, diff : Diff \cup {Empty}]

(***************************************************************************)
(* Names and order of the records.  glob() and sort compare file names as  *)
(* strings; below Limit all the numbers have the same length and that is   *)
(* the order of the numbers.  A number with one digit more sorts by its    *)
(* leading digits, after the shorter number made of the same digits.       *)
(***************************************************************************)
NameLess(m, n) ==
    IF m < Limit THEN IF n < Limit THEN m < n ELSE m <= n \div Radix
                 ELSE IF n < Limit THEN m \div Radix < n ELSE m < n

\* Mutant: records taken in the order of the list, not last one first.
IsFirstName(r, S) == \A s \in S : s = r \/ NameLess(r.num, s.num)
IsLastName(r, S) == \A s \in S : s = r \/ NameLess(s.num, r.num)

ListedDiffs(l) == {l[i] : i \in DOMAIN l}
\* Mutant: no patch is ever found to be obsolete.
AnyName(l) == Name
ListedNames(l) == {NameOf[l[i]] : i \in DOMAIN l}

\* %existing_patches is keyed by the name without its number: of two records
\* of one patch the later one in glob order replaces the other.
Survivors ==
    {r \in records : IsLastName(r, {s \in records : s.name = r.name})}

\* Mutant: the files of a patch that comes off are forgotten.
TouchedNothing(c) == {}
\* patched_files() of the content of a record
Touched(c) == IF c \in Diff THEN FilesOf[c] ELSE {}

Share(d, e) == FilesOf[d] \cap FilesOf[e] # {}

(***************************************************************************)
(* GNU patch, as do_patch calls it.                                        *)
(***************************************************************************)
Effective(c) == c \in Diff \ NoEffect

Buried(d) == \E e \in applied : <<e, d>> \in over

\* "patch -R" finds the lines it has to take out only if they are there; an
\* empty file and a patch without effect reverse to nothing, successfully.
CanReverse(c) == Effective(c) => c \in applied

\* It may refuse what is not there or was changed by a later patch.
MayRefuseReverse(c) ==
    /\ Effective(c)
    /\ \/ c \notin applied
       \/ Buried(c)
       \/ \E h \in half : Share(h, c)

Without(d, rel) == {p \in rel : p[1] # d /\ p[2] # d}

TakeOut(c) ==
    /\ applied' = applied \ {c}
    /\ over' = Without(c, over)

PutOn(d) ==
    /\ applied' = applied \cup {d}
    /\ over' = over \cup {<<d, e>> : e \in {x \in applied : Share(d, x)}}

-----------------------------------------------------------------------------
(* The end of a process: its memory is gone. *)
Exit(o) ==
    /\ pc' = "idle"
    /\ outcome' = o
    /\ cursor' = 1
    /\ existing' = {}
    /\ patched' = {}
    /\ todo' = {}
    /\ queue' = {}
    /\ num' = 0

Init ==
    /\ applied = {} /\ over = {} /\ half = {} /\ records = {}
    /\ pc = "idle" /\ list = <<>>
    /\ cursor = 1 /\ existing = {} /\ patched = {} /\ todo = {} /\ queue = {}
    /\ num = 0 /\ outcome = "none" /\ tears = 0

-----------------------------------------------------------------------------
(* apply_patches: what to take off and what to put on *)

StartApply(l) ==
    /\ pc = "idle"
    /\ \A r \in records : r.num + Len(l) <= MaxNum
    /\ Len(l) <= MaxNum
    /\ list' = l
    /\ existing' = {r \in Survivors : r.name \in ListedNames(l)}
    /\ todo' = Survivors \ existing'
    /\ patched' = UNION {Touched(r.diff) : r \in todo'}
    /\ queue' = {} /\ cursor' = 1 /\ num' = 0
    /\ pc' = "plan"
    /\ outcome' = "running"
    /\ UNCHANGED <<tree, records, tears>>

Planning == pc = "plan" /\ cursor <= Len(list)

RecordOf(r, d) == r \in existing /\ r.name = NameOf[d]

\* Mutants: only the content or only the files are looked at.
UpToDateContent(r, d) == r.diff = d
UpToDateFiles(r, d) == FilesOf[d] \cap patched = {}
UpToDate(r, d) == r.diff = d /\ FilesOf[d] \cap patched = {}

\* "already applied, skipped"
KeepEntry ==
    /\ Planning
    /\ \E r \in existing :
         /\ RecordOf(r, list[cursor])
         /\ UpToDate(r, list[cursor])
         /\ existing' = existing \ {r}
    /\ cursor' = cursor + 1
    /\ UNCHANGED <<tree, records, pc, list, patched, todo, queue, num, outcome, tears>>

\* the patch changed, or a patch that shares a file with it is taken off
ReplaceEntry ==
    /\ Planning
    /\ \E r \in existing :
         /\ RecordOf(r, list[cursor])
         /\ ~UpToDate(r, list[cursor])
         /\ todo' = todo \cup {r}
         /\ patched' = patched \cup Touched(r.diff)
         /\ existing' = existing \ {r}
    /\ queue' = queue \cup {cursor}
    /\ cursor' = cursor + 1
    /\ UNCHANGED <<tree, records, pc, list, num, outcome, tears>>

NewEntry ==
    /\ Planning
    /\ \A r \in existing : ~RecordOf(r, list[cursor])
    /\ queue' = queue \cup {cursor}
    /\ cursor' = cursor + 1
    /\ UNCHANGED <<tree, records, pc, list, existing, patched, todo, num, outcome, tears>>

PlanDone ==
    /\ pc = "plan" /\ cursor > Len(list)
    /\ pc' = "unapply"
    /\ UNCHANGED <<tree, records, memory, outcome, tears>>

-----------------------------------------------------------------------------
(* Taking patches off: the first loop of apply_patches, last record first  *)
(* ("unapply", "unlink"), and the loop of remove_patches ("remove",        *)
(* "erase").                                                               *)

StartRemove ==
    /\ pc = "idle"
    /\ todo' = records
    /\ pc' = "remove"
    /\ outcome' = "running"
    /\ UNCHANGED <<tree, records, list, cursor, existing, patched, queue, num, tears>>

Reversing(r) ==
    /\ pc \in {"unapply", "remove"}
    /\ r \in todo
    /\ IsLastName(r, todo)

ReversePatch ==
    /\ \E r \in todo : Reversing(r) /\ CanReverse(r.diff) /\ TakeOut(r.diff)
    /\ pc' = IF pc = "unapply" THEN "unlink" ELSE "erase"
    /\ UNCHANGED <<half, records, memory, outcome, tears>>

\* "Testing patch $patch_file failed."
RefuseReverse ==
    /\ \E r \in todo : Reversing(r) /\ MayRefuseReverse(r.diff)
    /\ Exit("failed")
    /\ UNCHANGED <<tree, records, list, tears>>

Unlinking(r) ==
    /\ pc \in {"unlink", "erase"}
    /\ r \in todo
    /\ IsLastName(r, todo)

NextReversal == pc' = IF pc = "unlink" THEN "unapply" ELSE "remove"

\* Mutant: the record is not unlinked.
KeepRecord ==
    /\ \E r \in todo : Unlinking(r) /\ todo' = todo \ {r}
    /\ NextReversal
    /\ UNCHANGED <<tree, records, list, cursor, existing, patched, queue, num,
                   outcome, tears>>

UnlinkRecord ==
    /\ \E r \in todo :
         /\ Unlinking(r)
         /\ records' = records \ {r}
         /\ todo' = todo \ {r}
    /\ NextReversal
    /\ UNCHANGED <<tree, list, cursor, existing, patched, queue, num, outcome, tears>>

\* rmdir
RemoveDone ==
    /\ pc = "remove" /\ todo = {}
    /\ Exit("removed")
    /\ UNCHANGED <<tree, records, list, tears>>

-----------------------------------------------------------------------------
(* apply_patches: putting on what is queued, in the order of the list *)

NumberPatches ==
    /\ pc = "unapply" /\ todo = {}
    /\ \E n \in {r.num : r \in records} \cup {0} :
         /\ \A r \in records : r.num <= n
         /\ num' = n + 1
    /\ pc' = "apply"
    /\ UNCHANGED <<tree, records, list, cursor, existing, patched, todo, queue,
                   outcome, tears>>

IsNext(i) == i \in queue /\ \A j \in queue : i <= j

\* Mutant: a patch that is skipped stays in the queue.
SkipPatchAgain ==
    /\ pc = "apply"
    /\ \E i \in queue : IsNext(i) /\ list[i] \in NoEffect
    /\ UNCHANGED vars

\* "sloppily skipping...": nothing is recorded either
SkipPatch ==
    /\ pc = "apply"
    /\ \E i \in queue : IsNext(i) /\ list[i] \in NoEffect /\ queue' = queue \ {i}
    /\ UNCHANGED <<tree, records, pc, list, cursor, existing, patched, todo, num,
                   outcome, tears>>

ApplyPatch ==
    /\ pc = "apply"
    /\ \E i \in queue :
         /\ IsNext(i)
         /\ list[i] \notin NoEffect \cup applied \cup half
         /\ PutOn(list[i])
    /\ pc' = "copy"
    /\ UNCHANGED <<half, records, memory, outcome, tears>>

\* A patch may not fit the tree, and one that is already there never does.
RefuseApply ==
    /\ pc = "apply"
    /\ \E i \in queue : IsNext(i) /\ list[i] \notin NoEffect
    /\ Exit("failed")
    /\ UNCHANGED <<tree, records, list, tears>>

\* Mutants: the record is stored under the path of the patch, under the number
\* of the last one, without its content.
RecordForPath(i, c)   == [num |-> num, name |-> list[i], diff |-> c]
RecordForLast(i, c)   == [num |-> num - 1, name |-> NameOf[list[i]], diff |-> c]
RecordForNothing(i, c) == [num |-> num, name |-> NameOf[list[i]], diff |-> Empty]
RecordFor(i, c) == [num |-> num, name |-> NameOf[list[i]], diff |-> c]

\* copy() creates the file ...
CreateRecord ==
    /\ pc = "copy"
    /\ \E i \in queue : IsNext(i) /\ records' = records \cup {RecordFor(i, Empty)}
    /\ pc' = "fill"
    /\ UNCHANGED <<tree, memory, outcome, tears>>

\* ... and then writes the patch into it
FillRecord ==
    /\ pc = "fill"
    /\ \E i \in queue :
         /\ IsNext(i)
         /\ records' = (records \ {RecordFor(i, Empty)}) \cup {RecordFor(i, list[i])}
         /\ queue' = queue \ {i}
    /\ num' = num + 1
    /\ pc' = "apply"
    /\ UNCHANGED <<tree, list, cursor, existing, patched, todo, outcome, tears>>

\* Mutant: the loop ends before its last patch.
ApplyDoneEarly ==
    /\ pc = "apply" /\ Cardinality(queue) <= 1
    /\ Exit(IF existing = {} THEN "applied" ELSE "leftover")
    /\ UNCHANGED <<tree, records, list, tears>>

ApplyDone ==
    /\ pc = "apply" /\ queue = {}
    /\ Exit(IF existing = {} THEN "applied" ELSE "leftover")
    /\ UNCHANGED <<tree, records, list, tears>>

-----------------------------------------------------------------------------
(* What stops a run *)

\* between two patches the tree and the records agree
Kill ==
    /\ pc \in {"plan", "unapply", "remove", "apply"}
    /\ Exit("killed")
    /\ UNCHANGED <<tree, records, list, tears>>

Tear == tears < MaxTears /\ tears' = tears + 1

\* after the tree was changed and before the record was
KillInside ==
    /\ pc \in {"unlink", "erase", "copy", "fill"}
    /\ Tear
    /\ Exit("killed")
    /\ UNCHANGED <<tree, records, list>>

\* "unlink $patch || die" tests $patch and remove_patches tests nothing: the
\* run goes on although the record stays
UnlinkFails ==
    /\ Tear
    /\ \E r \in todo : Unlinking(r) /\ todo' = todo \ {r}
    /\ NextReversal
    /\ UNCHANGED <<tree, records, list, cursor, existing, patched, queue, num, outcome>>

\* "Failed to patch": the dry run passed and patch stopped half way, or was killed
BreakReverse ==
    /\ Tear
    /\ \E r \in todo :
         /\ Reversing(r)
         /\ Effective(r.diff)
         /\ r.diff \in applied
         /\ TakeOut(r.diff)
         /\ half' = half \cup {r.diff}
    /\ Exit("failed")
    /\ UNCHANGED <<records, list>>

BreakApply ==
    /\ pc = "apply"
    /\ Tear
    /\ \E i \in queue :
         /\ IsNext(i)
         /\ list[i] \notin NoEffect \cup applied
         /\ half' = half \cup {list[i]}
    /\ Exit("failed")
    /\ UNCHANGED <<applied, over, records, list>>

-----------------------------------------------------------------------------
(* The developer between two runs *)

Recorded == {r.diff : r \in records} \ {Empty}

\* "you will need to manually reverse this patch"
ManualReverse(d) ==
    /\ pc = "idle"
    /\ d \in (half \cup applied) \ Recorded
    /\ ~Buried(d)
    /\ TakeOut(d)
    /\ half' = half \ {d}
    /\ outcome' = "none"
    /\ UNCHANGED <<records, pc, memory, tears>>

\* the build directory is removed and unpacked again
Unpack ==
    /\ pc = "idle"
    /\ applied' = {} /\ over' = {} /\ half' = {} /\ records' = {}
    /\ outcome' = "none"
    /\ tears' = 0
    /\ UNCHANGED <<pc, memory>>

-----------------------------------------------------------------------------
Plan    == KeepEntry \/ ReplaceEntry \/ NewEntry \/ PlanDone
TakeOff == ReversePatch \/ RefuseReverse \/ UnlinkRecord \/ RemoveDone
PutAll  == NumberPatches \/ SkipPatch \/ ApplyPatch \/ RefuseApply
             \/ CreateRecord \/ FillRecord \/ ApplyDone

\* the steps of the script itself
RunStep == Plan \/ TakeOff \/ PutAll

Accident == Kill \/ KillInside \/ UnlinkFails \/ BreakReverse \/ BreakApply

Developer ==
    \/ \E l \in Lists : StartApply(l)
    \/ StartRemove
    \/ \E d \in Diff : ManualReverse(d)
    \/ Unpack

Next == RunStep \/ Accident \/ Developer

Spec == Init /\ [][Next]_vars

FairSpec == Spec /\ WF_vars(RunStep)
-----------------------------------------------------------------------------
(* Types *)

Windows  == {"unlink", "erase", "copy", "fill"}
Phases   == {"idle", "plan", "unapply", "apply", "remove"} \cup Windows
Outcomes == {"none", "running", "failed", "killed", "applied", "removed", "leftover"}

(* Every variable holds a value the script can give it; in particular      *)
(* "lies over" relates patches that are in the tree.                       *)
TypeOK ==
    /\ applied \subseteq Diff
    /\ over \subseteq applied \X applied
    /\ half \subseteq Diff
    /\ records \subseteq RecordFile
    /\ pc \in Phases
    /\ list \in Seq(Diff)
    /\ cursor \in Nat \ {0}
    /\ existing \subseteq RecordFile
    /\ patched \subseteq File
    /\ todo \subseteq RecordFile
    /\ queue \subseteq DOMAIN list
    /\ num \in Nat
    /\ outcome \in Outcomes
    /\ tears \in Nat

-----------------------------------------------------------------------------
(* Safety, whatever the apply file looks like *)

DiffsIn(S) == {r.diff : r \in S}

(* The two stores agree as long as no run was torn: outside the windows    *)
(* the tree holds exactly the recorded patches, each recorded once, and    *)
(* inside a window it differs from them by the one patch in hand.  It is   *)
(* what lets a run that died anywhere else simply be started again.        *)
TreeIsRecorded ==
    tears = 0 =>
      /\ half = {}
      /\ \A r, s \in records : r.diff = s.diff => r = s
      /\ pc \notin Windows => applied = DiffsIn(records)
      /\ pc \in {"unlink", "erase"} =>
           \A r \in todo : IsLastName(r, todo) => applied = DiffsIn(records \ {r})
      /\ pc \in {"copy", "fill"} =>
           \A i \in queue : IsNext(i) =>
             /\ list[i] \notin DiffsIn(records)
             /\ applied = (DiffsIn(records) \ {Empty}) \cup {list[i]}

(* A patch that lies over another one has the higher number, so that the   *)
(* numbers tell in which order the patches come off.                       *)
OverFollowsNumbers ==
    tears = 0 =>
      \A r, s \in records : <<r.diff, s.diff>> \in over => s.num < r.num

RemovalSucceeds ==
    tears = 0 =>
      /\ pc = "remove" =>
           \A r \in todo : IsLastName(r, todo) => ~MayRefuseReverse(r.diff)
      /\ outcome = "removed" => applied = {} /\ records = {}

(* remove_patches (make patch.unapply) takes everything off: no patch it   *)
(* comes to is missing or buried under another one, so none is refused,    *)
(* and the tree it leaves is the unpacked one.  It takes fewer than 10^4   *)
(* numbers: see StepsAreReversible.                                        *)
RemoveIsSafe ==
    MaxNum < Limit => RemovalSucceeds

\* Every list names a patch once.
UniqueNames ==
    \A l \in Lists : \A i, j \in DOMAIN l : NameOf[l[i]] = NameOf[l[j]] => i = j

(* A run of apply_patches that ends well leaves the patches of the list    *)
(* (less those skipped) in the tree and in the records, and no others,     *)
(* through however many failed and killed runs it came about.              *)
AppliedIsComplete ==
    UniqueNames /\ tears = 0 /\ outcome = "applied" =>
      /\ applied = ListedDiffs(list) \ NoEffect
      /\ Recorded = applied

(* Even after torn runs a run that ends well has recorded its whole list.  *)
AppliedIsRecorded ==
    outcome = "applied" => ListedDiffs(list) \ NoEffect \subseteq Recorded

(* "Error - leftover obsolete patches" is dead code: the planning loop     *)
(* accounts for every record that it did not declare obsolete.             *)
NoLeftover == outcome # "leftover"

(* A patch about which the tree and the records disagree between two runs  *)
(* is the doing of a torn run, at most one patch for each: no later run    *)
(* makes the damage spread.                                                *)
Discrepancy == half \cup (applied \ Recorded) \cup (Recorded \ applied)

DiscrepancyCounted ==
    pc = "idle" => Cardinality(Discrepancy) <= tears

(* A patch reported as "already applied, skipped" is in the tree.          *)
SkippedIsInTree == [][KeepEntry => list[cursor] \in applied]_vars

-----------------------------------------------------------------------------
(* What a run remembers, and what the stores hold *)

\* Which part of a run's memory is in use in which phase.
MemoryOK ==
    /\ pc # "idle" => outcome = "running"
    /\ pc = "idle" => existing = {} /\ todo = {} /\ queue = {}
    /\ pc \in {"remove", "erase"} => existing = {} /\ queue = {}
    /\ pc \in {"apply", "copy", "fill"} => todo = {}
    /\ todo \subseteq records
    /\ pc \in {"unlink", "erase"} => \E r \in todo : IsLastName(r, todo)
    /\ pc \in {"copy", "fill"} => \E i \in queue : IsNext(i)

\* The planning loop: the records still to be matched are named in the rest of
\* the list, one record for each name.
PlanOK ==
    /\ pc = "plan" =>
         /\ existing \subseteq records
         /\ \A r, s \in existing : r.name = s.name => r = s
         /\ \A r \in existing : \E i \in cursor .. Len(list) : NameOf[list[i]] = r.name
    /\ pc \in {"unapply", "unlink", "apply", "copy", "fill"} => existing = {}
    /\ outcome # "leftover"

\* No number is used twice, the next one is new, and all stay below the bound.
NumbersOK ==
    /\ \A r, s \in records : r.num = s.num => r = s
    /\ \A r \in records : r.num <= MaxNum
    /\ pc \in {"plan", "unapply", "unlink"} =>
         /\ Len(list) <= MaxNum
         /\ \A r \in records : r.num + Len(list) <= MaxNum
    /\ pc \in {"apply", "copy", "fill"} =>
         \A i \in queue : num + Len(list) <= MaxNum + i
    /\ pc \in {"apply", "copy"} => \A r \in records : r.num < num
    /\ pc = "fill" =>
         \A r \in records : r.num < num \/ \E i \in queue : IsNext(i) /\ r = RecordFor(i, Empty)

\* TreeIsRecorded, what lies over what, and what a remove run still has to do.
LedgerOK ==
    tears = 0 =>
      /\ \A r \in records : r.diff = Empty => pc = "fill" /\ r.num = num
      /\ pc \in {"remove", "erase"} => todo = records
      /\ pc \in {"copy", "fill"} =>
           \A i \in queue : IsNext(i) => \A d \in Diff : <<d, list[i]>> \notin over
      /\ outcome = "removed" => applied = {} /\ records = {}

-----------------------------------------------------------------------------
(* Safety, when the apply file is edited the way patches are developed:    *)
(* the versions of a patch change the same files, and a patch never        *)
(* appears without the patches that other lists have ahead of it on a file *)
(* the two share.                                                          *)
Tidy ==
    /\ UniqueNames
    /\ \A d, e \in Diff : NameOf[d] = NameOf[e] => FilesOf[d] = FilesOf[e]
    /\ \A l, m \in Lists : \A i, j \in DOMAIN l : \A k \in DOMAIN m :
         i < j /\ Share(l[i], l[j]) /\ NameOf[m[k]] = NameOf[l[j]]
           => \E h \in DOMAIN m : h < k /\ NameOf[m[h]] = NameOf[l[i]]

ListOrder(l) ==
    {p \in Diff \X Diff :
        /\ Share(p[1], p[2]) /\ {p[1], p[2]} \cap NoEffect = {}
        /\ \E i, j \in DOMAIN l : i < j /\ p = <<l[j], l[i]>>}

\* The properties of tidy lists hold as long as the numbers have four digits
\* and no run was torn.
Orderly == Tidy /\ MaxNum < Limit /\ tears = 0

(* Incremental application is worth as much as unpacking and applying      *)
(* everything: the patches lie over each other in the order of the list.   *)
FromScratch ==
    Orderly /\ outcome = "applied" => over = ListOrder(list)

(* The first loop of apply_patches takes a patch off only after all that   *)
(* lies over it (the point of is_dependent_patch), so nothing is refused.  *)
UnapplyIsSafe ==
    Orderly /\ pc = "unapply" =>
      \A r \in todo : IsLastName(r, todo) => ~MayRefuseReverse(r.diff)

(* The engine keeps the promise of PatchStack: a patch is put on top or    *)
(* taken from the top, and success is reported of the right tree only.     *)
Stack ==
    INSTANCE PatchStack WITH
        Skip <- NoEffect,
        Overlap <- {p \in Diff \X Diff : Share(p[1], p[2])},
        reported <- outcome = "applied"

StackSpec == Stack!Spec

-----------------------------------------------------------------------------
(* The inductive invariant behind these *)

\* Patches that a run skips are in no store; the patch in hand is in the tree
\* and not skipped, or out of it; no patch is both whole and half.
StoresOK ==
    /\ (applied \cup half) \cap NoEffect = {}
    /\ applied \cap half = {}
    /\ \A r \in records :
         r.diff # Empty => r.diff \notin NoEffect /\ r.name = NameOf[r.diff]
    /\ pc \in {"unlink", "erase"} =>
         \A r \in todo : IsLastName(r, todo) => r.diff \notin applied \cup half
    /\ pc \in {"copy", "fill"} =>
         \A i \in queue : IsNext(i) => list[i] \in applied

\* The list of a run, or of the run that ended well: its entries so far are
\* queued, skipped or have a record that will be kept.
InList     == pc \in {"plan", "unapply", "unlink", "apply", "copy", "fill"} \/ outcome = "applied"
Considered == {i \in DOMAIN list : pc = "plan" => i < cursor}
Kept       == records \ (todo \cup existing)

ListOK ==
    /\ list \in Lists \cup {<<>>}
    /\ existing \cap todo = {}
    /\ queue \subseteq Considered
    /\ InList =>
         \A i \in Considered : i \in queue \/ list[i] \in NoEffect \cup DiffsIn(Kept)

\* And every kept record is that of an entry.
NamesOK ==
    UniqueNames /\ tears = 0 =>
      /\ \A r, s \in records : r.name = s.name => r = s
      /\ InList =>
           \A r \in Kept :
             r.diff = Empty \/ \E i \in Considered \ queue : list[i] = r.diff

\* Each tear is to blame for one patch that is half applied or not recorded,
\* or for one record too many.
Loose  == half \cup (applied \ Recorded)
Filled == {r \in records : r.diff # Empty}
Placed == (applied \cup half) \cap Recorded

DebtOK ==
    /\ IsFiniteSet(applied) /\ IsFiniteSet(half) /\ IsFiniteSet(records)
    /\ LET debt == Cardinality(Loose) + Cardinality(Filled) IN
         /\ pc \notin Windows => debt <= Cardinality(Placed) + tears
         /\ pc \in {"unlink", "erase"} =>
              \A r \in todo : IsLastName(r, todo) =>
                debt <= Cardinality(Placed) + tears + IF r.diff = Empty THEN 0 ELSE 1
         /\ pc \in {"copy", "fill"} =>
              \A i \in queue : IsNext(i) =>
                IF list[i] \in Recorded THEN debt + 1 <= Cardinality(Placed) + tears
                                       ELSE debt <= Cardinality(Placed) + tears + 1

\* Of two patches in the tree that share a file one lies over the other.
OverOK ==
    \A d, e \in applied :
      /\ <<d, e>> \in over => Share(d, e)
      /\ d # e /\ Share(d, e) => <<d, e>> \in over \/ <<e, d>> \in over

\* Some list has patch n ahead of patch m on a file the two share.
StandsOn(m, n) ==
    \E l \in Lists : \E i, j \in DOMAIN l :
      i < j /\ Share(l[i], l[j]) /\ NameOf[l[i]] = n /\ NameOf[l[j]] = m

\* With tidy lists the records are always a good beginning for any list: each
\* has under it what it stands on in any of them, and lies over nothing else.
Founded ==
    \A s \in Filled : \A d \in Diff \ NoEffect :
      StandsOn(s.name, NameOf[d]) => \E r \in Filled : r.name = NameOf[d] /\ r.num < s.num

Grounded ==
    \A r, s \in Filled :
      r.num < s.num /\ Share(r.diff, s.diff) => StandsOn(s.name, r.name)

\* A patch comes off only with all that stands on it.
WholePlan ==
    /\ pc \in {"plan", "unapply", "unlink"} =>
         \A r \in todo, s \in records : StandsOn(s.name, r.name) => s \in todo \cup existing
    /\ pc = "plan" => \A r \in todo : Touched(r.diff) \subseteq patched

OrderOK == Orderly => Founded /\ Grounded /\ WholePlan

IInv ==
    /\ TypeOK /\ MemoryOK /\ PlanOK /\ NumbersOK
    /\ LedgerOK /\ TreeIsRecorded /\ OverFollowsNumbers
    /\ StoresOK /\ ListOK /\ NamesOK /\ DebtOK
    /\ OverOK /\ OrderOK /\ FromScratch

-----------------------------------------------------------------------------
(* Liveness *)

(* Every run comes to an end, whatever earlier runs left behind: each of   *)
(* its loops uses up a finite list.                                        *)
RunEnds == pc # "idle" ~> pc = "idle"

-----------------------------------------------------------------------------
(* What the program says of itself and does not keep *)

(* doc/intro.txt: "All these steps are reversible."                        *)
(* What was applied comes off again, whatever the numbers of its records.  *)
StepsAreReversible == RemovalSucceeds

(* doc/intro.txt: "It is very helpful, for example, for creating and       *)
(* testing incremental patches."  A patch that was changed can be taken    *)
(* off to be put on again, whatever order the list has.                    *)
ChangedPatchComesOff ==
    tears = 0 /\ pc = "unapply" =>
      \A r \in todo : IsLastName(r, todo) => ~MayRefuseReverse(r.diff)

(* apply.pl: die "Can't remove $patch $!"                                  *)
(* A run that ends well has removed the records of the patches it took off.*)
RemovedRecordsAreGone ==
    UniqueNames /\ outcome = "applied" => Recorded \subseteq ListedDiffs(list)
=============================================================================
