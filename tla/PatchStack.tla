----------------------------- MODULE PatchStack -----------------------------
(***************************************************************************)
(* What patches/apply.pl promises its user, without records, plans or      *)
(* half-done runs: a patch is put on top of the tree, it is taken off only *)
(* when no other patch lies over it, and "applied" is reported only when   *)
(* the tree is the one a fresh unpack and an application of the whole list *)
(* would give.                                                             *)
(***************************************************************************)
EXTENDS Naturals, Sequences

CONSTANTS
    Diff,       \* patches
    Lists,      \* lists that may be asked for
    Skip,       \* patches without effect on these sources
    Overlap     \* the pairs of patches that touch a common file

VARIABLES
    applied,    \* patches in the tree
    over,       \* which patch lies over which
    list,       \* the list asked for last
    reported    \* whether that list was reported as applied

vars == <<applied, over, list, reported>>

\* The tree that the list gives on pristine sources.
Wanted(l) == {l[i] : i \in DOMAIN l} \ Skip
WantedOver(l) ==
    {p \in Overlap :
        /\ {p[1], p[2]} \cap Skip = {}
        /\ \E i, j \in DOMAIN l : i < j /\ p = <<l[j], l[i]>>}

Init ==
    /\ applied = {} /\ over = {}
    /\ list = <<>> /\ reported = FALSE

Ask(l) ==
    /\ list' = l
    /\ reported' = FALSE
    /\ UNCHANGED <<applied, over>>

Put(d) ==
    /\ ~reported
    /\ d \in Diff \ (Skip \cup applied)
    /\ applied' = applied \cup {d}
    /\ over' = over \cup {<<d, e>> : e \in {x \in applied : <<d, x>> \in Overlap}}
    /\ UNCHANGED <<list, reported>>

Take(d) ==
    /\ ~reported
    /\ d \in applied
    /\ \A e \in applied : <<e, d>> \notin over
    /\ applied' = applied \ {d}
    /\ over' = {p \in over : p[1] # d}
    /\ UNCHANGED <<list, reported>>

Report ==
    /\ applied = Wanted(list)
    /\ over = WantedOver(list)
    /\ reported' = TRUE
    /\ UNCHANGED <<applied, over, list>>

\* the sources are unpacked again
Fresh ==
    /\ applied' = {} /\ over' = {}
    /\ reported' = FALSE
    /\ UNCHANGED list

Next ==
    \/ \E l \in Lists \cup {list} : Ask(l)
    \/ \E d \in Diff : Put(d) \/ Take(d)
    \/ Report
    \/ Fresh

Spec == Init /\ [][Next]_vars
=============================================================================
