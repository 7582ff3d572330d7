--------------------------- MODULE MCPatchEngine ---------------------------
(***************************************************************************)
(* Small instances of PatchEngine.  Patches a and b have two versions; a,  *)
(* b and d change file f, c and d change file g, e changes a file of a     *)
(* directory that is not unpacked (--pieces).                              *)
(***************************************************************************)
EXTENDS PatchEngine

CONSTANTS a1, a2, b1, b2, c1, d1, e1, f, g, h

MCName == {"a", "b", "c", "d", "e"}
MCFile == {f, g, h}
MCDiff == {a1, a2, b1, b2, c1, d1, e1}

MCNameOf ==
    [x \in MCDiff |-> CASE x \in {a1, a2} -> "a"
                        [] x \in {b1, b2} -> "b"
                        [] x = c1 -> "c"
                        [] x = d1 -> "d"
                        [] x = e1 -> "e"]

MCFilesOf ==
    [x \in MCDiff |-> CASE x \in {a1, a2, b1, b2} -> {f}
                        [] x = c1 -> {g}
                        [] x = d1 -> {f, g}
                        [] x = e1 -> {h}]

\* Patches are added, changed and dropped, and b and d never stand without the
\* patches that were ahead of them.
TidyLists == {<<c1>>, <<a1, e1, b1>>, <<c1, a2, b1>>, <<c1, a1, d1>>, <<a2, b2>>}

\* A patch is inserted ahead of one it shares a file with, the list is
\* reordered, the predecessor of a patch is dropped.
FreeLists == {<<b1, e1>>, <<a1, b1>>, <<b1, a1>>, <<a1, b2>>, <<a2, d1, c1>>}

\* The same patch changes again and again below one that stays.
GrowingLists == {<<a1, c1>>, <<a2, c1>>, <<a2, c1, d1>>}
=============================================================================
