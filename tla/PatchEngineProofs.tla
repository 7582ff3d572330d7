------------------------- MODULE PatchEngineProofs -------------------------
(***************************************************************************)
(* Proofs about PatchEngine, for every set of patches, every family of     *)
(* lists and every bound: first the types, the memory of a run and the     *)
(* agreement of tree and records; then the result of a run, what one that  *)
(* ends well has put into the tree and recorded and how much harm those    *)
(* that were torn can have done; last, on tidy lists, that applying        *)
(* incrementally is worth as much as unpacking and applying everything,    *)
(* that no patch is refused on the way, and that the engine keeps the      *)
(* promise of PatchStack.                                                  *)
(***************************************************************************)
EXTENDS PatchEngine, FiniteSetTheorems, TLAPS

-----------------------------------------------------------------------------
(* Type correctness *)

LEMMA InitTypeOK == Init => TypeOK
BY DEF Init, TypeOK, Phases, Outcomes, RecordFile

\* The end of a process resets its memory to well-typed values.
LEMMA ExitTypeOK ==
    ASSUME TypeOK, NEW o \in Outcomes, Exit(o),
           applied' \subseteq Diff, over' \subseteq applied' \X applied',
           half' \subseteq Diff, records' \subseteq RecordFile,
           list' = list, tears' \in Nat
    PROVE  TypeOK'
BY DEF TypeOK, Exit, Phases

\* Taking a patch out of the tree leaves a tree.
LEMMA TakeOutTypeOK ==
    ASSUME TypeOK, NEW c, TakeOut(c)
    PROVE  applied' \subseteq Diff /\ over' \subseteq applied' \X applied'
BY DEF TypeOK, TakeOut, Without

\* Putting a patch on a tree leaves a tree.
LEMMA PutOnTypeOK ==
    ASSUME TypeOK, NEW d \in Diff, PutOn(d)
    PROVE  applied' \subseteq Diff /\ over' \subseteq applied' \X applied'
BY DEF TypeOK, PutOn

\* What a record is made of.
LEMMA RecordForType ==
    ASSUME TypeOK, NEW i \in queue, NEW c \in Diff \cup {Empty}
    PROVE  /\ list[i] \in Diff
           /\ RecordFor(i, c) \in RecordFile
<1>1. list[i] \in Diff
  BY DEF TypeOK
<1>2. NameOf[list[i]] \in Name
  BY <1>1, DataAssumption
<1>3. QED
  BY <1>1, <1>2 DEF TypeOK, RecordFor, RecordFile

LEMMA NextTypeOK == TypeOK /\ [Next]_vars => TypeOK'
<1> SUFFICES ASSUME TypeOK, [Next]_vars PROVE TypeOK'
  OBVIOUS
<1> USE DEF tree, memory
<1>1. ASSUME NEW l \in Lists, StartApply(l) PROVE TypeOK'
  <2>1. l \in Seq(Diff)
    BY DataAssumption
  <2>2. Survivors \subseteq RecordFile
    BY DEF Survivors, TypeOK
  <2>3. \A r \in todo' : Touched(r.diff) \subseteq File
    BY DataAssumption DEF Touched
  <2>4. patched' \subseteq File
    BY <1>1, <2>3 DEF StartApply
  <2>5. QED
    BY <1>1, <2>1, <2>2, <2>4 DEF StartApply, TypeOK, Phases, Outcomes
<1>2. CASE KeepEntry
  BY <1>2 DEF KeepEntry, TypeOK, Planning
<1>3. CASE ReplaceEntry
  <2>1. PICK r \in existing : patched' = patched \cup Touched(r.diff) /\ todo' = todo \cup {r}
                               /\ existing' = existing \ {r}
    BY <1>3 DEF ReplaceEntry
  <2>2. Touched(r.diff) \subseteq File
    BY DataAssumption DEF Touched
  <2>3. cursor \in DOMAIN list
    BY <1>3 DEF ReplaceEntry, Planning, TypeOK
  <2>4. QED
    BY <1>3, <2>1, <2>2, <2>3 DEF ReplaceEntry, TypeOK
<1>4. CASE NewEntry
  <2>1. cursor \in DOMAIN list
    BY <1>4 DEF NewEntry, Planning, TypeOK
  <2>2. QED
    BY <1>4, <2>1 DEF NewEntry, TypeOK
<1>5. CASE PlanDone
  BY <1>5 DEF PlanDone, TypeOK, Phases
<1>6. CASE StartRemove
  BY <1>6 DEF StartRemove, TypeOK, Phases, Outcomes
<1>7. CASE ReversePatch
  BY <1>7, TakeOutTypeOK DEF ReversePatch, TypeOK, Phases, Windows
<1>8. CASE RefuseReverse
  BY <1>8, ExitTypeOK DEF RefuseReverse, Outcomes, TypeOK
<1>9. CASE UnlinkRecord
  BY <1>9 DEF UnlinkRecord, NextReversal, TypeOK, Phases
<1>10. CASE RemoveDone
  BY <1>10, ExitTypeOK DEF RemoveDone, Outcomes, TypeOK
<1>11. CASE NumberPatches
  <2>1. num' \in Nat
    BY <1>11 DEF NumberPatches, TypeOK, RecordFile
  <2>2. QED
    BY <1>11, <2>1 DEF NumberPatches, TypeOK, Phases
<1>12. CASE SkipPatch
  BY <1>12 DEF SkipPatch, TypeOK
<1>13. CASE ApplyPatch
  <2>1. PICK i \in queue : PutOn(list[i])
    BY <1>13 DEF ApplyPatch
  <2>2. list[i] \in Diff
    BY DEF TypeOK
  <2>3. QED
    BY <1>13, <2>1, <2>2, PutOnTypeOK DEF ApplyPatch, TypeOK, Phases, Windows
<1>14. CASE RefuseApply
  BY <1>14, ExitTypeOK DEF RefuseApply, Outcomes, TypeOK
<1>15. CASE CreateRecord
  BY <1>15, RecordForType DEF CreateRecord, TypeOK, Phases, Windows
<1>16. CASE FillRecord
  <2>1. PICK i \in queue :
          /\ records' = (records \ {RecordFor(i, Empty)}) \cup {RecordFor(i, list[i])}
          /\ queue' = queue \ {i}
    BY <1>16 DEF FillRecord
  <2>2. records' \subseteq RecordFile
    BY <2>1, RecordForType DEF TypeOK
  <2>3. QED
    BY <1>16, <2>1, <2>2 DEF FillRecord, TypeOK, Phases
<1>17. CASE ApplyDone
  BY <1>17, ExitTypeOK DEF ApplyDone, Outcomes, TypeOK
<1>18. CASE Kill
  BY <1>18, ExitTypeOK DEF Kill, Outcomes, TypeOK
<1>19. CASE KillInside
  BY <1>19, ExitTypeOK DEF KillInside, Tear, Outcomes, TypeOK
<1>20. CASE UnlinkFails
  BY <1>20 DEF UnlinkFails, Tear, NextReversal, TypeOK, Phases
<1>21. CASE BreakReverse
  <2>1. PICK r \in todo : TakeOut(r.diff) /\ half' = half \cup {r.diff} /\ r.diff \in applied
    BY <1>21 DEF BreakReverse
  <2>2. half' \subseteq Diff
    BY <2>1 DEF TypeOK
  <2>3. QED
    BY <1>21, <2>1, <2>2, TakeOutTypeOK, ExitTypeOK DEF BreakReverse, Tear, Outcomes, TypeOK
<1>22. CASE BreakApply
  <2>1. half' \subseteq Diff
    BY <1>22 DEF BreakApply, TypeOK
  <2>2. QED
    BY <1>22, <2>1, ExitTypeOK DEF BreakApply, Tear, Outcomes, TypeOK
<1>23. ASSUME NEW d \in Diff, ManualReverse(d) PROVE TypeOK'
  <2>1. applied' \subseteq Diff /\ over' \subseteq applied' \X applied'
    BY <1>23, TakeOutTypeOK DEF ManualReverse
  <2>2. QED
    BY <1>23, <2>1 DEF ManualReverse, TypeOK, Outcomes
<1>24. CASE Unpack
  BY <1>24 DEF Unpack, TypeOK, Outcomes
<1>25. CASE UNCHANGED vars
  BY <1>25 DEF vars, TypeOK
<1>26. QED
  BY <1>1, <1>2, <1>3, <1>4, <1>5, <1>6, <1>7, <1>8, <1>9, <1>10, <1>11, <1>12,
     <1>13, <1>14, <1>15, <1>16, <1>17, <1>18, <1>19, <1>20, <1>21, <1>22, <1>23,
     <1>24, <1>25
     DEF Next, RunStep, Accident, Developer, Plan, TakeOff, PutAll

(* Every reachable state is well typed: TypeOK is an invariant of          *)
(* apply.pl's runs.                                                        *)
THEOREM TypeCorrect == Spec => []TypeOK
BY InitTypeOK, NextTypeOK, PTL DEF Spec

-----------------------------------------------------------------------------
(* The memory of a run *)

\* A process that has ended holds no records and no queue.
LEMMA ExitMemoryOK ==
    ASSUME NEW o, Exit(o) PROVE MemoryOK'
BY DEF Exit, MemoryOK, IsLastName, IsNext

LEMMA NextMemoryOK == TypeOK /\ MemoryOK /\ PlanOK /\ [Next]_vars => MemoryOK'
<1> SUFFICES ASSUME TypeOK, MemoryOK, PlanOK, [Next]_vars PROVE MemoryOK'
  OBVIOUS
<1> USE DEF tree, memory
<1>1. ASSUME NEW l \in Lists, StartApply(l) PROVE MemoryOK'
  <2>1. todo' \subseteq records'
    BY <1>1 DEF StartApply, Survivors
  <2>2. QED
    BY <1>1, <2>1 DEF StartApply, MemoryOK
<1>2. CASE KeepEntry
  BY <1>2 DEF KeepEntry, Planning, MemoryOK
<1>3. CASE ReplaceEntry
  <2>1. todo' \subseteq records'
    BY <1>3 DEF ReplaceEntry, Planning, MemoryOK, PlanOK
  <2>2. QED
    BY <1>3, <2>1 DEF ReplaceEntry, Planning, MemoryOK
<1>4. CASE NewEntry
  BY <1>4 DEF NewEntry, Planning, MemoryOK
<1>5. CASE PlanDone
  BY <1>5 DEF PlanDone, MemoryOK
<1>6. CASE StartRemove
  BY <1>6 DEF StartRemove, MemoryOK
<1>7. CASE ReversePatch
  <2>1. \E r \in todo' : IsLastName(r, todo')
    BY <1>7 DEF ReversePatch, Reversing, IsLastName
  <2>2. QED
    BY <1>7, <2>1 DEF ReversePatch, Reversing, MemoryOK
<1>9. CASE UnlinkRecord
  <2>1. todo' \subseteq records'
    BY <1>9 DEF UnlinkRecord, MemoryOK
  <2>2. pc \in {"unlink", "erase"}
    BY <1>9 DEF UnlinkRecord, Unlinking
  <2>3. QED
    BY <1>9, <2>1, <2>2 DEF UnlinkRecord, NextReversal, MemoryOK
<1>11. CASE NumberPatches
  BY <1>11 DEF NumberPatches, MemoryOK
<1>12. CASE SkipPatch
  BY <1>12 DEF SkipPatch, MemoryOK
<1>13. CASE ApplyPatch
  <2>1. \E i \in queue' : IsNext(i)'
    BY <1>13 DEF ApplyPatch, IsNext
  <2>2. QED
    BY <1>13, <2>1 DEF ApplyPatch, MemoryOK
<1>15. CASE CreateRecord
  <2>1. \E i \in queue' : IsNext(i)'
    BY <1>15 DEF CreateRecord, IsNext
  <2>2. QED
    BY <1>15, <2>1 DEF CreateRecord, MemoryOK
<1>16. CASE FillRecord
  BY <1>16 DEF FillRecord, MemoryOK
<1>20. CASE UnlinkFails
  <2>1. pc \in {"unlink", "erase"}
    BY <1>20 DEF UnlinkFails, Unlinking
  <2>2. QED
    BY <1>20, <2>1 DEF UnlinkFails, NextReversal, MemoryOK
<1>23. ASSUME NEW d \in Diff, ManualReverse(d) PROVE MemoryOK'
  BY <1>23 DEF ManualReverse, MemoryOK
<1>24. CASE Unpack
  BY <1>24 DEF Unpack, MemoryOK
<1>25. CASE UNCHANGED vars
  <2>1. /\ \A r \in todo : IsLastName(r, todo)' <=> IsLastName(r, todo)
        /\ \A i \in queue : IsNext(i)' <=> IsNext(i)
    BY <1>25 DEF vars, IsNext, IsLastName
  <2>2. QED
    BY <1>25, <2>1 DEF vars, MemoryOK
<1>26. CASE \/ RefuseReverse \/ RemoveDone \/ RefuseApply \/ ApplyDone
            \/ Kill \/ KillInside \/ BreakReverse \/ BreakApply
  BY <1>26, ExitMemoryOK
     DEF RefuseReverse, RemoveDone, RefuseApply, ApplyDone, Kill, KillInside,
         BreakReverse, BreakApply
<1>27. QED
  BY <1>1, <1>2, <1>3, <1>4, <1>5, <1>6, <1>7, <1>9, <1>11, <1>12, <1>13, <1>15,
     <1>16, <1>20, <1>23, <1>24, <1>25, <1>26
     DEF Next, RunStep, Accident, Developer, Plan, TakeOff, PutAll

-----------------------------------------------------------------------------
(* The planning loop *)

\* No two names sort before each other.
LEMMA NameLessAsymmetric ==
    ASSUME NEW m \in Nat, NEW n \in Nat, NameLess(m, n), NameLess(n, m)
    PROVE  FALSE
BY NumberAssumption DEF NameLess

\* A set of records has at most one last name.
LEMMA LastNameUnique ==
    ASSUME NEW S \in SUBSET RecordFile, NEW r \in S, NEW s \in S,
           IsLastName(r, S), IsLastName(s, S)
    PROVE  r = s
<1>1. r.num \in Nat /\ s.num \in Nat
  BY DEF RecordFile
<1>2. QED
  BY <1>1, NameLessAsymmetric DEF IsLastName

\* %existing_patches holds one record for each name.
LEMMA SurvivorsUnique ==
    ASSUME TypeOK, NEW r \in Survivors, NEW s \in Survivors, r.name = s.name
    PROVE  r = s
<1> DEFINE S == {x \in records : x.name = r.name}
<1>1. S \in SUBSET RecordFile
  BY DEF TypeOK
<1>2. r \in S /\ s \in S /\ IsLastName(r, S) /\ IsLastName(s, S)
  BY DEF Survivors
<1>3. QED
  BY <1>1, <1>2, LastNameUnique

LEMMA ExitPlanOK ==
    ASSUME NEW o, o # "leftover", Exit(o) PROVE PlanOK'
BY DEF Exit, PlanOK

LEMMA NextPlanOK == TypeOK /\ MemoryOK /\ PlanOK /\ [Next]_vars => PlanOK'
<1> SUFFICES ASSUME TypeOK, MemoryOK, PlanOK, [Next]_vars PROVE PlanOK'
  OBVIOUS
<1> USE DEF tree, memory
<1>1. ASSUME NEW l \in Lists, StartApply(l) PROVE PlanOK'
  <2>1. existing' \subseteq Survivors /\ Survivors \subseteq records
    BY <1>1 DEF StartApply, Survivors
  <2>2. \A r, s \in existing' : r.name = s.name => r = s
    BY <2>1, SurvivorsUnique
  <2>3. ASSUME NEW r \in existing' PROVE \E i \in 1 .. Len(l) : NameOf[l[i]] = r.name
    <3>1. r.name \in ListedNames(l)
      BY <1>1 DEF StartApply
    <3>2. DOMAIN l = 1 .. Len(l)
      BY DataAssumption
    <3>3. QED
      BY <3>1, <3>2 DEF ListedNames
  <2>4. QED
    BY <1>1, <2>1, <2>2, <2>3 DEF StartApply, PlanOK
<1>2. ASSUME Planning, NEW r \in existing, RecordOf(r, list[cursor]),
             existing' = existing \ {r}, cursor' = cursor + 1,
             UNCHANGED <<pc, list, records, outcome>>
      PROVE  PlanOK'
  <2>1. ASSUME NEW s \in existing'
        PROVE  \E i \in cursor' .. Len(list) : NameOf[list[i]] = s.name
    <3>1. PICK i \in cursor .. Len(list) : NameOf[list[i]] = s.name
      BY <1>2, <2>1 DEF PlanOK, Planning
    <3>2. s \in existing /\ s # r
      BY <1>2, <2>1
    <3>3. s.name # r.name
      BY <1>2, <3>2 DEF PlanOK, Planning
    <3>4. i # cursor
      BY <1>2, <3>1, <3>3 DEF RecordOf
    <3>5. i \in cursor' .. Len(list)
      BY <1>2, <3>4 DEF TypeOK
    <3>6. QED
      BY <3>1, <3>5
  <2>2. QED
    BY <1>2, <2>1 DEF PlanOK, Planning
<1>3. CASE KeepEntry
  BY <1>2, <1>3 DEF KeepEntry
<1>4. CASE ReplaceEntry
  BY <1>2, <1>4 DEF ReplaceEntry
<1>5. CASE NewEntry
  <2>1. ASSUME NEW s \in existing
        PROVE  \E i \in cursor' .. Len(list) : NameOf[list[i]] = s.name
    <3>1. PICK i \in cursor .. Len(list) : NameOf[list[i]] = s.name
      BY <1>5 DEF NewEntry, PlanOK, Planning
    <3>2. i # cursor
      BY <1>5, <3>1 DEF NewEntry, RecordOf
    <3>3. i \in cursor' .. Len(list)
      BY <1>5, <3>2 DEF NewEntry, TypeOK
    <3>4. QED
      BY <3>1, <3>3
  <2>2. QED
    BY <1>5, <2>1 DEF NewEntry, PlanOK, Planning
<1>6. CASE PlanDone
  <2>1. existing = {}
    BY <1>6 DEF PlanDone, PlanOK, TypeOK
  <2>2. QED
    BY <1>6, <2>1 DEF PlanDone, PlanOK
<1>7. CASE ApplyDone
  BY <1>7, ExitPlanOK DEF ApplyDone, PlanOK
<1>8. CASE \/ RefuseReverse \/ RemoveDone \/ RefuseApply
           \/ Kill \/ KillInside \/ BreakReverse \/ BreakApply
  BY <1>8, ExitPlanOK
     DEF RefuseReverse, RemoveDone, RefuseApply, Kill, KillInside, BreakReverse, BreakApply
<1>9. CASE StartRemove
  BY <1>9 DEF StartRemove, PlanOK
<1>10. CASE ReversePatch
  BY <1>10 DEF ReversePatch, Reversing, PlanOK, MemoryOK
<1>11. CASE UnlinkRecord
  BY <1>11 DEF UnlinkRecord, Unlinking, NextReversal, PlanOK, MemoryOK
<1>12. CASE UnlinkFails
  BY <1>12 DEF UnlinkFails, Unlinking, NextReversal, PlanOK, MemoryOK
<1>13. CASE NumberPatches \/ SkipPatch \/ ApplyPatch
  BY <1>13 DEF NumberPatches, SkipPatch, ApplyPatch, PlanOK
<1>14. CASE CreateRecord \/ FillRecord
  BY <1>14 DEF CreateRecord, FillRecord, PlanOK
<1>15. ASSUME NEW d \in Diff, ManualReverse(d) PROVE PlanOK'
  BY <1>15 DEF ManualReverse, PlanOK
<1>16. CASE Unpack
  BY <1>16 DEF Unpack, PlanOK, MemoryOK
<1>17. CASE UNCHANGED vars
  BY <1>17 DEF vars, PlanOK
<1>18. QED
  BY <1>1, <1>3, <1>4, <1>5, <1>6, <1>7, <1>8, <1>9, <1>10, <1>11, <1>12, <1>13,
     <1>14, <1>15, <1>16, <1>17
     DEF Next, RunStep, Accident, Developer, Plan, TakeOff, PutAll

(* "Error - leftover obsolete patches" is never the end of a run: the      *)
(* planning loop of apply_patches has matched or condemned every record.   *)
THEOREM NothingLeftOver == Spec => []NoLeftover
<1>1. Init => TypeOK /\ MemoryOK /\ PlanOK
  BY InitTypeOK DEF Init, MemoryOK, PlanOK
<1>2. TypeOK /\ MemoryOK /\ PlanOK /\ [Next]_vars => (TypeOK /\ MemoryOK /\ PlanOK)'
  BY NextTypeOK, NextMemoryOK, NextPlanOK
<1>3. PlanOK => NoLeftover
  BY DEF PlanOK, NoLeftover
<1>4. QED
  BY <1>1, <1>2, <1>3, PTL DEF Spec

-----------------------------------------------------------------------------
(* The numbers of the records *)

\* A process that ends leaves the numbers of the records as they are.
LEMMA ExitNumbersOK ==
    ASSUME NumbersOK, NEW o, Exit(o), records' = records PROVE NumbersOK'
BY DEF Exit, NumbersOK

\* There is one position of the list that is dealt with next.
LEMMA NextIsUnique ==
    ASSUME TypeOK, NEW i \in queue, NEW j \in queue, IsNext(i), IsNext(j)
    PROVE  i = j
BY DEF TypeOK, IsNext

\* Taking a record away disturbs no number.
LEMMA FewerRecordsNumbersOK ==
    ASSUME TypeOK, NumbersOK, pc \in {"unlink", "erase"}, NextReversal,
           records' \subseteq records, list' = list
    PROVE  NumbersOK'
BY DEF NextReversal, NumbersOK

LEMMA NextNumbersOK == TypeOK /\ MemoryOK /\ NumbersOK /\ [Next]_vars => NumbersOK'
<1> SUFFICES ASSUME TypeOK, MemoryOK, NumbersOK, [Next]_vars PROVE NumbersOK'
  OBVIOUS
<1> USE DEF tree, memory
<1>1. ASSUME NEW l \in Lists, StartApply(l) PROVE NumbersOK'
  BY <1>1 DEF StartApply, NumbersOK
<1>2. CASE KeepEntry \/ ReplaceEntry \/ NewEntry \/ PlanDone
  BY <1>2 DEF KeepEntry, ReplaceEntry, NewEntry, PlanDone, Planning, NumbersOK
<1>3. CASE StartRemove
  BY <1>3 DEF StartRemove, NumbersOK
<1>4. CASE ReversePatch
  BY <1>4 DEF ReversePatch, Reversing, NumbersOK
<1>5. CASE UnlinkRecord
  BY <1>5, FewerRecordsNumbersOK DEF UnlinkRecord, Unlinking
<1>6. CASE UnlinkFails
  BY <1>6, FewerRecordsNumbersOK DEF UnlinkFails, Unlinking
<1>7. CASE NumberPatches
  <2>1. PICK n \in {r.num : r \in records} \cup {0} :
          (\A r \in records : r.num <= n) /\ num' = n + 1
    BY <1>7 DEF NumberPatches
  <2>2. n \in Nat /\ \A r \in records : r.num \in Nat
    BY <2>1 DEF TypeOK, RecordFile
  <2>3. \A i \in queue : i \in Nat /\ 1 <= i
    BY DEF TypeOK
  <2>4. n + Len(list) <= MaxNum
    BY <1>7, <2>1, <2>2, NumberAssumption DEF NumberPatches, NumbersOK, TypeOK
  <2>5. Len(list) \in Nat
    BY DEF TypeOK
  <2>6. \A i \in queue : num' + Len(list) <= MaxNum + i
    BY <2>1, <2>2, <2>3, <2>4, <2>5, NumberAssumption
  <2>7. \A r \in records : r.num < num'
    BY <2>1, <2>2
  <2>8. QED
    BY <1>7, <2>6, <2>7 DEF NumberPatches, NumbersOK
<1>8. CASE SkipPatch
  BY <1>8 DEF SkipPatch, NumbersOK
<1>9. CASE ApplyPatch
  BY <1>9 DEF ApplyPatch, NumbersOK
<1>10. CASE CreateRecord
  <2>1. PICK i \in queue : IsNext(i) /\ records' = records \cup {RecordFor(i, Empty)}
    BY <1>10 DEF CreateRecord
  <2>2. /\ RecordFor(i, Empty).num = num
        /\ num <= MaxNum
    <3>1. num + Len(list) <= MaxNum + i
      BY <1>10 DEF CreateRecord, NumbersOK
    <3>2. i \in 1 .. Len(list) /\ Len(list) \in Nat /\ num \in Nat
      BY DEF TypeOK
    <3>3. QED
      BY <3>1, <3>2, NumberAssumption DEF RecordFor
  <2>3. \A r \in records : r.num < num /\ r.num \in Nat
    BY <1>10 DEF CreateRecord, NumbersOK, TypeOK, RecordFile
  <2>4. \A r, s \in records' : r.num = s.num => r = s
    BY <2>1, <2>2, <2>3 DEF NumbersOK
  <2>5. IsNext(i)' /\ RecordFor(i, Empty)' = RecordFor(i, Empty) /\ i \in queue'
    BY <1>10, <2>1 DEF CreateRecord, IsNext, RecordFor
  <2>6. \A r \in records' :
          r.num < num' \/ \E j \in queue' : IsNext(j)' /\ r = RecordFor(j, Empty)'
    BY <1>10, <2>1, <2>3, <2>5 DEF CreateRecord
  <2>7. pc' = "fill" /\ UNCHANGED <<list, queue, num>>
    BY <1>10 DEF CreateRecord
  <2>8. \A r \in records' : r.num <= MaxNum
    BY <2>1, <2>2 DEF NumbersOK
  <2>9. \A j \in queue : num + Len(list) <= MaxNum + j
    BY <1>10 DEF CreateRecord, NumbersOK
  <2>10. QED
    BY <2>4, <2>6, <2>7, <2>8, <2>9 DEF NumbersOK
<1>11. CASE FillRecord
  <2>1. PICK i \in queue :
          /\ IsNext(i)
          /\ records' = (records \ {RecordFor(i, Empty)}) \cup {RecordFor(i, list[i])}
          /\ queue' = queue \ {i}
    BY <1>11 DEF FillRecord
  <2>2. \A r \in records : r = RecordFor(i, Empty) \/ r.num < num
    BY <1>11, <2>1, NextIsUnique DEF FillRecord, NumbersOK
  <2>3. num <= MaxNum /\ RecordFor(i, list[i]).num = num
    <3>1. num + Len(list) <= MaxNum + i
      BY <1>11, <2>1 DEF FillRecord, NumbersOK
    <3>2. i \in 1 .. Len(list) /\ Len(list) \in Nat /\ num \in Nat
      BY DEF TypeOK
    <3>3. QED
      BY <3>1, <3>2, NumberAssumption DEF RecordFor
  <2>4. \A r \in records : r.num \in Nat
    BY DEF TypeOK, RecordFile
  <2>5. ASSUME NEW r \in records', r # RecordFor(i, list[i])
        PROVE  r \in records /\ r.num < num
    <3>1. r \in records /\ r # RecordFor(i, Empty)
      BY <2>1, <2>5
    <3>2. QED
      BY <2>2, <3>1
  <2>6. \A r, s \in records' : r.num = s.num => r = s
    BY <2>3, <2>4, <2>5 DEF NumbersOK
  <2>7. \A r \in records' : r.num <= MaxNum /\ r.num < num'
    BY <1>11, <2>3, <2>4, <2>5 DEF FillRecord, NumbersOK, TypeOK
  <2>8. \A j \in queue' : num' + Len(list) <= MaxNum + j
    <3>1. SUFFICES ASSUME NEW j \in queue' PROVE num' + Len(list) <= MaxNum + j
      OBVIOUS
    <3>2. i \in Nat /\ j \in Nat /\ Len(list) \in Nat /\ num \in Nat
      BY <2>1 DEF TypeOK
    <3>3. i < j
      BY <2>1, <3>2 DEF IsNext
    <3>4. num + Len(list) <= MaxNum + i /\ num' = num + 1
      BY <1>11, <2>1 DEF FillRecord, NumbersOK
    <3>5. QED
      BY <3>2, <3>3, <3>4, NumberAssumption
  <2>9. QED
    BY <1>11, <2>6, <2>7, <2>8 DEF FillRecord, NumbersOK
<1>12. CASE \/ RefuseReverse \/ RemoveDone \/ RefuseApply \/ ApplyDone
            \/ Kill \/ KillInside \/ BreakReverse \/ BreakApply
  BY <1>12, ExitNumbersOK
     DEF RefuseReverse, RemoveDone, RefuseApply, ApplyDone, Kill, KillInside,
         BreakReverse, BreakApply
<1>13. ASSUME NEW d \in Diff, ManualReverse(d) PROVE NumbersOK'
  BY <1>13 DEF ManualReverse, NumbersOK
<1>14. CASE Unpack
  BY <1>14 DEF Unpack, NumbersOK
<1>15. CASE UNCHANGED vars
  BY <1>15 DEF vars, NumbersOK, IsNext, RecordFor
<1>16. QED
  BY <1>1, <1>2, <1>3, <1>4, <1>5, <1>6, <1>7, <1>8, <1>9, <1>10, <1>11, <1>12,
     <1>13, <1>14, <1>15
     DEF Next, RunStep, Accident, Developer, Plan, TakeOff, PutAll

-----------------------------------------------------------------------------
(* The tree and the records *)

Ledger == LedgerOK /\ TreeIsRecorded /\ OverFollowsNumbers

\* A step that changes neither store and stays outside the windows.
LEMMA QuietStep ==
    ASSUME Ledger, UNCHANGED <<tree, records>>, tears' = tears,
           pc \notin Windows, pc' \notin Windows,
           pc' = "remove" => todo' = records,
           outcome' = "removed" => pc = "remove" /\ todo = {}
    PROVE  Ledger'
<1> USE DEF tree
<1> SUFFICES ASSUME tears = 0 PROVE Ledger'
  BY DEF Ledger, LedgerOK, TreeIsRecorded, OverFollowsNumbers
<1>1. \A r \in records : r.diff # Empty
  BY DEF Ledger, LedgerOK, Windows
<1>2. half = {} /\ applied = DiffsIn(records) /\ DiffsIn(records)' = DiffsIn(records)
  BY DEF Ledger, TreeIsRecorded, DiffsIn
<1>3. outcome' = "removed" => applied' = {} /\ records' = {}
  BY <1>2 DEF Ledger, LedgerOK, DiffsIn
<1>4. LedgerOK'
  BY <1>1, <1>3 DEF LedgerOK, Windows
<1>5. TreeIsRecorded'
  BY <1>2 DEF Ledger, TreeIsRecorded, Windows
<1>6. OverFollowsNumbers'
  BY DEF Ledger, OverFollowsNumbers
<1>7. QED
  BY <1>4, <1>5, <1>6 DEF Ledger

LEMMA LedgerReverse ==
    ASSUME TypeOK, MemoryOK, Ledger, ReversePatch PROVE Ledger'
<1> USE DEF memory
<1> SUFFICES ASSUME tears = 0 PROVE Ledger'
  BY DEF ReversePatch, Ledger, LedgerOK, TreeIsRecorded, OverFollowsNumbers
<1>1. PICK r \in todo : Reversing(r) /\ TakeOut(r.diff)
  BY DEF ReversePatch
<1>2. /\ pc \in {"unapply", "remove"} /\ pc' \in {"unlink", "erase"}
      /\ pc' = "erase" => pc = "remove"
      /\ UNCHANGED <<half, records, todo, outcome, tears>>
      /\ r \in records /\ outcome = "running"
  BY <1>1 DEF ReversePatch, Reversing, MemoryOK
<1>3. \A s \in todo : IsLastName(s, todo) => s = r
  BY <1>1, LastNameUnique DEF Reversing, TypeOK, MemoryOK
<1>4. /\ half = {}
      /\ \A s, t \in records : s.diff = t.diff => s = t
      /\ applied = DiffsIn(records)
  BY <1>2 DEF Ledger, TreeIsRecorded, Windows
<1>5. applied' = DiffsIn(records \ {r})
  BY <1>1, <1>2, <1>4 DEF TakeOut, DiffsIn
<1>6. \A s \in records : s.diff # Empty
  BY <1>2 DEF Ledger, LedgerOK
<1>7. LedgerOK'
  BY <1>2, <1>6 DEF Ledger, LedgerOK
<1>8. TreeIsRecorded'
  <2>1. \A s \in todo' : IsLastName(s, todo)' => s = r
    BY <1>2, <1>3 DEF IsLastName
  <2>2. \A s \in todo' : IsLastName(s, todo)' => applied' = DiffsIn(records \ {s})'
    BY <1>2, <1>5, <2>1 DEF DiffsIn
  <2>3. QED
    BY <1>2, <1>4, <2>2 DEF TreeIsRecorded, Windows
<1>9. OverFollowsNumbers'
  BY <1>1, <1>2 DEF Ledger, OverFollowsNumbers, TakeOut, Without
<1>10. QED
  BY <1>7, <1>8, <1>9 DEF Ledger

LEMMA LedgerUnlink ==
    ASSUME TypeOK, MemoryOK, Ledger, UnlinkRecord PROVE Ledger'
<1> USE DEF tree
<1> SUFFICES ASSUME tears = 0 PROVE Ledger'
  BY DEF UnlinkRecord, Ledger, LedgerOK, TreeIsRecorded, OverFollowsNumbers
<1>1. PICK r \in todo : Unlinking(r) /\ records' = records \ {r} /\ todo' = todo \ {r}
  BY DEF UnlinkRecord
<1>2. /\ pc \in {"unlink", "erase"} /\ pc' \in {"unapply", "remove"}
      /\ pc' = "remove" => pc = "erase"
      /\ UNCHANGED <<applied, over, half, outcome, tears>>
      /\ outcome = "running"
  BY <1>1 DEF UnlinkRecord, NextReversal, Unlinking, MemoryOK
<1>3. /\ half = {}
      /\ \A s, t \in records : s.diff = t.diff => s = t
      /\ applied = DiffsIn(records \ {r})
  BY <1>1, <1>2 DEF Ledger, TreeIsRecorded, Windows, Unlinking
<1>4. \A s \in records : s.diff # Empty
  BY <1>2 DEF Ledger, LedgerOK
<1>5. LedgerOK'
  BY <1>1, <1>2, <1>4 DEF Ledger, LedgerOK
<1>6. TreeIsRecorded'
  BY <1>1, <1>2, <1>3 DEF TreeIsRecorded, Windows, DiffsIn
<1>7. OverFollowsNumbers'
  BY <1>1, <1>2 DEF Ledger, OverFollowsNumbers
<1>8. QED
  BY <1>5, <1>6, <1>7 DEF Ledger

LEMMA LedgerApply ==
    ASSUME TypeOK, MemoryOK, Ledger, ApplyPatch PROVE Ledger'
<1> USE DEF memory
<1> SUFFICES ASSUME tears = 0 PROVE Ledger'
  BY DEF ApplyPatch, Ledger, LedgerOK, TreeIsRecorded, OverFollowsNumbers
<1>1. PICK i \in queue : IsNext(i) /\ list[i] \notin applied /\ PutOn(list[i])
  BY DEF ApplyPatch
<1>2. /\ pc = "apply" /\ pc' = "copy"
      /\ UNCHANGED <<half, records, list, queue, num, todo, outcome, tears>>
      /\ outcome = "running"
  BY DEF ApplyPatch, MemoryOK
<1>3. /\ half = {}
      /\ \A s, t \in records : s.diff = t.diff => s = t
      /\ applied = DiffsIn(records)
      /\ \A s \in records : s.diff # Empty
  BY <1>2 DEF Ledger, LedgerOK, TreeIsRecorded, Windows
<1>4. \A j \in queue' : IsNext(j)' => j = i
  BY <1>1, <1>2, NextIsUnique DEF IsNext
<1>5. /\ applied' = applied \cup {list[i]}
      /\ over' = over \cup {<<list[i], e>> : e \in {x \in applied : Share(list[i], x)}}
  BY <1>1 DEF PutOn
<1>6. \A d \in Diff : <<d, list[i]>> \notin over'
  BY <1>1, <1>5 DEF TypeOK
<1>7. LedgerOK'
  BY <1>2, <1>3, <1>4, <1>6 DEF LedgerOK
<1>8. TreeIsRecorded'
  <2>1. \A j \in queue' : IsNext(j)' =>
          /\ list'[j] \notin DiffsIn(records)'
          /\ applied' = (DiffsIn(records)' \ {Empty}) \cup {list'[j]}
    BY <1>1, <1>2, <1>3, <1>4, <1>5 DEF DiffsIn
  <2>2. QED
    BY <1>2, <1>3, <2>1 DEF TreeIsRecorded, Windows
<1>9. OverFollowsNumbers'
  <2>1. \A r \in records : r.diff # list[i]
    BY <1>1, <1>3 DEF DiffsIn
  <2>2. QED
    BY <1>2, <1>5, <2>1 DEF Ledger, OverFollowsNumbers
<1>10. QED
  BY <1>7, <1>8, <1>9 DEF Ledger

LEMMA LedgerCreate ==
    ASSUME TypeOK, MemoryOK, NumbersOK, Ledger, CreateRecord PROVE Ledger'
<1> USE DEF tree, memory
<1> SUFFICES ASSUME tears = 0 PROVE Ledger'
  BY DEF CreateRecord, Ledger, LedgerOK, TreeIsRecorded, OverFollowsNumbers
<1>1. PICK i \in queue : IsNext(i) /\ records' = records \cup {RecordFor(i, Empty)}
  BY DEF CreateRecord
<1>2. /\ pc = "copy" /\ pc' = "fill"
      /\ UNCHANGED <<applied, over, half, list, queue, num, todo, outcome, tears>>
      /\ outcome = "running"
  BY DEF CreateRecord, MemoryOK
<1>3. RecordFor(i, Empty).num = num /\ RecordFor(i, Empty).diff = Empty
  BY DEF RecordFor
<1>4. /\ half = {}
      /\ \A s, t \in records : s.diff = t.diff => s = t
      /\ \A s \in records : s.diff # Empty
      /\ list[i] \notin DiffsIn(records)
      /\ applied = (DiffsIn(records) \ {Empty}) \cup {list[i]}
  BY <1>1, <1>2 DEF Ledger, LedgerOK, TreeIsRecorded, Windows
<1>5. \A j \in queue' : IsNext(j)' => j = i
  BY <1>1, <1>2, NextIsUnique DEF IsNext
<1>6. list[i] \in Diff /\ list[i] # Empty
  BY DataAssumption DEF TypeOK
<1>7. DiffsIn(records)' = DiffsIn(records) \cup {Empty}
  BY <1>1, <1>3 DEF DiffsIn
<1>8. LedgerOK'
  <2>1. \A s \in records' : s.diff = Empty => s.num = num
    BY <1>1, <1>3, <1>4
  <2>2. \A d \in Diff : <<d, list[i]>> \notin over
    BY <1>1, <1>2 DEF Ledger, LedgerOK
  <2>3. QED
    BY <1>2, <1>5, <2>1, <2>2 DEF LedgerOK
<1>9. TreeIsRecorded'
  <2>1. \A s, t \in records' : s.diff = t.diff => s = t
    BY <1>1, <1>3, <1>4
  <2>2. list[i] \notin DiffsIn(records)'
    BY <1>4, <1>6, <1>7
  <2>3. applied' = (DiffsIn(records)' \ {Empty}) \cup {list[i]}
    BY <1>2, <1>4, <1>7
  <2>4. QED
    BY <1>2, <1>4, <1>5, <2>1, <2>2, <2>3 DEF TreeIsRecorded, Windows
<1>10. OverFollowsNumbers'
  <2>1. \A d : <<d, Empty>> \notin over /\ <<Empty, d>> \notin over
    BY DataAssumption DEF TypeOK
  <2>2. QED
    BY <1>1, <1>2, <1>3, <2>1 DEF Ledger, OverFollowsNumbers
<1>11. QED
  BY <1>8, <1>9, <1>10 DEF Ledger

LEMMA LedgerFill ==
    ASSUME TypeOK, MemoryOK, NumbersOK, Ledger, FillRecord PROVE Ledger'
<1> USE DEF tree
<1> SUFFICES ASSUME tears = 0 PROVE Ledger'
  BY DEF FillRecord, Ledger, LedgerOK, TreeIsRecorded, OverFollowsNumbers
<1>1. PICK i \in queue :
        /\ IsNext(i)
        /\ records' = (records \ {RecordFor(i, Empty)}) \cup {RecordFor(i, list[i])}
  BY DEF FillRecord
<1> DEFINE R == RecordFor(i, Empty)
           S == RecordFor(i, list[i])
<1>2. /\ pc = "fill" /\ pc' = "apply"
      /\ UNCHANGED <<applied, over, half, list, todo, outcome, tears>>
      /\ outcome = "running"
  BY DEF FillRecord, MemoryOK
<1>3. R.num = num /\ R.diff = Empty /\ S.num = num /\ S.diff = list[i]
  BY DEF RecordFor
<1>4. /\ half = {}
      /\ \A s, t \in records : s.diff = t.diff => s = t
      /\ \A s \in records : s.diff = Empty => s.num = num
      /\ list[i] \notin DiffsIn(records)
      /\ applied = (DiffsIn(records) \ {Empty}) \cup {list[i]}
      /\ \A d \in Diff : <<d, list[i]>> \notin over
  BY <1>1, <1>2 DEF Ledger, LedgerOK, TreeIsRecorded, Windows
<1>5. list[i] \in Diff /\ list[i] # Empty
  BY DataAssumption DEF TypeOK
<1>6. ASSUME NEW r \in records, r # R PROVE r.num < num /\ r.diff # Empty
  <2>1. r.num < num
    BY <1>1, <1>2, <1>6, NextIsUnique DEF NumbersOK
  <2>2. r.num \in Nat /\ num \in Nat
    BY DEF TypeOK, RecordFile
  <2>3. QED
    BY <1>4, <2>1, <2>2
<1>7. ASSUME NEW r \in records', r # S
      PROVE  r \in records /\ r.num < num /\ r.diff # Empty /\ r.diff # list[i]
  <2>1. r \in records /\ r # R
    BY <1>1, <1>7
  <2>2. r.diff # list[i]
    BY <1>4, <2>1 DEF DiffsIn
  <2>3. QED
    BY <1>6, <2>1, <2>2
<1>8. DiffsIn(records)' = (DiffsIn(records) \ {Empty}) \cup {list[i]}
  <2>1. ASSUME NEW r \in records, r.diff # Empty PROVE r \in records'
    BY <1>1, <1>3, <2>1
  <2>2. S \in records'
    BY <1>1
  <2>3. QED
    BY <1>3, <1>7, <2>1, <2>2 DEF DiffsIn
<1>9. LedgerOK'
  BY <1>2, <1>3, <1>5, <1>7 DEF LedgerOK
<1>10. TreeIsRecorded'
  <2>1. \A s, t \in records' : s.diff = t.diff => s = t
    BY <1>3, <1>4, <1>7
  <2>2. applied' = DiffsIn(records)'
    BY <1>2, <1>4, <1>8
  <2>3. QED
    BY <1>2, <1>4, <2>1, <2>2 DEF TreeIsRecorded, Windows
<1>11. OverFollowsNumbers'
  <2>1. ASSUME NEW r \in records', NEW s \in records', <<r.diff, s.diff>> \in over
        PROVE  s.num < r.num
    <3>1. r.diff \in Diff
      BY <2>1 DEF TypeOK
    <3>2. s # S
      BY <1>3, <1>4, <2>1, <3>1
    <3>3. CASE r = S
      BY <1>3, <1>7, <3>2, <3>3
    <3>4. CASE r # S
      BY <1>7, <2>1, <3>2, <3>4 DEF Ledger, OverFollowsNumbers
    <3>5. QED
      BY <3>3, <3>4
  <2>2. QED
    BY <1>2, <2>1 DEF OverFollowsNumbers
<1>12. QED
  BY <1>9, <1>10, <1>11 DEF Ledger

LEMMA NextLedger ==
    TypeOK /\ MemoryOK /\ NumbersOK /\ Ledger /\ [Next]_vars => Ledger'
<1> SUFFICES ASSUME TypeOK, MemoryOK, NumbersOK, Ledger, [Next]_vars PROVE Ledger'
  OBVIOUS
<1>1. ASSUME NEW l \in Lists, StartApply(l) PROVE Ledger'
  BY <1>1, QuietStep DEF StartApply, Windows
<1>2. CASE KeepEntry \/ ReplaceEntry \/ NewEntry \/ PlanDone
  <2>1. pc = "plan" /\ pc' \in {"plan", "unapply"} /\ outcome' = "running"
    BY <1>2 DEF KeepEntry, ReplaceEntry, NewEntry, PlanDone, Planning, MemoryOK
  <2>2. UNCHANGED <<tree, records, tears>>
    BY <1>2 DEF KeepEntry, ReplaceEntry, NewEntry, PlanDone
  <2>3. QED
    BY <2>1, <2>2, QuietStep DEF Windows
<1>3. CASE StartRemove
  BY <1>3, QuietStep DEF StartRemove, Windows
<1>4. CASE ReversePatch
  BY <1>4, LedgerReverse
<1>5. CASE UnlinkRecord
  BY <1>5, LedgerUnlink
<1>6. CASE NumberPatches \/ SkipPatch
  <2>1. pc \in {"unapply", "apply"} /\ pc' = "apply" /\ outcome' = "running"
    BY <1>6 DEF NumberPatches, SkipPatch, MemoryOK
  <2>2. UNCHANGED <<tree, records, tears>>
    BY <1>6 DEF NumberPatches, SkipPatch
  <2>3. QED
    BY <2>1, <2>2, QuietStep DEF Windows
<1>7. CASE ApplyPatch
  BY <1>7, LedgerApply
<1>8. CASE CreateRecord
  BY <1>8, LedgerCreate
<1>9. CASE FillRecord
  BY <1>9, LedgerFill
<1>10. CASE RefuseReverse \/ RemoveDone \/ RefuseApply \/ ApplyDone \/ Kill
  <2>1. /\ pc \notin Windows /\ pc' = "idle"
        /\ UNCHANGED <<tree, records, tears>>
    BY <1>10 DEF RefuseReverse, Reversing, RemoveDone, RefuseApply, ApplyDone, Kill, Exit, Windows
  <2>2. outcome' = "removed" => pc = "remove" /\ todo = {}
    BY <1>10 DEF RefuseReverse, RemoveDone, RefuseApply, ApplyDone, Kill, Exit
  <2>3. QED
    BY <2>1, <2>2, QuietStep DEF Windows
<1>11. CASE KillInside \/ UnlinkFails \/ BreakReverse \/ BreakApply
  <2>1. tears' = tears + 1 /\ tears \in Nat
    BY <1>11 DEF KillInside, UnlinkFails, BreakReverse, BreakApply, Tear, TypeOK
  <2>2. tears' # 0
    BY <2>1
  <2>3. QED
    BY <2>2 DEF Ledger, LedgerOK, TreeIsRecorded, OverFollowsNumbers
<1>12. ASSUME NEW d \in Diff, ManualReverse(d) PROVE Ledger'
  <2> SUFFICES ASSUME tears = 0 PROVE FALSE
    BY <1>12 DEF ManualReverse, Ledger, LedgerOK, TreeIsRecorded, OverFollowsNumbers
  <2>1. pc = "idle" /\ d \in half \cup applied /\ d \notin Recorded
    BY <1>12 DEF ManualReverse
  <2>2. half = {} /\ applied = DiffsIn(records) /\ \A r \in records : r.diff # Empty
    BY <2>1 DEF Ledger, LedgerOK, TreeIsRecorded, Windows
  <2>3. QED
    BY <2>1, <2>2 DEF Recorded, DiffsIn
<1>13. CASE Unpack
  BY <1>13 DEF Unpack, memory, Ledger, LedgerOK, TreeIsRecorded, OverFollowsNumbers,
               DiffsIn, Windows
<1>14. CASE UNCHANGED vars
  <2>1. /\ UNCHANGED <<applied, over, half, records, pc, list, todo, queue, num, outcome, tears>>
        /\ \A r \in todo : IsLastName(r, todo)' <=> IsLastName(r, todo)
        /\ \A i \in queue : IsNext(i)' <=> IsNext(i)
        /\ DiffsIn(records)' = DiffsIn(records)
        /\ \A r \in todo : DiffsIn(records \ {r})' = DiffsIn(records \ {r})
    BY <1>14 DEF vars, tree, memory, IsNext, IsLastName, DiffsIn
  <2>2. QED
    BY <2>1 DEF Ledger, LedgerOK, TreeIsRecorded, OverFollowsNumbers
<1>15. QED
  BY <1>1, <1>2, <1>3, <1>4, <1>5, <1>6, <1>7, <1>8, <1>9, <1>10, <1>11, <1>12, <1>13,
     <1>14
     DEF Next, RunStep, Accident, Developer, Plan, TakeOff, PutAll

\* What the stores hold, and what a run has to remember for it.
CoreInv ==
    /\ TypeOK /\ MemoryOK /\ PlanOK /\ NumbersOK
    /\ LedgerOK /\ TreeIsRecorded /\ OverFollowsNumbers

\* The first state has no records, no patches and no run.
LEMMA InitCoreInv == Init => CoreInv
<1> SUFFICES ASSUME Init PROVE CoreInv
  OBVIOUS
<1>1. TypeOK
  BY InitTypeOK
<1>2. MemoryOK /\ PlanOK /\ NumbersOK
  BY DEF Init, MemoryOK, PlanOK, NumbersOK
<1>3. LedgerOK /\ TreeIsRecorded /\ OverFollowsNumbers
  BY DEF Init, LedgerOK, TreeIsRecorded, OverFollowsNumbers, DiffsIn, Windows
<1>4. QED
  BY <1>1, <1>2, <1>3 DEF CoreInv

LEMMA NextCoreInv == CoreInv /\ [Next]_vars => CoreInv'
BY NextTypeOK, NextMemoryOK, NextPlanOK, NextNumbersOK, NextLedger DEF CoreInv, Ledger

(* CoreInv is inductive, so it holds in every reachable state: at no time  *)
(* do the runs of apply.pl leave the states their stores are meant to be in. *)
THEOREM CoreInvariant == Spec => []CoreInv
BY InitCoreInv, NextCoreInv, PTL DEF Spec

(* While no run was torn between the tree and a record, applied_patches    *)
(* lists exactly the patches that are in the tree.                         *)
THEOREM TreeAlwaysRecorded == Spec => []TreeIsRecorded
<1>1. CoreInv => TreeIsRecorded
  BY DEF CoreInv
<1>2. QED
  BY CoreInvariant, <1>1, PTL

(* The number of a record tells which of two patches lies over the other.  *)
THEOREM NumbersTellTheOrder == Spec => []OverFollowsNumbers
<1>1. CoreInv => OverFollowsNumbers
  BY DEF CoreInv
<1>2. QED
  BY CoreInvariant, <1>1, PTL

\* Of the records still to be removed, the last one is that of a patch that is
\* in the tree and under no other.
LEMMA LastComesOff ==
    ASSUME CoreInv, MaxNum < Limit, tears = 0, pc = "remove",
           NEW r \in todo, IsLastName(r, todo)
    PROVE  ~MayRefuseReverse(r.diff)
<1>1. todo = records /\ half = {} /\ applied = DiffsIn(records)
  BY DEF CoreInv, LedgerOK, TreeIsRecorded, Windows
<1>2. r.diff \in applied
  BY <1>1 DEF DiffsIn
<1>3. ASSUME NEW e \in applied, <<e, r.diff>> \in over PROVE FALSE
  <2>1. PICK s \in records : s.diff = e
    BY <1>1 DEF DiffsIn
  <2>2. r.num < s.num
    BY <1>1, <1>3, <2>1 DEF CoreInv, OverFollowsNumbers
  <2>3. /\ r.num \in Nat /\ s.num \in Nat
        /\ r.num <= MaxNum /\ s.num <= MaxNum
    BY <1>1, <2>1 DEF CoreInv, TypeOK, NumbersOK, RecordFile
  <2>4. s = r \/ s.num < r.num
    <3>1. s = r \/ NameLess(s.num, r.num)
      BY <1>1, <2>1 DEF IsLastName
    <3>2. r.num < Limit /\ s.num < Limit
      BY <2>3, NumberAssumption
    <3>3. QED
      BY <3>1, <3>2 DEF NameLess
  <2>5. QED
    BY <2>2, <2>3, <2>4
<1>4. QED
  BY <1>1, <1>2, <1>3 DEF MayRefuseReverse, Buried

(* With fewer than 10^4 numbers in use, apply.pl -R takes every patch off: *)
(* none of them refuses, and the tree is as it was unpacked.               *)
THEOREM RemoveAlwaysSafe == Spec => []RemoveIsSafe
<1>1. CoreInv => RemoveIsSafe
  BY LastComesOff DEF RemoveIsSafe, RemovalSucceeds, CoreInv, LedgerOK
<1>2. QED
  BY CoreInvariant, <1>1, PTL

-----------------------------------------------------------------------------
(* The stores *)

\* Two records that sort last among those still to be removed are one.
LEMMA LastOfTodo ==
    ASSUME TypeOK, NEW r \in todo, NEW s \in todo,
           IsLastName(r, todo), IsLastName(s, todo)
    PROVE  r = s
BY LastNameUnique DEF TypeOK

LEMMA ExitStoresOK ==
    ASSUME StoresOK, NEW o, Exit(o), UNCHANGED <<tree, records>> PROVE StoresOK'
BY DEF Exit, StoresOK, tree

\* Steps that leave the stores alone and stay outside the windows.
LEMMA QuietStoresOK ==
    ASSUME StoresOK, UNCHANGED <<tree, records>>, pc' \notin Windows PROVE StoresOK'
BY DEF StoresOK, tree, Windows

\* What is reversed is in the tree, or an empty record of no patch at all.
LEMMA ReversedIsApplied ==
    ASSUME TypeOK, StoresOK, NEW r \in records, CanReverse(r.diff)
    PROVE  /\ r.diff = Empty \/ r.diff \in applied
           /\ r.diff \notin half
<1>1. r.diff \in Diff \cup {Empty}
  BY DEF TypeOK, RecordFile
<1>2. CASE r.diff = Empty
  BY <1>2, DataAssumption DEF TypeOK
<1>3. CASE r.diff \in Diff
  <2>1. r.diff \notin NoEffect
    BY <1>3, DataAssumption DEF StoresOK
  <2>2. r.diff \in applied
    BY <1>3, <2>1 DEF CanReverse, Effective
  <2>3. QED
    BY <2>2 DEF StoresOK
<1>4. QED
  BY <1>1, <1>2, <1>3

LEMMA StoresReverse ==
    ASSUME TypeOK, MemoryOK, StoresOK, ReversePatch PROVE StoresOK'
<1>1. PICK r \in todo : Reversing(r) /\ CanReverse(r.diff) /\ TakeOut(r.diff)
  BY DEF ReversePatch
<1>2. /\ pc' \in {"unlink", "erase"}
      /\ UNCHANGED <<half, records, todo, queue, list>>
      /\ applied' = applied \ {r.diff}
  BY <1>1 DEF ReversePatch, TakeOut, memory
<1>3. ASSUME NEW s \in todo', IsLastName(s, todo)' PROVE s = r
  <2>1. IsLastName(s, todo) /\ s \in todo
    BY <1>2, <1>3 DEF IsLastName
  <2>2. QED
    BY <1>1, <2>1, LastOfTodo DEF Reversing
<1>4. r.diff \notin half
  BY <1>1, ReversedIsApplied DEF MemoryOK
<1>5. \A s \in todo' : IsLastName(s, todo)' => s.diff \notin applied' \cup half'
  BY <1>2, <1>3, <1>4
<1>6. QED
  BY <1>2, <1>5 DEF StoresOK

LEMMA StoresApply ==
    ASSUME TypeOK, StoresOK, ApplyPatch PROVE StoresOK'
<1>1. PICK i \in queue :
        IsNext(i) /\ list[i] \notin NoEffect \cup applied \cup half /\ PutOn(list[i])
  BY DEF ApplyPatch
<1>2. /\ pc' = "copy"
      /\ UNCHANGED <<half, records, queue, list>>
      /\ applied' = applied \cup {list[i]}
  BY <1>1 DEF ApplyPatch, PutOn, memory
<1>3. \A j \in queue' : IsNext(j)' => j = i
  BY <1>1, <1>2, NextIsUnique DEF IsNext
<1>4. \A j \in queue' : IsNext(j)' => list'[j] \in applied'
  BY <1>2, <1>3
<1>5. QED
  BY <1>1, <1>2, <1>4 DEF StoresOK

LEMMA StoresCreate ==
    ASSUME TypeOK, StoresOK, CreateRecord PROVE StoresOK'
<1>1. PICK i \in queue : IsNext(i) /\ records' = records \cup {RecordFor(i, Empty)}
  BY DEF CreateRecord
<1>2. pc = "copy" /\ pc' = "fill" /\ UNCHANGED <<applied, half, queue, list>>
  BY DEF CreateRecord, tree, memory
<1>3. \A r \in records' : r.diff # Empty => r \in records
  BY <1>1 DEF RecordFor
<1>4. \A j \in queue' : IsNext(j)' => list'[j] \in applied'
  BY <1>2 DEF StoresOK, IsNext
<1>5. QED
  BY <1>2, <1>3, <1>4 DEF StoresOK

LEMMA StoresFill ==
    ASSUME TypeOK, StoresOK, FillRecord PROVE StoresOK'
<1>1. PICK i \in queue :
        /\ IsNext(i)
        /\ records' = (records \ {RecordFor(i, Empty)}) \cup {RecordFor(i, list[i])}
  BY DEF FillRecord
<1>2. pc = "fill" /\ pc' = "apply" /\ UNCHANGED <<applied, half>>
  BY DEF FillRecord, tree
<1>3. list[i] \notin NoEffect
  BY <1>1, <1>2 DEF StoresOK
<1>4. \A r \in records' :
        r.diff # Empty => r.diff \notin NoEffect /\ r.name = NameOf[r.diff]
  BY <1>1, <1>3 DEF StoresOK, RecordFor
<1>5. QED
  BY <1>2, <1>4 DEF StoresOK

LEMMA NextStoresOK == TypeOK /\ MemoryOK /\ StoresOK /\ [Next]_vars => StoresOK'
<1> SUFFICES ASSUME TypeOK, MemoryOK, StoresOK, [Next]_vars PROVE StoresOK'
  OBVIOUS
<1>1. ASSUME NEW l \in Lists, StartApply(l) PROVE StoresOK'
  BY <1>1, QuietStoresOK DEF StartApply, Windows
<1>2. CASE KeepEntry \/ ReplaceEntry \/ NewEntry \/ PlanDone \/ StartRemove
  BY <1>2, QuietStoresOK
     DEF KeepEntry, ReplaceEntry, NewEntry, PlanDone, StartRemove, Planning, Windows
<1>3. CASE NumberPatches \/ SkipPatch
  BY <1>3, QuietStoresOK DEF NumberPatches, SkipPatch, Windows
<1>4. CASE ReversePatch
  BY <1>4, StoresReverse
<1>5. CASE UnlinkRecord \/ UnlinkFails
  <2>1. /\ UNCHANGED <<applied, half>>
        /\ records' \subseteq records
        /\ pc' \in {"unapply", "remove"}
    BY <1>5 DEF UnlinkRecord, UnlinkFails, NextReversal, tree
  <2>2. QED
    BY <2>1 DEF StoresOK
<1>6. CASE ApplyPatch
  BY <1>6, StoresApply
<1>7. CASE CreateRecord
  BY <1>7, StoresCreate
<1>8. CASE FillRecord
  BY <1>8, StoresFill
<1>9. CASE RefuseReverse \/ RemoveDone \/ RefuseApply \/ ApplyDone \/ Kill \/ KillInside
  BY <1>9, ExitStoresOK
     DEF RefuseReverse, RemoveDone, RefuseApply, ApplyDone, Kill, KillInside
<1>10. CASE BreakReverse
  <2>1. PICK r \in todo : /\ r.diff \in applied
                          /\ TakeOut(r.diff)
                          /\ half' = half \cup {r.diff}
    BY <1>10 DEF BreakReverse
  <2>2. pc' = "idle" /\ records' = records /\ applied' = applied \ {r.diff}
    BY <1>10, <2>1 DEF BreakReverse, Exit, TakeOut
  <2>3. QED
    BY <2>1, <2>2 DEF StoresOK
<1>11. CASE BreakApply
  <2>1. PICK i \in queue : /\ list[i] \notin NoEffect \cup applied
                           /\ half' = half \cup {list[i]}
    BY <1>11 DEF BreakApply
  <2>2. pc' = "idle" /\ UNCHANGED <<applied, records>>
    BY <1>11 DEF BreakApply, Exit
  <2>3. QED
    BY <2>1, <2>2 DEF StoresOK
<1>12. ASSUME NEW d \in Diff, ManualReverse(d) PROVE StoresOK'
  <2>1. /\ pc' = "idle" /\ records' = records
        /\ applied' = applied \ {d} /\ half' = half \ {d}
    BY <1>12 DEF ManualReverse, TakeOut
  <2>2. QED
    BY <2>1 DEF StoresOK
<1>13. CASE Unpack
  BY <1>13 DEF Unpack, StoresOK
<1>14. CASE UNCHANGED vars
  <2>1. /\ UNCHANGED <<applied, half, records, pc, todo, queue, list>>
        /\ \A r \in todo : IsLastName(r, todo)' <=> IsLastName(r, todo)
        /\ \A i \in queue : IsNext(i)' <=> IsNext(i)
    BY <1>14 DEF vars, tree, memory, IsNext, IsLastName
  <2>2. QED
    BY <2>1 DEF StoresOK
<1>15. QED
  BY <1>1, <1>2, <1>3, <1>4, <1>5, <1>6, <1>7, <1>8, <1>9, <1>10, <1>11, <1>12, <1>13,
     <1>14
     DEF Next, RunStep, Accident, Developer, Plan, TakeOff, PutAll
-----------------------------------------------------------------------------
(* The list *)

\* Steps that do not touch the list of a run, or let go of it.
LEMMA QuietListOK ==
    ASSUME ListOK, UNCHANGED <<list, existing, todo, queue, records>>,
           InList' => InList, Considered' = Considered
    PROVE  ListOK'
BY DEF ListOK, Kept, DiffsIn, Considered

\* A run that ends otherwise than well has no list any more.
LEMMA ExitListOK ==
    ASSUME ListOK, NEW o, o # "applied", Exit(o), list' = list PROVE ListOK'
BY DEF Exit, ListOK, InList

\* In these phases the whole list has been considered.
LEMMA AllConsidered == pc # "plan" => Considered = DOMAIN list
BY DEF Considered

\* One more entry was considered.
LEMMA OneMoreConsidered ==
    ASSUME TypeOK, Planning, pc' = pc, list' = list, cursor' = cursor + 1
    PROVE  Considered' = Considered \cup {cursor}
<1>1. cursor \in DOMAIN list /\ DOMAIN list \subseteq Nat /\ pc = "plan"
  BY DEF TypeOK, Planning
<1>2. \A i \in Nat : i < cursor + 1 <=> i < cursor \/ i = cursor
  BY DEF TypeOK
<1>3. QED
  BY <1>1, <1>2 DEF Considered

LEMMA ListKeep ==
    ASSUME TypeOK, PlanOK, ListOK, KeepEntry PROVE ListOK'
<1>1. PICK r \in existing : /\ UpToDate(r, list[cursor])
                            /\ existing' = existing \ {r}
  BY DEF KeepEntry
<1>2. /\ UNCHANGED <<list, todo, queue, records, pc>> /\ pc = "plan"
      /\ Considered' = Considered \cup {cursor}
  BY OneMoreConsidered DEF KeepEntry, Planning, tree
<1>3. Kept' = Kept \cup {r}
  BY <1>1, <1>2 DEF Kept, ListOK, PlanOK
<1>4. r.diff = list[cursor]
  BY <1>1 DEF UpToDate
<1>5. DiffsIn(Kept)' = DiffsIn(Kept) \cup {list[cursor]}
  BY <1>3, <1>4 DEF DiffsIn
<1>6. InList
  BY <1>2 DEF InList
<1>7. QED
  BY <1>1, <1>2, <1>5, <1>6 DEF ListOK

LEMMA ListReplace ==
    ASSUME TypeOK, PlanOK, ListOK, ReplaceEntry PROVE ListOK'
<1>1. PICK r \in existing : /\ todo' = todo \cup {r}
                            /\ existing' = existing \ {r}
  BY DEF ReplaceEntry
<1>2. /\ UNCHANGED <<list, records, pc>> /\ pc = "plan"
      /\ Considered' = Considered \cup {cursor} /\ queue' = queue \cup {cursor}
  BY OneMoreConsidered DEF ReplaceEntry, Planning, tree
<1>3. Kept' = Kept
  BY <1>1, <1>2 DEF Kept
<1>4. DiffsIn(Kept)' = DiffsIn(Kept)
  BY <1>3 DEF DiffsIn
<1>5. InList
  BY <1>2 DEF InList
<1>6. QED
  BY <1>1, <1>2, <1>4, <1>5 DEF ListOK

LEMMA ListNew ==
    ASSUME TypeOK, ListOK, NewEntry PROVE ListOK'
<1>1. /\ UNCHANGED <<list, records, pc, todo, existing>> /\ pc = "plan"
      /\ Considered' = Considered \cup {cursor} /\ queue' = queue \cup {cursor}
  BY OneMoreConsidered DEF NewEntry, Planning, tree
<1>2. DiffsIn(Kept)' = DiffsIn(Kept)
  BY <1>1 DEF Kept, DiffsIn
<1>3. InList
  BY <1>1 DEF InList
<1>4. QED
  BY <1>1, <1>2, <1>3 DEF ListOK

\* The record of a patch that came off was not one to be kept.
LEMMA ListUnlink ==
    ASSUME ListOK, MemoryOK, UnlinkRecord \/ UnlinkFails PROVE ListOK'
<1>1. PICK r \in todo : /\ Unlinking(r)
                        /\ todo' = todo \ {r}
                        /\ records' \in {records, records \ {r}}
  BY DEF UnlinkRecord, UnlinkFails, tree
<1>2. /\ UNCHANGED <<list, existing, queue, outcome>>
      /\ pc \in {"unlink", "erase"} /\ outcome # "applied"
      /\ pc' = IF pc = "unlink" THEN "unapply" ELSE "remove"
  BY <1>1 DEF UnlinkRecord, UnlinkFails, NextReversal, Unlinking, MemoryOK, tree
<1>3. Kept \subseteq Kept'
  BY <1>1, <1>2 DEF Kept
<1>4. DiffsIn(Kept) \subseteq DiffsIn(Kept)'
  BY <1>3 DEF DiffsIn
<1>5. InList' => InList
  BY <1>2 DEF InList
<1>6. Considered' = Considered
  BY <1>2 DEF Considered
<1>7. QED
  BY <1>1, <1>2, <1>4, <1>5, <1>6 DEF ListOK

LEMMA ListFill ==
    ASSUME TypeOK, MemoryOK, PlanOK, ListOK, FillRecord PROVE ListOK'
<1>1. PICK i \in queue :
        /\ records' = (records \ {RecordFor(i, Empty)}) \cup {RecordFor(i, list[i])}
        /\ queue' = queue \ {i}
  BY DEF FillRecord
<1>2. /\ pc = "fill" /\ pc' = "apply" /\ UNCHANGED <<list, existing, todo>>
      /\ existing = {} /\ todo = {}
  BY DEF FillRecord, MemoryOK, PlanOK
<1>3. list[i] \in DiffsIn(Kept)'
  <2>1. RecordFor(i, list[i]) \in Kept'
    BY <1>1, <1>2 DEF Kept
  <2>2. RecordFor(i, list[i]).diff = list[i]
    BY DEF RecordFor
  <2>3. QED
    BY <2>1, <2>2 DEF DiffsIn
<1>4. ASSUME NEW j \in DOMAIN list, list[j] \in DiffsIn(Kept)
      PROVE  list[j] \in DiffsIn(Kept)'
  <2>1. PICK r \in Kept : r.diff = list[j]
    BY <1>4 DEF DiffsIn
  <2>2. r.diff # Empty
    BY <2>1, DataAssumption DEF TypeOK
  <2>3. r \in Kept'
    BY <1>1, <1>2, <2>1, <2>2 DEF Kept, RecordFor
  <2>4. QED
    BY <1>2, <2>1, <2>3 DEF DiffsIn
<1>5. InList /\ Considered = DOMAIN list /\ Considered' = DOMAIN list
  BY <1>2 DEF InList, Considered
<1>6. ASSUME NEW j \in DOMAIN list
      PROVE  j \in queue' \/ list[j] \in NoEffect \cup DiffsIn(Kept)'
  BY <1>1, <1>3, <1>4, <1>5 DEF ListOK
<1>7. QED
  BY <1>1, <1>2, <1>5, <1>6 DEF ListOK

LEMMA NextListOK ==
    TypeOK /\ MemoryOK /\ PlanOK /\ ListOK /\ [Next]_vars => ListOK'
<1> SUFFICES ASSUME TypeOK, MemoryOK, PlanOK, ListOK, [Next]_vars PROVE ListOK'
  OBVIOUS
<1>1. ASSUME NEW l \in Lists, StartApply(l) PROVE ListOK'
  <2>1. Considered' = {}
    <3>1. pc' = "plan" /\ cursor' = 1 /\ list' \in Seq(Diff)
      BY <1>1, DataAssumption DEF StartApply
    <3>2. QED
      BY <3>1 DEF Considered
  <2>2. existing' \cap todo' = {}
    BY <1>1 DEF StartApply
  <2>3. QED
    BY <1>1, <2>1, <2>2 DEF ListOK, StartApply
<1>2. CASE KeepEntry
  BY <1>2, ListKeep
<1>3. CASE ReplaceEntry
  BY <1>3, ListReplace
<1>4. CASE NewEntry
  BY <1>4, ListNew
<1>5. CASE PlanDone
  <2>1. /\ pc = "plan" /\ pc' = "unapply" /\ cursor > Len(list)
        /\ UNCHANGED <<list, existing, todo, queue, records>>
    BY <1>5 DEF PlanDone, memory
  <2>2. \A i \in DOMAIN list : i < cursor
    BY <2>1 DEF TypeOK
  <2>3. InList /\ Considered = DOMAIN list /\ Considered' = DOMAIN list
    BY <2>1, <2>2 DEF InList, Considered
  <2>4. QED
    BY <2>1, <2>3, QuietListOK
<1>6. CASE StartRemove
  BY <1>6 DEF StartRemove, ListOK, MemoryOK, InList
<1>7. CASE ReversePatch \/ NumberPatches \/ ApplyPatch
  <2>1. /\ UNCHANGED <<list, existing, todo, queue, records, outcome>>
        /\ outcome = "running" /\ pc # "plan" /\ pc' # "plan"
        /\ pc' \in {"unlink", "apply", "copy"} => pc \in {"unapply", "apply"}
        /\ pc' \in {"unlink", "apply", "copy", "erase"}
    BY <1>7 DEF ReversePatch, Reversing, NumberPatches, ApplyPatch, MemoryOK, memory
  <2>2. (InList' => InList) /\ Considered' = Considered
    BY <2>1 DEF InList, Considered
  <2>3. QED
    BY <2>1, <2>2, QuietListOK
<1>8. CASE UnlinkRecord \/ UnlinkFails
  BY <1>8, ListUnlink
<1>9. CASE SkipPatch
  <2>1. PICK i \in queue : list[i] \in NoEffect /\ queue' = queue \ {i}
    BY <1>9 DEF SkipPatch
  <2>2. /\ UNCHANGED <<list, existing, todo, records, pc>> /\ pc = "apply"
        /\ DiffsIn(Kept)' = DiffsIn(Kept)
        /\ InList /\ Considered' = Considered
    BY <1>9 DEF SkipPatch, Kept, DiffsIn, InList, Considered
  <2>3. QED
    BY <2>1, <2>2 DEF ListOK
<1>10. CASE CreateRecord
  <2>1. /\ records \subseteq records' /\ UNCHANGED <<list, existing, todo, queue>>
        /\ pc = "copy" /\ pc' = "fill"
    BY <1>10 DEF CreateRecord, memory
  <2>2. Kept \subseteq Kept' /\ InList /\ Considered' = Considered
    BY <2>1 DEF Kept, InList, Considered
  <2>3. DiffsIn(Kept) \subseteq DiffsIn(Kept)'
    BY <2>2 DEF DiffsIn
  <2>4. QED
    BY <2>1, <2>2, <2>3 DEF ListOK
<1>11. CASE FillRecord
  BY <1>11, ListFill
<1>12. CASE \/ RefuseReverse \/ RemoveDone \/ RefuseApply \/ Kill \/ KillInside
            \/ BreakReverse \/ BreakApply
  BY <1>12, ExitListOK
     DEF RefuseReverse, RemoveDone, RefuseApply, Kill, KillInside, BreakReverse,
         BreakApply
<1>13. CASE ApplyDone
  <2>1. /\ pc = "apply" /\ pc' = "idle" /\ queue = {} /\ existing = {} /\ todo = {}
        /\ queue' = {} /\ existing' = {} /\ todo' = {} /\ UNCHANGED <<list, records>>
    BY <1>13 DEF ApplyDone, Exit, MemoryOK, PlanOK
  <2>2. InList /\ Considered' = Considered
    BY <2>1 DEF InList, Considered
  <2>3. QED
    BY <2>1, <2>2, QuietListOK
<1>14. ASSUME NEW d \in Diff, ManualReverse(d) PROVE ListOK'
  BY <1>14 DEF ManualReverse, memory, MemoryOK, ListOK, InList
<1>15. CASE Unpack
  BY <1>15 DEF Unpack, memory, MemoryOK, ListOK, InList
<1>16. CASE UNCHANGED vars
  <2>1. /\ UNCHANGED <<list, existing, todo, queue, records, pc, cursor, outcome>>
    BY <1>16 DEF vars, memory
  <2>2. (InList' <=> InList) /\ Considered' = Considered
    BY <2>1 DEF InList, Considered
  <2>3. QED
    BY <2>1, <2>2, QuietListOK
<1>17. QED
  BY <1>1, <1>2, <1>3, <1>4, <1>5, <1>6, <1>7, <1>8, <1>9, <1>10, <1>11, <1>12, <1>13,
     <1>14, <1>15, <1>16
     DEF Next, RunStep, Accident, Developer, Plan, TakeOff, PutAll
-----------------------------------------------------------------------------
(* The names of the records *)

\* A list that names each patch once.
LEMMA ListNamesUnique ==
    ASSUME UniqueNames, ListOK, NEW i \in DOMAIN list, NEW j \in DOMAIN list,
           NameOf[list[i]] = NameOf[list[j]]
    PROVE  i = j
<1>1. CASE list \in Lists
  BY <1>1 DEF UniqueNames
<1>2. CASE list = <<>>
  BY <1>2
<1>3. QED
  BY <1>1, <1>2 DEF ListOK

\* A step that changes no record and keeps no more of them.
LEMMA QuietNamesOK ==
    ASSUME NamesOK, UNCHANGED <<records, list>>, tears = 0,
           InList' => InList /\ Kept' \subseteq Kept
                        /\ Considered \ queue \subseteq Considered' \ queue'
    PROVE  NamesOK'
BY DEF NamesOK

LEMMA NamesStart ==
    ASSUME NamesOK, NEW l \in Lists, StartApply(l) PROVE NamesOK'
<1> SUFFICES ASSUME UniqueNames, tears = 0 PROVE NamesOK'
  BY DEF StartApply, NamesOK
<1>1. \A r, s \in records : r.name = s.name => r = s
  BY DEF NamesOK
<1>2. records \subseteq Survivors
  BY <1>1 DEF Survivors, IsLastName
<1>3. Kept' = {} /\ records' = records
  BY <1>2 DEF StartApply, Kept
<1>4. QED
  BY <1>1, <1>3 DEF NamesOK

LEMMA NamesKeep ==
    ASSUME TypeOK, PlanOK, ListOK, NamesOK, KeepEntry PROVE NamesOK'
<1> SUFFICES ASSUME UniqueNames, tears = 0 PROVE NamesOK'
  BY DEF KeepEntry, NamesOK
<1>1. PICK r \in existing : /\ UpToDate(r, list[cursor])
                            /\ existing' = existing \ {r}
  BY DEF KeepEntry
<1>2. /\ UNCHANGED <<list, todo, queue, records, pc>> /\ pc = "plan"
      /\ Considered' = Considered \cup {cursor}
  BY OneMoreConsidered DEF KeepEntry, Planning, tree
<1>3. Kept' \subseteq Kept \cup {r}
  BY <1>1, <1>2 DEF Kept
<1>4. r.diff = list[cursor]
  BY <1>1 DEF UpToDate
<1>5. cursor \notin queue
  BY <1>2 DEF ListOK, Considered, TypeOK
<1>6. InList
  BY <1>2 DEF InList
<1>7. ASSUME NEW q \in Kept'
      PROVE  q.diff = Empty \/ \E i \in Considered' \ queue' : list'[i] = q.diff
  <2>1. CASE q = r
    BY <1>2, <1>4, <1>5, <2>1
  <2>2. CASE q \in Kept
    BY <1>2, <1>6, <2>2 DEF NamesOK
  <2>3. QED
    BY <1>3, <2>1, <2>2
<1>8. QED
  BY <1>2, <1>7 DEF NamesOK

LEMMA NamesReplaceOrNew ==
    ASSUME TypeOK, ListOK, NamesOK, ReplaceEntry \/ NewEntry PROVE NamesOK'
<1> SUFFICES ASSUME UniqueNames, tears = 0 PROVE NamesOK'
  BY DEF ReplaceEntry, NewEntry, NamesOK
<1>1. /\ UNCHANGED <<list, records, pc>> /\ pc = "plan"
      /\ Considered' = Considered \cup {cursor} /\ queue' = queue \cup {cursor}
  BY OneMoreConsidered DEF ReplaceEntry, NewEntry, Planning, tree
<1>2. todo \cup existing \subseteq todo' \cup existing'
  BY DEF ReplaceEntry, NewEntry
<1>3. Kept' \subseteq Kept
  BY <1>1, <1>2 DEF Kept
<1>4. cursor \notin Considered
  BY <1>1 DEF Considered, TypeOK
<1>5. InList
  BY <1>1 DEF InList
<1>6. QED
  BY <1>1, <1>3, <1>4, <1>5, QuietNamesOK

LEMMA NamesUnlink ==
    ASSUME MemoryOK, NamesOK, UnlinkRecord PROVE NamesOK'
<1> SUFFICES ASSUME UniqueNames, tears = 0 PROVE NamesOK'
  BY DEF UnlinkRecord, NamesOK
<1>1. PICK r \in todo : /\ Unlinking(r)
                        /\ todo' = todo \ {r}
                        /\ records' = records \ {r}
  BY DEF UnlinkRecord
<1>2. /\ UNCHANGED <<list, existing, queue, outcome>>
      /\ pc \in {"unlink", "erase"} /\ outcome # "applied"
      /\ pc' = IF pc = "unlink" THEN "unapply" ELSE "remove"
  BY <1>1 DEF UnlinkRecord, NextReversal, Unlinking, MemoryOK, tree
<1>3. Kept' = Kept
  BY <1>1, <1>2 DEF Kept
<1>4. (InList' => InList) /\ Considered' = Considered
  BY <1>2 DEF InList, Considered
<1>5. QED
  BY <1>1, <1>2, <1>3, <1>4 DEF NamesOK

\* No record is that of the entry that is put on next.
LEMMA NextIsNotNamed ==
    ASSUME TypeOK, MemoryOK, PlanOK, StoresOK, ListOK, NamesOK, UniqueNames, tears = 0,
           pc \in {"apply", "copy", "fill"},
           NEW i \in queue, NEW r \in records, r.diff # Empty
    PROVE  /\ r.name # NameOf[list[i]]
           /\ \E j \in DOMAIN list \ queue : list[j] = r.diff
<1>1. r \in Kept /\ InList
  BY DEF Kept, InList, MemoryOK, PlanOK
<1>2. PICK j \in Considered \ queue : list[j] = r.diff
  BY <1>1 DEF NamesOK
<1>3. r.name = NameOf[list[j]]
  BY <1>2 DEF StoresOK
<1>4. i \in DOMAIN list /\ j \in DOMAIN list /\ i # j
  BY <1>2 DEF TypeOK, Considered
<1>5. QED
  BY <1>2, <1>3, <1>4, ListNamesUnique

LEMMA NamesCreate ==
    ASSUME TypeOK, MemoryOK, PlanOK, LedgerOK, StoresOK, ListOK, NamesOK, CreateRecord
    PROVE  NamesOK'
<1> SUFFICES ASSUME UniqueNames, tears = 0 PROVE NamesOK'
  BY DEF CreateRecord, NamesOK
<1>1. PICK i \in queue : records' = records \cup {RecordFor(i, Empty)}
  BY DEF CreateRecord
<1>2. /\ pc = "copy" /\ pc' = "fill"
      /\ UNCHANGED <<list, existing, todo, queue>>
  BY DEF CreateRecord, memory
<1>3. \A r \in records : r.diff # Empty
  BY <1>2 DEF LedgerOK
<1>4. RecordFor(i, Empty).name = NameOf[list[i]] /\ RecordFor(i, Empty).diff = Empty
  BY DEF RecordFor
<1>5. \A r, s \in records' : r.name = s.name => r = s
  <2>1. \A r \in records : r.name # NameOf[list[i]]
    BY <1>2, <1>3, NextIsNotNamed
  <2>2. QED
    BY <1>1, <1>4, <2>1 DEF NamesOK
<1>6. Kept' \subseteq Kept \cup {RecordFor(i, Empty)}
  BY <1>1, <1>2 DEF Kept
<1>7. InList /\ Considered' = Considered
  BY <1>2 DEF InList, Considered
<1>8. \A r \in Kept' :
        r.diff = Empty \/ \E j \in Considered' \ queue' : list'[j] = r.diff
  BY <1>2, <1>4, <1>6, <1>7 DEF NamesOK
<1>9. QED
  BY <1>5, <1>8 DEF NamesOK

LEMMA NamesFill ==
    ASSUME TypeOK, MemoryOK, PlanOK, NumbersOK, LedgerOK, StoresOK, ListOK, NamesOK,
           FillRecord
    PROVE  NamesOK'
<1> SUFFICES ASSUME UniqueNames, tears = 0 PROVE NamesOK'
  BY DEF FillRecord, NamesOK
<1>1. PICK i \in queue :
        /\ IsNext(i)
        /\ records' = (records \ {RecordFor(i, Empty)}) \cup {RecordFor(i, list[i])}
        /\ queue' = queue \ {i}
  BY DEF FillRecord
<1> DEFINE S == RecordFor(i, list[i])
<1>2. /\ pc = "fill" /\ pc' = "apply" /\ list' = list
  BY DEF FillRecord
<1>3. S.name = NameOf[list[i]] /\ S.diff = list[i]
  BY DEF RecordFor
<1>4. i \in DOMAIN list
  BY DEF TypeOK
<1>5. ASSUME NEW r \in records', r # S
      PROVE  r \in records /\ r.diff # Empty
  <2>1. r \in records /\ r # RecordFor(i, Empty)
    BY <1>1, <1>5
  <2>2. r.num < num /\ r.num \in Nat /\ num \in Nat
    BY <1>1, <1>2, <2>1, NextIsUnique DEF NumbersOK, TypeOK, RecordFile
  <2>3. QED
    BY <2>1, <2>2 DEF LedgerOK
<1>6. \A r, s \in records' : r.name = s.name => r = s
  <2>1. \A r \in records' : r # S => r.name # S.name
    BY <1>2, <1>3, <1>5, NextIsNotNamed
  <2>2. QED
    BY <1>5, <2>1 DEF NamesOK
<1>7. Considered' = DOMAIN list
  BY <1>2 DEF Considered
<1>8. ASSUME NEW r \in records'
      PROVE  \E j \in DOMAIN list \ queue' : list[j] = r.diff
  <2>1. CASE r = S
    BY <1>1, <1>3, <1>4, <2>1
  <2>2. CASE r # S
    <3>1. \E j \in DOMAIN list \ queue : list[j] = r.diff
      BY <1>2, <1>5, <2>2, NextIsNotNamed
    <3>2. QED
      BY <1>1, <3>1
  <2>3. QED
    BY <2>1, <2>2
<1>9. \A r \in Kept' : \E j \in Considered' \ queue' : list'[j] = r.diff
  BY <1>2, <1>7, <1>8 DEF Kept
<1>10. QED
  BY <1>6, <1>9 DEF NamesOK

LEMMA NextNamesOK ==
    CoreInv /\ StoresOK /\ ListOK /\ NamesOK /\ [Next]_vars => NamesOK'
<1> SUFFICES ASSUME CoreInv, StoresOK, ListOK, NamesOK, [Next]_vars PROVE NamesOK'
  OBVIOUS
<1> USE DEF CoreInv
<1>1. ASSUME NEW l \in Lists, StartApply(l) PROVE NamesOK'
  BY <1>1, NamesStart
<1>2. CASE KeepEntry
  BY <1>2, NamesKeep
<1>3. CASE ReplaceEntry \/ NewEntry
  BY <1>3, NamesReplaceOrNew
<1>4. CASE UnlinkRecord
  BY <1>4, NamesUnlink
<1>5. CASE CreateRecord
  BY <1>5, NamesCreate
<1>6. CASE FillRecord
  BY <1>6, NamesFill
<1>7. CASE PlanDone
  <2>1. /\ pc = "plan" /\ pc' = "unapply"
        /\ UNCHANGED <<list, existing, todo, queue, records, tears>>
    BY <1>7 DEF PlanDone, memory
  <2>2. InList /\ Considered \subseteq Considered' /\ Kept' = Kept
    BY <2>1 DEF InList, Considered, Kept
  <2>3. QED
    BY <2>1, <2>2, QuietNamesOK DEF NamesOK
<1>8. CASE ReversePatch \/ NumberPatches \/ SkipPatch \/ ApplyPatch
  <2>1. /\ UNCHANGED <<list, existing, todo, records, outcome, tears>>
        /\ queue' \subseteq queue
        /\ outcome = "running" /\ pc # "plan" /\ pc' # "plan"
        /\ pc' \in {"unlink", "apply", "copy"} => pc \in {"unapply", "apply"}
        /\ pc' \in {"unlink", "apply", "copy", "erase"}
    BY <1>8 DEF ReversePatch, Reversing, NumberPatches, SkipPatch, ApplyPatch, MemoryOK, memory
  <2>2. (InList' => InList) /\ Considered' = Considered /\ Kept' = Kept
    BY <2>1 DEF InList, Considered, Kept
  <2>3. QED
    BY <2>1, <2>2, QuietNamesOK DEF NamesOK
<1>9. CASE ApplyDone
  <2>1. /\ pc = "apply" /\ pc' = "idle" /\ queue = {} /\ existing = {} /\ todo = {}
        /\ queue' = {} /\ existing' = {} /\ todo' = {} /\ UNCHANGED <<list, records, tears>>
    BY <1>9 DEF ApplyDone, Exit, MemoryOK, PlanOK
  <2>2. InList /\ Considered' = Considered /\ Kept' = Kept
    BY <2>1 DEF InList, Considered, Kept
  <2>3. QED
    BY <2>1, <2>2, QuietNamesOK DEF NamesOK
<1>10. CASE \/ StartRemove \/ RefuseReverse \/ RemoveDone \/ RefuseApply \/ Kill
  <2>1. ~InList' /\ UNCHANGED <<records, tears>>
    BY <1>10 DEF StartRemove, RefuseReverse, RemoveDone, RefuseApply, Kill, Exit, InList
  <2>2. QED
    BY <2>1 DEF NamesOK
<1>11. CASE KillInside \/ UnlinkFails \/ BreakReverse \/ BreakApply
  <2>1. tears' # 0
    BY <1>11 DEF KillInside, UnlinkFails, BreakReverse, BreakApply, Tear, TypeOK
  <2>2. QED
    BY <2>1 DEF NamesOK
<1>12. ASSUME NEW d \in Diff, ManualReverse(d) PROVE NamesOK'
  BY <1>12 DEF ManualReverse, NamesOK, InList
<1>13. CASE Unpack
  BY <1>13 DEF Unpack, NamesOK, InList
<1>14. CASE UNCHANGED vars
  <2>1. /\ UNCHANGED <<list, existing, todo, queue, records, pc, cursor, outcome, tears>>
    BY <1>14 DEF vars, memory
  <2>2. (InList' <=> InList) /\ Considered' = Considered /\ Kept' = Kept
    BY <2>1 DEF InList, Considered, Kept
  <2>3. QED
    BY <2>1, <2>2, QuietNamesOK DEF NamesOK
<1>15. QED
  BY <1>1, <1>2, <1>3, <1>4, <1>5, <1>6, <1>7, <1>8, <1>9, <1>10, <1>11, <1>12, <1>13,
     <1>14
     DEF Next, RunStep, Accident, Developer, Plan, TakeOff, PutAll
-----------------------------------------------------------------------------
(* How much a torn run is to blame for *)

\* Sets that grow by one element or lose one, with what that does to their size.
LEMMA Smaller ==
    ASSUME NEW S, IsFiniteSet(S), NEW T, T \subseteq S
    PROVE  /\ IsFiniteSet(T)
           /\ Cardinality(T) \in Nat /\ Cardinality(S) \in Nat
           /\ Cardinality(T) <= Cardinality(S)
BY FS_Subset, FS_CardinalityType

LEMMA OneMore ==
    ASSUME NEW S, IsFiniteSet(S), NEW T, NEW x, T \subseteq S \cup {x}
    PROVE  /\ IsFiniteSet(T)
           /\ Cardinality(T) \in Nat /\ Cardinality(S) \in Nat
           /\ Cardinality(T) <= Cardinality(S) + 1
<1>1. /\ IsFiniteSet(S \cup {x})
      /\ Cardinality(S \cup {x}) <= Cardinality(S) + 1
      /\ Cardinality(S) \in Nat
  BY FS_AddElement, FS_CardinalityType
<1>2. /\ IsFiniteSet(T) /\ Cardinality(T) \in Nat /\ Cardinality(S \cup {x}) \in Nat
      /\ Cardinality(T) <= Cardinality(S \cup {x})
  BY <1>1, Smaller
<1>3. QED
  BY <1>1, <1>2

LEMMA OneLess ==
    ASSUME NEW S, IsFiniteSet(S), NEW x \in S, NEW T, T \subseteq S \ {x}
    PROVE  /\ IsFiniteSet(T)
           /\ Cardinality(T) \in Nat /\ Cardinality(S) \in Nat
           /\ Cardinality(T) + 1 <= Cardinality(S)
<1>1. /\ IsFiniteSet(S \ {x})
      /\ Cardinality(S \ {x}) = Cardinality(S) - 1
      /\ Cardinality(S) \in Nat
  BY FS_RemoveElement, FS_CardinalityType
<1>2. /\ IsFiniteSet(T) /\ Cardinality(T) \in Nat /\ Cardinality(S \ {x}) \in Nat
      /\ Cardinality(T) <= Cardinality(S \ {x})
  BY <1>1, Smaller
<1>3. QED
  BY <1>1, <1>2

\* What the debt is counted with is finite.
LEMMA DebtFinite ==
    ASSUME DebtOK
    PROVE  /\ IsFiniteSet(Loose) /\ Cardinality(Loose) \in Nat
           /\ IsFiniteSet(Filled) /\ Cardinality(Filled) \in Nat
           /\ IsFiniteSet(Placed) /\ Cardinality(Placed) \in Nat
<1>1. IsFiniteSet(applied) /\ IsFiniteSet(half) /\ IsFiniteSet(records)
  BY DEF DebtOK
<1>2. IsFiniteSet(applied \cup half)
  BY <1>1, FS_Union
<1>3. /\ Loose \subseteq applied \cup half
      /\ Placed \subseteq applied \cup half
      /\ Filled \subseteq records
  BY DEF Loose, Placed, Filled
<1>4. QED
  BY <1>1, <1>2, <1>3, Smaller

\* The debt outside the windows, and while one more tear may be coming.
Balanced == Cardinality(Loose) + Cardinality(Filled) <= Cardinality(Placed) + tears
OneTorn == Cardinality(Loose) + Cardinality(Filled) <= Cardinality(Placed) + tears + 1

\* Inside a window at most one patch is out of balance.
LEMMA OneTornAtMost ==
    ASSUME TypeOK, MemoryOK, DebtOK PROVE OneTorn
<1> USE DEF OneTorn
<1>1. /\ Cardinality(Loose) \in Nat /\ Cardinality(Filled) \in Nat
      /\ Cardinality(Placed) \in Nat /\ tears \in Nat
  BY DebtFinite DEF TypeOK
<1>2. CASE pc \notin Windows
  BY <1>1, <1>2 DEF DebtOK
<1>3. CASE pc \in {"unlink", "erase"}
  <2>1. PICK r \in todo : IsLastName(r, todo)
    BY <1>3 DEF MemoryOK
  <2>2. Cardinality(Loose) + Cardinality(Filled)
          <= Cardinality(Placed) + tears + IF r.diff = Empty THEN 0 ELSE 1
    BY <1>3, <2>1 DEF DebtOK
  <2>3. QED
    BY <1>1, <2>2
<1>4. CASE pc \in {"copy", "fill"}
  <2>1. PICK i \in queue : IsNext(i)
    BY <1>4 DEF MemoryOK
  <2>2. IF list[i] \in Recorded
        THEN Cardinality(Loose) + Cardinality(Filled) + 1 <= Cardinality(Placed) + tears
        ELSE Cardinality(Loose) + Cardinality(Filled) <= Cardinality(Placed) + tears + 1
    BY <1>4, <2>1 DEF DebtOK
  <2>3. QED
    BY <1>1, <2>2
<1>5. QED
  BY <1>2, <1>3, <1>4 DEF Windows

\* A step that changes no store.
LEMMA QuietDebtOK ==
    ASSUME DebtOK, UNCHANGED <<applied, half, records, tears>>,
           pc \notin Windows, pc' \notin Windows
    PROVE  DebtOK'
BY DEF DebtOK, Loose, Filled, Placed, Recorded, Windows

\* A step that leads out of the windows with a new tear.
LEMMA TornDebtOK ==
    ASSUME TypeOK, MemoryOK, DebtOK, UNCHANGED <<applied, half, records>>,
           tears' = tears + 1, pc' \notin Windows
    PROVE  DebtOK'
<1>1. OneTorn
  BY OneTornAtMost
<1>2. Loose' = Loose /\ Filled' = Filled /\ Placed' = Placed
  BY DEF Loose, Filled, Placed, Recorded
<1>3. Balanced'
  <2>1. Cardinality(Placed) \in Nat /\ tears \in Nat
    BY DebtFinite DEF TypeOK
  <2>2. QED
    BY <1>1, <1>2, <2>1 DEF Balanced, OneTorn
<1>4. QED
  BY <1>3 DEF DebtOK, Balanced, Windows

LEMMA DebtReverse ==
    ASSUME TypeOK, MemoryOK, StoresOK, DebtOK, ReversePatch PROVE DebtOK'
<1>1. PICK r \in todo : Reversing(r) /\ CanReverse(r.diff) /\ TakeOut(r.diff)
  BY DEF ReversePatch
<1>2. /\ pc \in {"unapply", "remove"} /\ pc' \in {"unlink", "erase"}
      /\ UNCHANGED <<half, records, todo, tears>> /\ r \in records
      /\ applied' = applied \ {r.diff}
  BY <1>1 DEF ReversePatch, Reversing, TakeOut, MemoryOK, memory
<1>3. ASSUME NEW s \in todo', IsLastName(s, todo)' PROVE s = r
  <2>1. IsLastName(s, todo) /\ s \in todo
    BY <1>2, <1>3 DEF IsLastName
  <2>2. QED
    BY <1>1, <2>1, LastOfTodo DEF Reversing
<1>4. Balanced
  BY <1>2 DEF DebtOK, Balanced, Windows
<1>5. IsFiniteSet(applied') /\ Filled' = Filled /\ Recorded' = Recorded
  BY <1>2, Smaller DEF DebtOK, Filled, Recorded
<1>6. Cardinality(Loose)' + Cardinality(Filled)'
        <= Cardinality(Placed)' + tears' + IF r.diff = Empty THEN 0 ELSE 1
  <2>1. CASE r.diff = Empty
    <3>1. applied' = applied
      BY <1>2, <2>1, DataAssumption DEF TypeOK
    <3>2. Loose' = Loose /\ Placed' = Placed
      BY <1>2, <1>5, <3>1 DEF Loose, Placed
    <3>3. Cardinality(Placed) \in Nat /\ tears \in Nat
      BY DebtFinite DEF TypeOK
    <3>4. QED
      BY <1>2, <1>4, <1>5, <2>1, <3>2, <3>3 DEF Balanced
  <2>2. CASE r.diff # Empty
    <3>1. r.diff \in applied /\ r.diff \notin half /\ r.diff \in Recorded
      BY <1>1, <1>2, <2>2, ReversedIsApplied DEF Recorded
    <3>2. Loose' = Loose
      BY <1>2, <1>5, <3>1 DEF Loose
    <3>3. Placed' = Placed \ {r.diff} /\ r.diff \in Placed
      BY <1>2, <1>5, <3>1 DEF Placed
    <3>4. /\ Cardinality(Placed') = Cardinality(Placed) - 1
          /\ Cardinality(Placed) \in Nat /\ tears \in Nat
          /\ Cardinality(Loose) \in Nat /\ Cardinality(Filled) \in Nat
      BY <3>3, DebtFinite, FS_RemoveElement DEF TypeOK
    <3>5. QED
      BY <1>2, <1>4, <1>5, <2>2, <3>2, <3>4 DEF Balanced
  <2>3. QED
    BY <2>1, <2>2
<1>7. \A s \in todo' : IsLastName(s, todo)' =>
        Cardinality(Loose)' + Cardinality(Filled)'
          <= Cardinality(Placed)' + tears' + IF s.diff = Empty THEN 0 ELSE 1
  BY <1>3, <1>6
<1>8. QED
  BY <1>2, <1>5, <1>7 DEF DebtOK, Windows

LEMMA DebtUnlink ==
    ASSUME TypeOK, MemoryOK, StoresOK, DebtOK, UnlinkRecord PROVE DebtOK'
<1>1. PICK r \in todo : Unlinking(r) /\ records' = records \ {r}
  BY DEF UnlinkRecord
<1>2. /\ pc \in {"unlink", "erase"} /\ pc' \notin Windows
      /\ UNCHANGED <<applied, half, tears>> /\ r \in records
  BY <1>1 DEF UnlinkRecord, NextReversal, Unlinking, MemoryOK, Windows, tree
<1>3. /\ Cardinality(Loose) + Cardinality(Filled)
           <= Cardinality(Placed) + tears + IF r.diff = Empty THEN 0 ELSE 1
      /\ r.diff \notin applied \cup half
  BY <1>1, <1>2 DEF DebtOK, StoresOK, Unlinking
<1>4. Loose' = Loose /\ Placed' = Placed
  <2>1. Recorded' \subseteq Recorded /\ Recorded \subseteq Recorded' \cup {r.diff}
    BY <1>1 DEF Recorded
  <2>2. QED
    BY <1>2, <1>3, <2>1 DEF Loose, Placed
<1>5. /\ Cardinality(Placed) \in Nat /\ tears \in Nat
      /\ Cardinality(Loose) \in Nat /\ Cardinality(Filled) \in Nat
  BY DebtFinite DEF TypeOK
<1>6. Balanced'
  <2>1. CASE r.diff = Empty
    <3>1. Filled' = Filled
      BY <1>1, <2>1 DEF Filled
    <3>2. QED
      BY <1>2, <1>3, <1>4, <1>5, <2>1, <3>1 DEF Balanced
  <2>2. CASE r.diff # Empty
    <3>1. r \in Filled /\ Filled' \subseteq Filled \ {r}
      BY <1>1, <1>2, <2>2 DEF Filled
    <3>2. Cardinality(Filled') \in Nat /\ Cardinality(Filled') + 1 <= Cardinality(Filled)
      BY <3>1, DebtFinite, OneLess
    <3>3. QED
      BY <1>2, <1>3, <1>4, <1>5, <2>2, <3>2 DEF Balanced
  <2>3. QED
    BY <2>1, <2>2
<1>7. IsFiniteSet(records')
  BY <1>1, Smaller DEF DebtOK
<1>8. QED
  BY <1>2, <1>6, <1>7 DEF DebtOK, Balanced, Windows

LEMMA DebtApply ==
    ASSUME TypeOK, DebtOK, ApplyPatch PROVE DebtOK'
<1>1. PICK i \in queue :
        IsNext(i) /\ list[i] \notin NoEffect \cup applied \cup half /\ PutOn(list[i])
  BY DEF ApplyPatch
<1> DEFINE d == list[i]
<1>2. /\ pc = "apply" /\ pc' = "copy"
      /\ UNCHANGED <<half, records, queue, list, tears>>
      /\ applied' = applied \cup {d}
  BY <1>1 DEF ApplyPatch, PutOn, memory
<1>3. \A j \in queue' : IsNext(j)' => j = i
  BY <1>1, <1>2, NextIsUnique DEF IsNext
<1>4. Balanced
  BY <1>2 DEF DebtOK, Balanced, Windows
<1>5. IsFiniteSet(applied') /\ Filled' = Filled /\ Recorded' = Recorded
  BY <1>2, FS_AddElement DEF DebtOK, Filled, Recorded
<1>6. /\ Cardinality(Placed) \in Nat /\ tears \in Nat
      /\ Cardinality(Loose) \in Nat /\ Cardinality(Filled) \in Nat
  BY DebtFinite DEF TypeOK
<1>7. IF d \in Recorded
      THEN Cardinality(Loose)' + Cardinality(Filled)' + 1 <= Cardinality(Placed)' + tears'
      ELSE Cardinality(Loose)' + Cardinality(Filled)' <= Cardinality(Placed)' + tears' + 1
  <2>1. CASE d \in Recorded
    <3>1. Loose' = Loose /\ Placed' = Placed \cup {d} /\ d \notin Placed
      BY <1>1, <1>2, <1>5, <2>1 DEF Loose, Placed
    <3>2. Cardinality(Placed') = Cardinality(Placed) + 1
      BY <3>1, DebtFinite, FS_AddElement
    <3>3. QED
      BY <1>2, <1>4, <1>5, <1>6, <2>1, <3>1, <3>2 DEF Balanced
  <2>2. CASE d \notin Recorded
    <3>1. Loose' \subseteq Loose \cup {d} /\ Placed' = Placed
      BY <1>1, <1>2, <1>5, <2>2 DEF Loose, Placed
    <3>2. Cardinality(Loose') \in Nat /\ Cardinality(Loose') <= Cardinality(Loose) + 1
      BY <3>1, DebtFinite, OneMore
    <3>3. QED
      BY <1>2, <1>4, <1>5, <1>6, <2>2, <3>1, <3>2 DEF Balanced
  <2>3. QED
    BY <2>1, <2>2
<1>8. \A j \in queue' : IsNext(j)' =>
        IF list'[j] \in Recorded'
        THEN Cardinality(Loose)' + Cardinality(Filled)' + 1 <= Cardinality(Placed)' + tears'
        ELSE Cardinality(Loose)' + Cardinality(Filled)' <= Cardinality(Placed)' + tears' + 1
  BY <1>2, <1>3, <1>5, <1>7
<1>9. QED
  BY <1>2, <1>5, <1>8 DEF DebtOK, Windows

LEMMA DebtCreate ==
    ASSUME TypeOK, DebtOK, CreateRecord PROVE DebtOK'
<1>1. PICK i \in queue : records' = records \cup {RecordFor(i, Empty)}
  BY DEF CreateRecord
<1>2. /\ pc = "copy" /\ pc' = "fill"
      /\ UNCHANGED <<applied, half, queue, list, tears>>
      /\ \A j \in queue : IsNext(j)' <=> IsNext(j)
  BY DEF CreateRecord, tree, memory, IsNext
<1>3. RecordFor(i, Empty).diff = Empty
  BY DEF RecordFor
<1>4. Filled' = Filled /\ Recorded' = Recorded
  BY <1>1, <1>3 DEF Filled, Recorded
<1>5. Loose' = Loose /\ Placed' = Placed
  BY <1>2, <1>4 DEF Loose, Placed
<1>6. IsFiniteSet(records')
  BY <1>1, FS_AddElement DEF DebtOK
<1>7. QED
  BY <1>2, <1>4, <1>5, <1>6 DEF DebtOK, Windows

LEMMA DebtFill ==
    ASSUME TypeOK, StoresOK, DebtOK, FillRecord PROVE DebtOK'
<1>1. PICK i \in queue :
        /\ IsNext(i)
        /\ records' = (records \ {RecordFor(i, Empty)}) \cup {RecordFor(i, list[i])}
  BY DEF FillRecord
<1> DEFINE d == list[i]
           S == RecordFor(i, d)
<1>2. pc = "fill" /\ pc' = "apply" /\ UNCHANGED <<applied, half, tears>>
  BY DEF FillRecord, tree
<1>3. d \in applied /\ d \notin half /\ d # Empty
  BY <1>1, <1>2, DataAssumption DEF StoresOK, TypeOK
<1>4. S.diff = d /\ RecordFor(i, Empty).diff = Empty
  BY DEF RecordFor
<1>5. Recorded' = Recorded \cup {d}
  BY <1>1, <1>3, <1>4 DEF Recorded
<1>6. IsFiniteSet(records') /\ Filled' \subseteq Filled \cup {S}
  <2>1. records' \subseteq records \cup {S}
    BY <1>1
  <2>2. QED
    BY <2>1, OneMore DEF DebtOK, Filled
<1>7. /\ Cardinality(Placed) \in Nat /\ tears \in Nat
      /\ Cardinality(Loose) \in Nat /\ Cardinality(Filled) \in Nat
  BY DebtFinite DEF TypeOK
<1>8. Cardinality(Filled') \in Nat /\ Cardinality(Filled') <= Cardinality(Filled) + 1
  BY <1>6, DebtFinite, OneMore
<1>9. IF d \in Recorded
      THEN Cardinality(Loose) + Cardinality(Filled) + 1 <= Cardinality(Placed) + tears
      ELSE Cardinality(Loose) + Cardinality(Filled) <= Cardinality(Placed) + tears + 1
  BY <1>1, <1>2 DEF DebtOK
<1>10. Balanced'
  <2>1. CASE d \in Recorded
    <3>1. Loose' = Loose /\ Placed' = Placed
      BY <1>2, <1>5, <2>1 DEF Loose, Placed
    <3>2. QED
      BY <1>2, <1>7, <1>8, <1>9, <2>1, <3>1 DEF Balanced
  <2>2. CASE d \notin Recorded
    <3>1. d \in Loose /\ Loose' = Loose \ {d} /\ d \notin Placed /\ Placed' = Placed \cup {d}
      BY <1>2, <1>3, <1>5, <2>2 DEF Loose, Placed
    <3>2. /\ Cardinality(Loose') = Cardinality(Loose) - 1
          /\ Cardinality(Placed') = Cardinality(Placed) + 1
      BY <3>1, DebtFinite, FS_AddElement, FS_RemoveElement
    <3>3. QED
      BY <1>2, <1>7, <1>8, <1>9, <2>2, <3>2 DEF Balanced
  <2>3. QED
    BY <2>1, <2>2
<1>11. QED
  BY <1>2, <1>6, <1>10 DEF DebtOK, Balanced, Windows

LEMMA DebtBreakReverse ==
    ASSUME TypeOK, MemoryOK, DebtOK, BreakReverse PROVE DebtOK'
<1>1. PICK r \in todo : /\ Reversing(r) /\ r.diff \in applied
                        /\ TakeOut(r.diff) /\ half' = half \cup {r.diff}
  BY DEF BreakReverse
<1>2. /\ pc \notin Windows /\ pc' \notin Windows
      /\ applied' = applied \ {r.diff} /\ records' = records
      /\ tears' = tears + 1 /\ r \in records
  BY <1>1 DEF BreakReverse, Reversing, Exit, TakeOut, Tear, MemoryOK, Windows
<1>3. r.diff \in Recorded
  BY <1>1, <1>2, DataAssumption DEF Recorded, TypeOK
<1>4. Filled' = Filled /\ Recorded' = Recorded
  BY <1>2 DEF Filled, Recorded
<1>5. Placed' = Placed /\ Loose' \subseteq Loose \cup {r.diff}
  BY <1>1, <1>2, <1>3, <1>4 DEF Placed, Loose
<1>6. /\ Cardinality(Placed) \in Nat /\ tears \in Nat
      /\ Cardinality(Loose) \in Nat /\ Cardinality(Filled) \in Nat
      /\ Cardinality(Loose') \in Nat /\ Cardinality(Loose') <= Cardinality(Loose) + 1
  BY <1>5, DebtFinite, OneMore DEF TypeOK
<1>7. Balanced
  BY <1>2 DEF DebtOK, Balanced
<1>8. Balanced'
  BY <1>2, <1>4, <1>5, <1>6, <1>7 DEF Balanced
<1>9. IsFiniteSet(applied') /\ IsFiniteSet(half') /\ IsFiniteSet(records')
  BY <1>1, <1>2, FS_AddElement, FS_RemoveElement DEF DebtOK
<1>10. QED
  BY <1>2, <1>8, <1>9 DEF DebtOK, Balanced, Windows

LEMMA DebtBreakApply ==
    ASSUME TypeOK, DebtOK, BreakApply PROVE DebtOK'
<1>1. PICK i \in queue : half' = half \cup {list[i]}
  BY DEF BreakApply
<1>2. /\ pc \notin Windows /\ pc' \notin Windows
      /\ UNCHANGED <<applied, records>> /\ tears' = tears + 1
  BY DEF BreakApply, Exit, Tear, Windows
<1>3. Filled' = Filled /\ Recorded' = Recorded
  BY <1>2 DEF Filled, Recorded
<1>4. IsFiniteSet(applied') /\ IsFiniteSet(half') /\ IsFiniteSet(records')
  BY <1>1, <1>2, FS_AddElement DEF DebtOK
<1>5. /\ Placed \subseteq Placed' /\ Loose' \subseteq Loose \cup {list[i]}
      /\ Placed' \subseteq applied' \cup half'
  BY <1>1, <1>2, <1>3 DEF Placed, Loose
<1>6. /\ Cardinality(Placed) \in Nat /\ tears \in Nat
      /\ Cardinality(Loose) \in Nat /\ Cardinality(Filled) \in Nat
      /\ Cardinality(Loose') \in Nat /\ Cardinality(Loose') <= Cardinality(Loose) + 1
  BY <1>5, DebtFinite, OneMore DEF TypeOK
<1>7. Cardinality(Placed') \in Nat /\ Cardinality(Placed) <= Cardinality(Placed')
  <2>1. IsFiniteSet(Placed')
    BY <1>4, <1>5, FS_Union, Smaller
  <2>2. QED
    BY <1>5, <2>1, Smaller
<1>8. Balanced
  BY <1>2 DEF DebtOK, Balanced
<1>9. Balanced'
  BY <1>2, <1>3, <1>6, <1>7, <1>8 DEF Balanced
<1>10. QED
  BY <1>2, <1>4, <1>9 DEF DebtOK, Balanced, Windows

LEMMA DebtManual ==
    ASSUME TypeOK, DebtOK, NEW d \in Diff, ManualReverse(d) PROVE DebtOK'
<1>1. /\ pc = "idle" /\ pc' = "idle" /\ d \notin Recorded
      /\ UNCHANGED <<records, tears>>
      /\ applied' = applied \ {d} /\ half' = half \ {d}
  BY DEF ManualReverse, TakeOut
<1>2. Filled' = Filled /\ Recorded' = Recorded
  BY <1>1 DEF Filled, Recorded
<1>3. Placed' = Placed /\ Loose' \subseteq Loose
  BY <1>1, <1>2 DEF Placed, Loose
<1>4. /\ Cardinality(Placed) \in Nat /\ tears \in Nat
      /\ Cardinality(Loose) \in Nat /\ Cardinality(Filled) \in Nat
      /\ Cardinality(Loose') \in Nat /\ Cardinality(Loose') <= Cardinality(Loose)
  BY <1>3, DebtFinite, Smaller DEF TypeOK
<1>5. Balanced
  BY <1>1 DEF DebtOK, Balanced, Windows
<1>6. Balanced'
  BY <1>1, <1>2, <1>3, <1>4, <1>5 DEF Balanced
<1>7. IsFiniteSet(applied') /\ IsFiniteSet(half') /\ IsFiniteSet(records')
  BY <1>1, FS_RemoveElement DEF DebtOK
<1>8. QED
  BY <1>1, <1>6, <1>7 DEF DebtOK, Balanced, Windows

LEMMA NextDebtOK ==
    TypeOK /\ MemoryOK /\ StoresOK /\ DebtOK /\ [Next]_vars => DebtOK'
<1> SUFFICES ASSUME TypeOK, MemoryOK, StoresOK, DebtOK, [Next]_vars PROVE DebtOK'
  OBVIOUS
<1>1. ASSUME NEW l \in Lists, StartApply(l) PROVE DebtOK'
  BY <1>1, QuietDebtOK DEF StartApply, Windows, tree
<1>2. CASE KeepEntry \/ ReplaceEntry \/ NewEntry \/ PlanDone \/ StartRemove
  BY <1>2, QuietDebtOK
     DEF KeepEntry, ReplaceEntry, NewEntry, PlanDone, StartRemove, Planning, Windows, tree
<1>3. CASE NumberPatches \/ SkipPatch
  BY <1>3, QuietDebtOK DEF NumberPatches, SkipPatch, Windows, tree
<1>4. CASE RefuseReverse \/ RemoveDone \/ RefuseApply \/ ApplyDone \/ Kill
  BY <1>4, QuietDebtOK
     DEF RefuseReverse, Reversing, RemoveDone, RefuseApply, ApplyDone, Kill, Exit,
         Windows, tree
<1>5. CASE ReversePatch
  BY <1>5, DebtReverse
<1>6. CASE UnlinkRecord
  BY <1>6, DebtUnlink
<1>7. CASE KillInside \/ UnlinkFails
  BY <1>7, TornDebtOK
     DEF KillInside, UnlinkFails, Tear, NextReversal, Exit, Windows, tree
<1>8. CASE ApplyPatch
  BY <1>8, DebtApply
<1>9. CASE CreateRecord
  BY <1>9, DebtCreate
<1>10. CASE FillRecord
  BY <1>10, DebtFill
<1>11. CASE BreakReverse
  BY <1>11, DebtBreakReverse
<1>12. CASE BreakApply
  BY <1>12, DebtBreakApply
<1>13. ASSUME NEW d \in Diff, ManualReverse(d) PROVE DebtOK'
  BY <1>13, DebtManual
<1>14. CASE Unpack
  <2>1. (applied = {} /\ half = {} /\ records = {} /\ pc = "idle" /\ tears = 0)'
    BY <1>14 DEF Unpack
  <2>2. (applied = {} /\ half = {} /\ records = {} /\ pc = "idle" /\ tears = 0)' => DebtOK'
    <3>1. (applied = {} /\ half = {} /\ records = {})' =>
            (Loose = {} /\ Filled = {} /\ Placed = {})'
      BY DEF Loose, Filled, Placed
    <3>2. QED
      BY <3>1, FS_EmptySet DEF DebtOK, Windows
  <2>3. QED
    BY <2>1, <2>2
<1>15. CASE UNCHANGED vars
  <2>1. /\ UNCHANGED <<applied, half, records, pc, todo, queue, list, tears>>
        /\ \A r \in todo : IsLastName(r, todo)' <=> IsLastName(r, todo)
        /\ \A i \in queue : IsNext(i)' <=> IsNext(i)
    BY <1>15 DEF vars, tree, memory, IsNext, IsLastName
  <2>2. Loose' = Loose /\ Filled' = Filled /\ Placed' = Placed /\ Recorded' = Recorded
    BY <2>1 DEF Loose, Filled, Placed, Recorded
  <2>3. QED
    BY <2>1, <2>2 DEF DebtOK
<1>16. QED
  BY <1>1, <1>2, <1>3, <1>4, <1>5, <1>6, <1>7, <1>8, <1>9, <1>10, <1>11, <1>12, <1>13,
     <1>14, <1>15
     DEF Next, RunStep, Accident, Developer, Plan, TakeOff, PutAll
-----------------------------------------------------------------------------
(* What holds at all times, and what a run that ends well has done *)

RunInv == CoreInv /\ StoresOK /\ ListOK /\ NamesOK /\ DebtOK

\* Before the first run nothing is applied or recorded, and nobody is to blame.
LEMMA InitRunInv == Init => RunInv
<1> SUFFICES ASSUME Init PROVE RunInv
  OBVIOUS
<1>1. CoreInv
  BY InitCoreInv
<1>2. StoresOK
  BY DEF Init, StoresOK
<1>3. ListOK /\ NamesOK
  BY DEF Init, ListOK, NamesOK, InList
<1>4. DebtOK
  <2>1. Loose = {} /\ Filled = {} /\ Placed = {}
    BY DEF Init, Loose, Filled, Placed
  <2>2. QED
    BY <2>1, FS_EmptySet DEF Init, DebtOK, Windows
<1>5. QED
  BY <1>1, <1>2, <1>3, <1>4 DEF RunInv

LEMMA NextRunInv == RunInv /\ [Next]_vars => RunInv'
<1> SUFFICES ASSUME RunInv, [Next]_vars PROVE RunInv'
  OBVIOUS
<1>1. CoreInv' /\ NamesOK'
  BY NextCoreInv, NextNamesOK DEF RunInv
<1>2. StoresOK' /\ ListOK' /\ DebtOK'
  BY NextStoresOK, NextListOK, NextDebtOK DEF RunInv, CoreInv
<1>3. QED
  BY <1>1, <1>2 DEF RunInv

(* Whatever is killed or torn, each entry of the list a run works on is    *)
(* queued, skipped or recorded, and every patch that the tree and the      *)
(* records disagree about has a torn run to answer for it.                 *)
THEOREM RunInvariant == Spec => []RunInv
BY InitRunInv, NextRunInv, PTL DEF Spec

\* Between two runs every record is kept, and the list has been gone through.
LEMMA AfterTheRun ==
    ASSUME MemoryOK, ListOK, outcome = "applied"
    PROVE  /\ pc = "idle" /\ InList /\ queue = {}
           /\ Kept = records /\ Considered = DOMAIN list
<1>1. pc = "idle"
  BY DEF MemoryOK
<1>2. existing = {} /\ todo = {} /\ queue = {}
  BY <1>1 DEF MemoryOK
<1>3. QED
  BY <1>1, <1>2 DEF InList, Kept, Considered

(* A run of apply_patches that reports success has recorded every patch of *)
(* its list that it did not skip: the next run will find them all.         *)
THEOREM ListIsRecorded == Spec => []AppliedIsRecorded
<1>1. ASSUME RunInv, outcome = "applied", NEW i \in DOMAIN list, list[i] \notin NoEffect
      PROVE  list[i] \in Recorded
  <2>1. queue = {} /\ InList /\ Kept = records /\ Considered = DOMAIN list
    BY <1>1, AfterTheRun DEF RunInv, CoreInv
  <2>2. list[i] \in DiffsIn(records)
    BY <1>1, <2>1 DEF RunInv, ListOK
  <2>3. list[i] # Empty
    BY DataAssumption, <1>1 DEF RunInv, CoreInv, TypeOK
  <2>4. QED
    BY <2>2, <2>3 DEF Recorded, DiffsIn
<1>2. RunInv => AppliedIsRecorded
  BY <1>1 DEF AppliedIsRecorded, ListedDiffs
<1>3. QED
  BY RunInvariant, <1>2, PTL

\* When the whole list was dealt with and no other record is left.
LEMMA AllIsApplied ==
    ASSUME RunInv, UniqueNames, tears = 0, pc \notin Windows, InList, queue = {},
           Kept = records, Considered = DOMAIN list
    PROVE  applied = ListedDiffs(list) \ NoEffect /\ Recorded = applied
<1>1. \A r \in records : r.diff # Empty
  BY DEF RunInv, CoreInv, LedgerOK, Windows
<1>2. Recorded = applied
  BY <1>1 DEF RunInv, CoreInv, TreeIsRecorded, Recorded, DiffsIn, Windows
<1>3. ASSUME NEW d \in applied PROVE d \in ListedDiffs(list) \ NoEffect
  <2>1. PICK r \in records : r.diff = d
    BY <1>2 DEF Recorded
  <2>2. d \notin NoEffect
    BY <1>1, <2>1 DEF RunInv, StoresOK
  <2>3. \E i \in DOMAIN list : list[i] = d
    BY <1>1, <2>1 DEF RunInv, NamesOK
  <2>4. QED
    BY <2>2, <2>3 DEF ListedDiffs
<1>4. ASSUME NEW d \in ListedDiffs(list) \ NoEffect PROVE d \in applied
  <2>1. PICK i \in DOMAIN list : list[i] = d
    BY DEF ListedDiffs
  <2>2. d \in DiffsIn(records)
    BY <2>1 DEF RunInv, ListOK
  <2>3. QED
    BY <1>1, <1>2, <2>2 DEF DiffsIn, Recorded
<1>5. QED
  BY <1>2, <1>3, <1>4

(* And if no run was torn, the tree and the records hold these patches and *)
(* no others.                                                              *)
THEOREM ListIsApplied == Spec => []AppliedIsComplete
<1>1. RunInv => AppliedIsComplete
  BY AfterTheRun, AllIsApplied DEF AppliedIsComplete, RunInv, CoreInv, Windows
<1>2. QED
  BY RunInvariant, <1>1, PTL

\* There are at least as many filled records as recorded patches.
LEMMA RecordedIsFewer ==
    ASSUME IsFiniteSet(Filled)
    PROVE  IsFiniteSet(Recorded) /\ Cardinality(Recorded) <= Cardinality(Filled)
<1> DEFINE content == [r \in Filled |-> r.diff]
<1>1. content \in Surjection(Filled, Recorded)
  BY DEF Surjection, Filled, Recorded
<1>2. QED
  BY <1>1, FS_Surjection

(* However many runs failed or were killed, between two runs the tree and  *)
(* the records disagree about no more patches than runs were torn.         *)
THEOREM DamageIsBounded == Spec => []DiscrepancyCounted
<1>1. ASSUME RunInv, pc = "idle" PROVE Cardinality(Discrepancy) <= tears
  <2> DEFINE Missing == Recorded \ (applied \cup half)
  <2>1. DebtOK /\ TypeOK
    BY <1>1 DEF RunInv, CoreInv
  <2>2. Cardinality(Loose) + Cardinality(Filled) <= Cardinality(Placed) + tears
    BY <1>1, <2>1 DEF DebtOK, Windows
  <2>3. /\ IsFiniteSet(Loose) /\ IsFiniteSet(Recorded)
        /\ Cardinality(Recorded) <= Cardinality(Filled)
        /\ Cardinality(Filled) \in Nat /\ Cardinality(Loose) \in Nat
        /\ Cardinality(Placed) \in Nat /\ tears \in Nat
    BY <2>1, DebtFinite, RecordedIsFewer DEF TypeOK
  <2>4. /\ IsFiniteSet(Missing)
        /\ Cardinality(Missing) = Cardinality(Recorded) - Cardinality(Placed)
        /\ Cardinality(Recorded) \in Nat
    <3>1. Recorded \cap (applied \cup half) = Placed
      BY DEF Placed
    <3>2. QED
      BY <2>3, <3>1, FS_Difference, FS_CardinalityType
  <2>5. Discrepancy \subseteq Loose \cup Missing
    BY DEF Discrepancy, Loose
  <2>6. /\ IsFiniteSet(Loose \cup Missing)
        /\ Cardinality(Loose \cup Missing)
             = Cardinality(Loose) + Cardinality(Missing) - Cardinality(Loose \cap Missing)
        /\ Cardinality(Loose \cap Missing) \in Nat
    BY <2>3, <2>4, FS_Union, FS_Intersection, FS_CardinalityType
  <2>7. /\ Cardinality(Discrepancy) <= Cardinality(Loose \cup Missing)
        /\ Cardinality(Discrepancy) \in Nat
    BY <2>5, <2>6, Smaller
  <2>8. QED
    BY <2>2, <2>3, <2>4, <2>6, <2>7
<1>2. RunInv => DiscrepancyCounted
  BY <1>1 DEF DiscrepancyCounted
<1>3. QED
  BY RunInvariant, <1>2, PTL

-----------------------------------------------------------------------------
(* Of two patches that share a file one lies over the other *)

LEMMA ShareSymmetric == \A d, e : Share(d, e) <=> Share(e, d)
BY DEF Share

LEMMA TakeOutOverOK == ASSUME OverOK, NEW c, TakeOut(c) PROVE OverOK'
BY DEF OverOK, TakeOut, Without

LEMMA PutOnOverOK ==
    ASSUME TypeOK, OverOK, NEW d \in Diff, d \notin applied, PutOn(d) PROVE OverOK'
<1>1. /\ applied' = applied \cup {d}
      /\ over' = over \cup {<<d, e>> : e \in {x \in applied : Share(d, x)}}
  BY DEF PutOn
<1>2. \A e \in applied : <<d, e>> \in over' <=> Share(d, e)
  BY <1>1 DEF TypeOK
<1>3. \A e : <<e, d>> \notin over'
  BY <1>1 DEF TypeOK
<1>4. \A x, e \in applied : <<x, e>> \in over' <=> <<x, e>> \in over
  BY <1>1
<1>5. ASSUME NEW x \in applied', NEW e \in applied'
      PROVE  /\ <<x, e>> \in over' => Share(x, e)
             /\ x # e /\ Share(x, e) => <<x, e>> \in over' \/ <<e, x>> \in over'
  <2>1. CASE x \in applied /\ e \in applied
    BY <1>4, <2>1 DEF OverOK
  <2>2. CASE x = d /\ e \in applied
    BY <1>2, <2>2
  <2>3. CASE x \in applied /\ e = d
    BY <1>2, <1>3, <2>3, ShareSymmetric
  <2>4. CASE x = d /\ e = d
    BY <1>3, <2>4
  <2>5. QED
    BY <1>1, <2>1, <2>2, <2>3, <2>4
<1>6. QED
  BY <1>5 DEF OverOK

LEMMA NextOverOK == TypeOK /\ OverOK /\ [Next]_vars => OverOK'
<1> SUFFICES ASSUME TypeOK, OverOK, [Next]_vars PROVE OverOK'
  OBVIOUS
<1> USE DEF tree
<1>1. CASE UNCHANGED <<applied, over>>
  BY <1>1 DEF OverOK
<1>2. CASE ReversePatch
  BY <1>2, TakeOutOverOK DEF ReversePatch
<1>3. CASE BreakReverse
  BY <1>3, TakeOutOverOK DEF BreakReverse
<1>4. ASSUME NEW d \in Diff, ManualReverse(d) PROVE OverOK'
  BY <1>4, TakeOutOverOK DEF ManualReverse
<1>5. CASE ApplyPatch
  <2>1. PICK i \in queue : list[i] \notin applied /\ PutOn(list[i])
    BY <1>5 DEF ApplyPatch
  <2>2. list[i] \in Diff
    BY DEF TypeOK
  <2>3. QED
    BY <2>1, <2>2, PutOnOverOK
<1>6. CASE Unpack
  BY <1>6 DEF Unpack, OverOK
<1>7. ASSUME NEW l \in Lists, StartApply(l) PROVE UNCHANGED <<applied, over>>
  BY <1>7 DEF StartApply
<1>8. CASE Plan \/ StartRemove
  BY <1>1, <1>8
     DEF Plan, KeepEntry, ReplaceEntry, NewEntry, PlanDone, StartRemove
<1>9. CASE RefuseReverse \/ UnlinkRecord \/ RemoveDone
  BY <1>1, <1>9 DEF RefuseReverse, UnlinkRecord, RemoveDone
<1>10. CASE \/ NumberPatches \/ SkipPatch \/ RefuseApply \/ CreateRecord \/ FillRecord
            \/ ApplyDone
  BY <1>1, <1>10
     DEF NumberPatches, SkipPatch, RefuseApply, CreateRecord, FillRecord, ApplyDone
<1>11. CASE Kill \/ KillInside \/ UnlinkFails \/ BreakApply
  BY <1>1, <1>11 DEF Kill, KillInside, UnlinkFails, BreakApply
<1>12. CASE UNCHANGED vars
  BY <1>1, <1>12 DEF vars
<1>13. QED
  BY <1>1, <1>2, <1>3, <1>4, <1>5, <1>6, <1>7, <1>8, <1>9, <1>10, <1>11, <1>12
     DEF Next, RunStep, Accident, Developer, TakeOff, PutAll

-----------------------------------------------------------------------------
(* Tidy lists *)

\* The versions of a patch change the same files, so one is skipped if the
\* others are.
LEMMA SameName ==
    ASSUME Tidy, NEW d \in Diff, NEW e \in Diff, NameOf[d] = NameOf[e]
    PROVE  FilesOf[d] = FilesOf[e] /\ (d \in NoEffect <=> e \in NoEffect)
BY EffectAssumption DEF Tidy

\* What a patch stands on shares a file with it.
LEMMA StandsOnShares ==
    ASSUME Tidy, NEW d \in Diff, NEW e \in Diff, StandsOn(NameOf[d], NameOf[e])
    PROVE  Share(d, e)
<1>1. PICK l \in Lists : \E i, j \in DOMAIN l :
        Share(l[i], l[j]) /\ NameOf[l[i]] = NameOf[e] /\ NameOf[l[j]] = NameOf[d]
  BY DEF StandsOn
<1>2. PICK i \in DOMAIN l, j \in DOMAIN l :
        Share(l[i], l[j]) /\ NameOf[l[i]] = NameOf[e] /\ NameOf[l[j]] = NameOf[d]
  BY <1>1
<1>3. l[i] \in Diff /\ l[j] \in Diff
  BY DataAssumption
<1>4. FilesOf[l[i]] = FilesOf[e] /\ FilesOf[l[j]] = FilesOf[d]
  BY <1>2, <1>3, SameName
<1>5. QED
  BY <1>2, <1>4 DEF Share

\* A list has what an entry stands on ahead of the entry.
LEMMA StandsOnEarlier ==
    ASSUME Tidy, NEW m \in Lists, NEW k \in DOMAIN m, NEW n,
           StandsOn(NameOf[m[k]], n)
    PROVE  \E h \in DOMAIN m : h < k /\ NameOf[m[h]] = n
BY DEF Tidy, StandsOn

\* Of two entries that share a file the later one stands on the earlier one.
LEMMA LaterStandsOn ==
    ASSUME NEW m \in Lists, NEW i \in DOMAIN m, NEW j \in DOMAIN m, i < j,
           Share(m[i], m[j])
    PROVE  StandsOn(NameOf[m[j]], NameOf[m[i]])
BY DEF StandsOn

\* A list with entries is one of those that can be asked for.
LEMMA ListedIsAsked ==
    ASSUME ListOK, NEW i \in DOMAIN list PROVE list \in Lists
<1>1. CASE list = <<>>
  BY <1>1
<1>2. QED
  BY <1>1 DEF ListOK

\* Below Limit the names sort by the numbers.
LEMMA LastHasTheHighestNumber ==
    ASSUME TypeOK, NumbersOK, MaxNum < Limit, NEW S \in SUBSET records,
           NEW r \in S, IsLastName(r, S), NEW s \in S
    PROVE  s = r \/ s.num < r.num
<1>1. s = r \/ NameLess(s.num, r.num)
  BY DEF IsLastName
<1>2. /\ r.num \in Nat /\ s.num \in Nat
      /\ r.num <= MaxNum /\ s.num <= MaxNum
  BY DEF TypeOK, NumbersOK, RecordFile
<1>3. r.num < Limit /\ s.num < Limit
  BY <1>2, NumberAssumption
<1>4. QED
  BY <1>1, <1>3 DEF NameLess

\* Records of different patches, each with its content and its name.
LEMMA FilledRecord ==
    ASSUME TypeOK, StoresOK, NEW r \in Filled
    PROVE  r \in records /\ r.diff \in Diff \ NoEffect /\ r.name = NameOf[r.diff]
BY DEF TypeOK, StoresOK, Filled, RecordFile

-----------------------------------------------------------------------------
(* The order of the records *)

\* A step that leaves the filled records alone leaves their order alone.
LEMMA QuietOrder ==
    ASSUME Filled' = Filled PROVE (Founded => Founded') /\ (Grounded => Grounded')
BY DEF Founded, Grounded

\* A patch comes off with all that stands on it, so that its record goes last.
LEMMA OrderUnlink ==
    ASSUME CoreInv, StoresOK, Orderly, Founded, Grounded, WholePlan, UnlinkRecord
    PROVE  Founded' /\ Grounded' /\ WholePlan'
<1>1. PICK r \in todo : /\ Unlinking(r)
                        /\ records' = records \ {r}
                        /\ todo' = todo \ {r}
  BY DEF UnlinkRecord
<1>2. /\ pc \in {"unlink", "erase"} /\ IsLastName(r, todo)
      /\ pc' = IF pc = "unlink" THEN "unapply" ELSE "remove"
      /\ existing' = existing /\ todo \subseteq records
  BY <1>1 DEF UnlinkRecord, NextReversal, Unlinking, CoreInv, MemoryOK
<1>3. Filled' = Filled \ {r}
  BY <1>1 DEF Filled
<1>4. ASSUME NEW s \in records, StandsOn(s.name, r.name)
      PROVE  s \in todo
  <2>1. CASE pc = "unlink"
    BY <1>4, <2>1 DEF WholePlan, CoreInv, PlanOK
  <2>2. CASE pc = "erase"
    BY <1>4, <2>2 DEF CoreInv, LedgerOK, Orderly
  <2>3. QED
    BY <1>2, <2>1, <2>2
<1>5. ASSUME NEW s \in Filled', StandsOn(s.name, r.name) PROVE ~(r.num < s.num)
  <2>1. s \in todo /\ s # r
    BY <1>3, <1>4, <1>5 DEF Filled
  <2>2. s.num < r.num
    BY <1>2, <2>1, LastHasTheHighestNumber DEF CoreInv, Orderly
  <2>3. s.num \in Nat /\ r.num \in Nat
    BY <1>2, <2>1 DEF CoreInv, TypeOK, RecordFile
  <2>4. QED
    BY <2>2, <2>3
<1>6. Founded'
  BY <1>3, <1>5 DEF Founded
<1>7. Grounded'
  BY <1>3 DEF Grounded
<1>8. WholePlan'
  BY <1>1, <1>2 DEF WholePlan
<1>9. QED
  BY <1>6, <1>7, <1>8

\* The entry that is recorded comes after all it stands on, and nothing that
\* stands on it was there before.
LEMMA OrderFill ==
    ASSUME CoreInv, StoresOK, ListOK, NamesOK, Orderly, Founded, Grounded, FillRecord
    PROVE  Founded' /\ Grounded'
<1> USE DEF CoreInv, Orderly
<1>1. PICK i \in queue :
        /\ IsNext(i)
        /\ records' = (records \ {RecordFor(i, Empty)}) \cup {RecordFor(i, list[i])}
  BY DEF FillRecord
<1> DEFINE S == RecordFor(i, list[i])
<1>2. pc = "fill" /\ UniqueNames /\ i \in DOMAIN list
  BY DEF FillRecord, Tidy, TypeOK
<1>3. S.name = NameOf[list[i]] /\ S.diff = list[i] /\ S.num = num
  BY DEF RecordFor
<1>4. list \in Lists /\ list[i] \in Diff \ NoEffect /\ list[i] # Empty
  BY <1>1, <1>2, ListedIsAsked, DataAssumption DEF StoresOK, TypeOK
<1>5. ASSUME NEW r \in Filled PROVE r.num < num /\ r \in Filled'
  <2>1. r \in records /\ r # RecordFor(i, Empty)
    BY DEF Filled, RecordFor
  <2>2. QED
    BY <1>1, <1>2, <2>1, NextIsUnique DEF NumbersOK, Filled
<1>6. Filled' = Filled \cup {S}
  <2>1. Filled' \subseteq Filled \cup {S}
    BY <1>1 DEF Filled
  <2>2. S \in Filled'
    BY <1>1, <1>3, <1>4 DEF Filled
  <2>3. QED
    BY <1>5, <2>1, <2>2
<1>7. ASSUME NEW r \in Filled
      PROVE  /\ r.name # NameOf[list[i]]
             /\ \E j \in DOMAIN list : j # i /\ list[j] = r.diff
  BY <1>2, NextIsNotNamed DEF Filled
<1>8. ASSUME NEW d \in Diff \ NoEffect, StandsOn(NameOf[list[i]], NameOf[d])
      PROVE  \E r \in Filled : r.name = NameOf[d]
  <2>1. PICK h \in DOMAIN list : h < i /\ NameOf[list[h]] = NameOf[d]
    BY <1>2, <1>4, <1>8, StandsOnEarlier
  <2>2. h \notin queue
    BY <1>1, <2>1 DEF IsNext, TypeOK
  <2>3. list[h] \in Diff \ NoEffect
    BY <2>1, SameName DEF TypeOK
  <2>4. list[h] \in DiffsIn(Kept)
    BY <1>2, <2>2, <2>3 DEF ListOK, InList, Considered
  <2>5. PICK r \in records : r.diff = list[h]
    BY <2>4 DEF DiffsIn, Kept
  <2>6. r \in Filled /\ r.name = NameOf[list[h]]
    BY <2>3, <2>5, DataAssumption DEF Filled, StoresOK
  <2>7. QED
    BY <2>1, <2>6
<1>9. Founded'
  <2>1. ASSUME NEW s \in Filled', NEW d \in Diff \ NoEffect, StandsOn(s.name, NameOf[d])
        PROVE  \E r \in Filled' : r.name = NameOf[d] /\ r.num < s.num
    <3>1. CASE s = S
      BY <1>3, <1>5, <1>8, <2>1, <3>1
    <3>2. CASE s \in Filled
      BY <1>6, <2>1, <3>2 DEF Founded
    <3>3. QED
      BY <1>6, <3>1, <3>2
  <2>2. QED
    BY <2>1 DEF Founded
<1>10. ASSUME NEW r \in Filled, Share(r.diff, list[i])
       PROVE  StandsOn(NameOf[list[i]], r.name)
  <2>1. PICK j \in DOMAIN list : j # i /\ list[j] = r.diff
    BY <1>7
  <2>2. r.name = NameOf[list[j]]
    BY <2>1, FilledRecord
  <2>3. CASE j < i
    BY <1>2, <1>4, <1>10, <2>1, <2>2, <2>3, LaterStandsOn
  <2>4. CASE i < j
    <3>1. StandsOn(r.name, NameOf[list[i]])
      BY <1>2, <1>4, <1>10, <2>1, <2>2, <2>4, LaterStandsOn, ShareSymmetric
    <3>2. \E q \in Filled : q.name = NameOf[list[i]]
      BY <1>4, <3>1 DEF Founded
    <3>3. QED
      BY <1>7, <3>2
  <2>5. i \in Nat /\ j \in Nat
    BY <1>2 DEF TypeOK
  <2>6. QED
    BY <2>1, <2>3, <2>4, <2>5
<1>11. Grounded'
  <2>1. ASSUME NEW r \in Filled', NEW s \in Filled',
               r.num < s.num, Share(r.diff, s.diff)
        PROVE  StandsOn(s.name, r.name)
    <3>1. CASE r \in Filled /\ s \in Filled
      BY <2>1, <3>1 DEF Grounded
    <3>2. CASE r = S
      <4>1. s.num <= num /\ s.num \in Nat /\ num \in Nat
        BY <1>3, <1>5, <1>6 DEF TypeOK, Filled, RecordFile
      <4>2. QED
        BY <1>3, <2>1, <3>2, <4>1
    <3>3. CASE r \in Filled /\ s = S
      BY <1>3, <1>10, <2>1, <3>3
    <3>4. QED
      BY <1>6, <3>1, <3>2, <3>3
  <2>2. QED
    BY <2>1 DEF Grounded
<1>12. QED
  BY <1>9, <1>11

LEMMA WholePlanStart ==
    ASSUME CoreInv, NamesOK, Orderly, NEW l \in Lists, StartApply(l) PROVE WholePlan'
<1>1. \A r, s \in records : r.name = s.name => r = s
  BY DEF NamesOK, Orderly, Tidy
<1>2. records \subseteq Survivors
  BY <1>1 DEF Survivors, IsLastName
<1>3. records' \subseteq todo' \cup existing'
  BY <1>2 DEF StartApply
<1>4. \A r \in todo' : Touched(r.diff) \subseteq patched'
  BY DEF StartApply
<1>5. QED
  BY <1>3, <1>4 DEF WholePlan

\* A patch is kept only if it shares no file with one that comes off.
LEMMA WholePlanKeep ==
    ASSUME CoreInv, StoresOK, Orderly, WholePlan, KeepEntry PROVE WholePlan'
<1> USE DEF CoreInv, Orderly
<1>1. PICK r \in existing : /\ UpToDate(r, list[cursor])
                            /\ existing' = existing \ {r}
  BY DEF KeepEntry
<1>2. /\ UNCHANGED <<records, todo, patched, pc>> /\ pc = "plan"
      /\ r \in records /\ todo \subseteq records
  BY DEF KeepEntry, Planning, PlanOK, MemoryOK
<1>3. ASSUME NEW q \in todo, StandsOn(r.name, q.name) PROVE FALSE
  <2>1. r \in Filled /\ q \in Filled
    BY <1>2 DEF Filled, LedgerOK
  <2>2. /\ r.diff \in Diff /\ q.diff \in Diff
        /\ r.name = NameOf[r.diff] /\ q.name = NameOf[q.diff]
    BY <2>1, FilledRecord
  <2>3. Share(r.diff, q.diff)
    BY <1>3, <2>2, StandsOnShares
  <2>4. FilesOf[q.diff] \subseteq patched
    BY <1>2, <2>2 DEF WholePlan, Touched
  <2>5. QED
    BY <1>1, <2>3, <2>4 DEF UpToDate, Share
<1>4. QED
  BY <1>1, <1>2, <1>3 DEF WholePlan

\* A patch that is replaced has nothing standing on it that was kept, for the
\* list has it ahead of all that.
LEMMA WholePlanReplace ==
    ASSUME CoreInv, StoresOK, ListOK, NamesOK, Orderly, WholePlan, ReplaceEntry
    PROVE  WholePlan'
<1> USE DEF CoreInv, Orderly
<1>1. PICK r \in existing : /\ RecordOf(r, list[cursor])
                            /\ todo' = todo \cup {r}
                            /\ patched' = patched \cup Touched(r.diff)
                            /\ existing' = existing \ {r}
  BY DEF ReplaceEntry
<1>2. UNCHANGED <<records, pc>> /\ pc = "plan" /\ cursor \in DOMAIN list /\ UniqueNames
  BY DEF ReplaceEntry, Planning, Tidy, TypeOK
<1>3. ASSUME NEW s \in records, StandsOn(s.name, r.name) PROVE s \in todo \cup existing
  <2> SUFFICES ASSUME s \in Kept PROVE FALSE
    BY DEF Kept
  <2>1. s.diff # Empty
    BY <1>2 DEF LedgerOK
  <2>2. PICK j \in Considered : list[j] = s.diff
    BY <1>2, <2>1 DEF NamesOK, InList
  <2>3. j \in DOMAIN list /\ j < cursor /\ s.name = NameOf[list[j]]
    BY <1>2, <2>1, <2>2 DEF Considered, StoresOK
  <2>4. r.name = NameOf[list[cursor]]
    BY <1>1 DEF RecordOf
  <2>5. PICK k \in DOMAIN list : k < j /\ NameOf[list[k]] = NameOf[list[cursor]]
    BY <1>2, <1>3, <2>3, <2>4, ListedIsAsked, StandsOnEarlier
  <2>6. k = cursor
    BY <1>2, <2>5, ListNamesUnique
  <2>7. QED
    BY <1>2, <2>3, <2>5, <2>6 DEF TypeOK
<1>4. QED
  BY <1>1, <1>2, <1>3 DEF WholePlan

\* A plan that is not changed stays whole.
LEMMA QuietWholePlan ==
    ASSUME WholePlan, UNCHANGED <<records, todo, existing, patched>>,
           pc' \in {"plan", "unapply", "unlink"} => pc \in {"plan", "unapply", "unlink"},
           pc' = "plan" => pc = "plan"
    PROVE  WholePlan'
BY DEF WholePlan

LEMMA NoPlan ==
    ASSUME pc' \notin {"plan", "unapply", "unlink"} PROVE WholePlan'
BY DEF WholePlan

LEMMA NextOrderOK == RunInv /\ OrderOK /\ [Next]_vars => OrderOK'
<1> SUFFICES ASSUME RunInv, OrderOK, [Next]_vars, Orderly' PROVE (Founded /\ Grounded /\ WholePlan)'
  BY DEF OrderOK
<1> USE DEF RunInv
<1>1. CASE Unpack
  <2>1. Filled' = {}
    BY <1>1 DEF Unpack, Filled
  <2>2. WholePlan'
    BY <1>1, NoPlan DEF Unpack
  <2>3. QED
    BY <2>1, <2>2 DEF Founded, Grounded
<1>2. CASE KillInside \/ UnlinkFails \/ BreakReverse \/ BreakApply
  BY <1>2
     DEF KillInside, UnlinkFails, BreakReverse, BreakApply, Tear, CoreInv, TypeOK, Orderly
<1> SUFFICES ASSUME Orderly, Founded, Grounded, WholePlan
             PROVE  (Founded /\ Grounded /\ WholePlan)'
  <2>1. CASE tears' = tears
    BY <2>1 DEF OrderOK, Orderly
  <2>2. CASE ~UNCHANGED tears
    BY <1>1, <1>2, <2>2
       DEF Next, RunStep, Accident, Developer, Plan, TakeOff, PutAll, vars,
           KeepEntry, ReplaceEntry, NewEntry, PlanDone, ReversePatch, RefuseReverse,
           UnlinkRecord, RemoveDone, NumberPatches, SkipPatch, ApplyPatch, RefuseApply,
           CreateRecord, FillRecord, ApplyDone, Kill, StartApply, StartRemove,
           ManualReverse
  <2>3. QED
    BY <2>1, <2>2
<1>3. ASSUME records' = records PROVE Founded' /\ Grounded'
  BY <1>3, QuietOrder DEF Filled
<1>4. ASSUME NEW l \in Lists, StartApply(l) PROVE (Founded /\ Grounded /\ WholePlan)'
  BY <1>3, <1>4, WholePlanStart DEF StartApply
<1>5. CASE KeepEntry
  BY <1>3, <1>5, WholePlanKeep DEF KeepEntry
<1>6. CASE ReplaceEntry
  BY <1>3, <1>6, WholePlanReplace DEF ReplaceEntry
<1>7. CASE NewEntry \/ PlanDone
  BY <1>3, <1>7, QuietWholePlan DEF NewEntry, PlanDone, Planning, memory
<1>8. CASE ReversePatch
  BY <1>3, <1>8, QuietWholePlan, NoPlan DEF ReversePatch, memory
<1>9. CASE UnlinkRecord
  BY <1>9, OrderUnlink
<1>10. CASE SkipPatch \/ NumberPatches \/ ApplyPatch \/ StartRemove
  BY <1>3, <1>10, NoPlan DEF SkipPatch, NumberPatches, ApplyPatch, StartRemove
<1>11. CASE CreateRecord
  <2>1. Filled' = Filled
    BY <1>11 DEF CreateRecord, Filled, RecordFor
  <2>2. QED
    BY <1>11, <2>1, QuietOrder, NoPlan DEF CreateRecord
<1>12. CASE FillRecord
  BY <1>12, OrderFill, NoPlan DEF FillRecord
<1>13. CASE RefuseReverse \/ RemoveDone \/ RefuseApply \/ ApplyDone \/ Kill
  BY <1>3, <1>13, NoPlan DEF RefuseReverse, RemoveDone, RefuseApply, ApplyDone, Kill, Exit
<1>14. ASSUME NEW d \in Diff, ManualReverse(d) PROVE (Founded /\ Grounded /\ WholePlan)'
  BY <1>3, <1>14, NoPlan DEF ManualReverse
<1>15. CASE UNCHANGED vars
  BY <1>3, <1>15, QuietWholePlan DEF vars, memory
<1>16. QED
  BY <1>1, <1>2, <1>4, <1>5, <1>6, <1>7, <1>8, <1>9, <1>10, <1>11, <1>12, <1>13, <1>14,
     <1>15
     DEF Next, RunStep, Accident, Developer, Plan, TakeOff, PutAll

-----------------------------------------------------------------------------
(* What a run that ends well is worth *)

\* Nothing can be reported as applied but by the end of a run.
LEMMA ReportedByApplyDone ==
    ASSUME MemoryOK, [Next]_vars, outcome' = "applied" PROVE ApplyDone \/ UNCHANGED vars
<1> SUFFICES ASSUME ~ApplyDone, ~UNCHANGED vars PROVE FALSE
  OBVIOUS
<1>1. CASE pc = "idle"
  BY <1>1
     DEF Next, RunStep, Accident, Developer, Plan, TakeOff, PutAll, Planning,
         KeepEntry, ReplaceEntry, NewEntry, PlanDone, ReversePatch, Reversing,
         RefuseReverse, UnlinkRecord, Unlinking, RemoveDone, NumberPatches, SkipPatch,
         ApplyPatch, RefuseApply, CreateRecord, FillRecord, Kill, KillInside,
         UnlinkFails, BreakReverse, BreakApply, StartApply, StartRemove, ManualReverse,
         Unpack
<1>2. CASE pc # "idle"
  <2>1. outcome # "applied"
    BY <1>2 DEF MemoryOK
  <2>2. QED
    BY <1>2, <2>1
       DEF Next, RunStep, Accident, Developer, Plan, TakeOff, PutAll,
           KeepEntry, ReplaceEntry, NewEntry, PlanDone, ReversePatch, RefuseReverse,
           UnlinkRecord, RemoveDone, NumberPatches, SkipPatch, ApplyPatch, RefuseApply,
           CreateRecord, FillRecord, Kill, KillInside, UnlinkFails, BreakReverse,
           BreakApply, StartApply, StartRemove, ManualReverse, Unpack, Exit
<1>3. QED
  BY <1>1, <1>2

\* What lies over what is what the list says, once all of it is in the tree.
LEMMA AllInOrder ==
    ASSUME RunInv, OverOK, OrderOK, Orderly, pc \notin Windows,
           applied = ListedDiffs(list) \ NoEffect
    PROVE  over = ListOrder(list)
<1> USE DEF RunInv, CoreInv, Orderly
<1>1. /\ \A r \in records : r.diff # Empty
      /\ applied = DiffsIn(records)
      /\ \A r, s \in records : r.name = s.name => r = s
      /\ UniqueNames
  BY DEF LedgerOK, TreeIsRecorded, NamesOK, Tidy, Windows
<1>2. applied \subseteq Diff /\ applied \cap NoEffect = {}
  BY DEF TypeOK
<1>3. \A d \in applied : \E r \in Filled : r.diff = d /\ r.name = NameOf[d]
  BY <1>1, FilledRecord DEF DiffsIn, Filled
<1>4. \A d \in applied : \E i \in DOMAIN list : list[i] = d
  BY DEF ListedDiffs
<1>5. ASSUME NEW d \in applied, NEW e \in applied, <<d, e>> \in over,
             NEW i \in DOMAIN list, NEW j \in DOMAIN list, list[i] = e, list[j] = d
      PROVE  i < j
  <2>1. PICK r \in Filled : r.diff = d /\ r.name = NameOf[d]
    BY <1>3
  <2>2. PICK s \in Filled : s.diff = e /\ s.name = NameOf[e]
    BY <1>3
  <2>3. s.num < r.num /\ s.num \in Nat /\ r.num \in Nat
    BY <1>5, <2>1, <2>2 DEF OverFollowsNumbers, Filled, TypeOK, RecordFile
  <2>4. d # e
    BY <1>1, <2>1, <2>2, <2>3 DEF Filled
  <2>5. ASSUME j < i PROVE FALSE
    <3>1. Share(list[j], list[i])
      BY <1>5 DEF OverOK
    <3>2. StandsOn(NameOf[e], NameOf[d])
      BY <1>5, <2>5, <3>1, ListedIsAsked, LaterStandsOn
    <3>3. PICK q \in Filled : q.name = NameOf[d] /\ q.num < s.num
      BY <1>2, <2>2, <3>2 DEF OrderOK, Founded
    <3>4. q = r
      BY <1>1, <2>1, <3>3 DEF Filled
    <3>5. QED
      BY <2>3, <3>3, <3>4
  <2>6. i \in Nat /\ j \in Nat /\ i # j
    BY <1>5, <2>4 DEF TypeOK
  <2>7. QED
    BY <2>5, <2>6
<1>6. ASSUME NEW p \in over PROVE p \in ListOrder(list)
  <2>1. PICK d \in applied, e \in applied : p = <<d, e>>
    BY DEF TypeOK
  <2>2. PICK i \in DOMAIN list : list[i] = e
    BY <1>4
  <2>3. PICK j \in DOMAIN list : list[j] = d
    BY <1>4
  <2>4. i < j /\ Share(d, e)
    BY <1>5, <2>1, <2>2, <2>3 DEF OverOK
  <2>5. QED
    BY <1>2, <2>1, <2>2, <2>3, <2>4 DEF ListOrder
<1>7. ASSUME NEW p \in ListOrder(list) PROVE p \in over
  <2>1. PICK i \in DOMAIN list, j \in DOMAIN list : i < j /\ p = <<list[j], list[i]>>
    BY DEF ListOrder
  <2>2. /\ Share(list[j], list[i])
        /\ list[i] \in applied /\ list[j] \in applied
    BY <2>1 DEF ListOrder, ListedDiffs
  <2>3. i \in Nat /\ j \in Nat /\ list[i] # list[j]
    BY <1>1, <2>1, ListNamesUnique DEF TypeOK
  <2>4. <<list[i], list[j]>> \notin over
    BY <1>5, <2>1, <2>2, <2>3
  <2>5. QED
    BY <2>1, <2>2, <2>3, <2>4 DEF OverOK
<1>8. QED
  BY <1>6, <1>7

\* When the queue is empty the whole list was dealt with.
LEMMA AppliedAtTheEnd ==
    ASSUME RunInv, UniqueNames, tears = 0, ApplyDone
    PROVE  applied = ListedDiffs(list) \ NoEffect /\ outcome' = "applied"
<1>1. pc = "apply" /\ queue = {} /\ existing = {} /\ todo = {}
  BY DEF ApplyDone, RunInv, CoreInv, MemoryOK, PlanOK
<1>2. Kept = records /\ Considered = DOMAIN list /\ InList /\ pc \notin Windows
  BY <1>1 DEF Kept, Considered, InList, Windows
<1>3. QED
  BY <1>1, <1>2, AllIsApplied DEF ApplyDone, Exit

LEMMA NextFromScratch ==
    RunInv /\ OverOK /\ OrderOK /\ FromScratch /\ [Next]_vars => FromScratch'
<1> SUFFICES ASSUME RunInv, OverOK, OrderOK, FromScratch, [Next]_vars,
                    Orderly', outcome' = "applied"
             PROVE  (over = ListOrder(list))'
  BY DEF FromScratch
<1>1. CASE ApplyDone
  <2>1. pc \notin Windows /\ UNCHANGED <<applied, over, list, tears>>
    BY <1>1 DEF ApplyDone, Windows, tree
  <2>2. Orderly
    BY <2>1 DEF Orderly
  <2>3. applied = ListedDiffs(list) \ NoEffect
    BY <1>1, <2>1, <2>2, AppliedAtTheEnd DEF Orderly, Tidy
  <2>4. over = ListOrder(list)
    BY <2>1, <2>2, <2>3, AllInOrder
  <2>5. QED
    BY <2>1, <2>4 DEF ListOrder
<1>2. CASE UNCHANGED vars
  BY <1>2 DEF vars, tree, memory, FromScratch, Orderly, ListOrder
<1>3. QED
  BY <1>1, <1>2, ReportedByApplyDone DEF RunInv, CoreInv

(* IInv holds in every reachable state of apply.pl's runs: with tidy lists *)
(* the stores are at all times a good beginning for any of the lists.      *)
THEOREM InductiveInvariant == Spec => []IInv
<1>1. IInv <=> RunInv /\ OverOK /\ OrderOK /\ FromScratch
  BY DEF IInv, RunInv, CoreInv
<1>2. Init => IInv
  <2> SUFFICES ASSUME Init PROVE IInv
    OBVIOUS
  <2>1. RunInv
    BY InitRunInv
  <2>2. OverOK /\ FromScratch
    BY DEF Init, OverOK, FromScratch
  <2>3. OrderOK
    BY DEF Init, OrderOK, Founded, Grounded, WholePlan, Filled
  <2>4. QED
    BY <1>1, <2>1, <2>2, <2>3
<1>3. IInv /\ [Next]_vars => IInv'
  <2> SUFFICES ASSUME IInv, [Next]_vars PROVE IInv'
    OBVIOUS
  <2>1. RunInv' /\ OverOK' /\ OrderOK' /\ FromScratch'
    BY <1>1, NextRunInv, NextOverOK, NextOrderOK, NextFromScratch DEF RunInv, CoreInv
  <2>2. QED
    BY <2>1 DEF IInv, RunInv, CoreInv
<1>4. QED
  BY <1>2, <1>3, PTL DEF Spec

(* With tidy lists, the tree a run reports as applied is the one a fresh   *)
(* unpack would give: the patches lie over each other as listed.           *)
THEOREM AsFromScratch == Spec => []FromScratch
<1>1. IInv => FromScratch
  BY DEF IInv
<1>2. QED
  BY InductiveInvariant, <1>1, PTL

\* Of the records that come off in a run of apply_patches, the last one is
\* that of a patch that is in the tree and under no other.
LEMMA LastIsOnTop ==
    ASSUME IInv, Orderly, pc = "unapply", NEW r \in todo, IsLastName(r, todo)
    PROVE  ~MayRefuseReverse(r.diff)
<1> USE DEF IInv, Orderly
<1>1. /\ half = {} /\ applied = DiffsIn(records) /\ existing = {}
      /\ todo \subseteq records /\ \A s \in records : s.diff # Empty
  BY DEF TreeIsRecorded, MemoryOK, PlanOK, LedgerOK, Windows
<1>2. r.diff \in applied
  BY <1>1 DEF DiffsIn
<1>3. ASSUME NEW e \in applied, <<e, r.diff>> \in over PROVE FALSE
  <2>1. PICK s \in records : s.diff = e
    BY <1>1 DEF DiffsIn
  <2>2. r.num < s.num /\ r.num \in Nat /\ s.num \in Nat
    BY <1>1, <1>3, <2>1 DEF OverFollowsNumbers, TypeOK, RecordFile
  <2>3. Share(r.diff, s.diff)
    BY <1>2, <1>3, <2>1, ShareSymmetric DEF OverOK
  <2>4. StandsOn(s.name, r.name)
    BY <1>1, <2>1, <2>2, <2>3 DEF OrderOK, Grounded, Filled
  <2>5. s \in todo
    BY <1>1, <2>4 DEF OrderOK, WholePlan
  <2>6. s = r \/ s.num < r.num
    BY <1>1, <2>5, LastHasTheHighestNumber
  <2>7. QED
    BY <2>2, <2>6
<1>4. QED
  BY <1>1, <1>2, <1>3 DEF MayRefuseReverse, Buried

(* With tidy lists is_dependent_patch does what it is for: no patch that   *)
(* the first loop of apply_patches comes to is buried or missing.          *)
THEOREM UnapplyAlwaysSafe == Spec => []UnapplyIsSafe
<1>1. IInv => UnapplyIsSafe
  BY LastIsOnTop DEF UnapplyIsSafe
<1>2. QED
  BY InductiveInvariant, <1>1, PTL

-----------------------------------------------------------------------------
(* The promise of PatchStack, when no run is torn *)

NotTorn == tears = 0

LEMMA NeverTorn == ASSUME MaxTears = 0 PROVE Spec => []NotTorn
<1>1. Init => NotTorn
  BY DEF Init, NotTorn
<1>2. NotTorn /\ [Next]_vars => NotTorn'
  <2> SUFFICES ASSUME NotTorn, [Next]_vars PROVE NotTorn'
    OBVIOUS
  <2>1. ~Tear
    BY DEF Tear, NotTorn
  <2>2. QED
    BY <2>1
       DEF NotTorn, Next, RunStep, Accident, Developer, Plan, TakeOff, PutAll, vars,
           KeepEntry, ReplaceEntry, NewEntry, PlanDone, ReversePatch, RefuseReverse,
           UnlinkRecord, RemoveDone, NumberPatches, SkipPatch, ApplyPatch, RefuseApply,
           CreateRecord, FillRecord, ApplyDone, Kill, KillInside, UnlinkFails,
           BreakReverse, BreakApply, StartApply, StartRemove, ManualReverse, Unpack
<1>3. QED
  BY <1>1, <1>2, PTL DEF Spec

(* If no run is torn, a patch that a run reports as "already applied,      *)
(* skipped" is in the tree.                                                *)
THEOREM SkippedWasApplied == ASSUME MaxTears = 0 PROVE Spec => SkippedIsInTree
<1>1. CoreInv /\ NotTorn /\ [Next]_vars => [KeepEntry => list[cursor] \in applied]_vars
  <2> SUFFICES ASSUME CoreInv, NotTorn, KeepEntry PROVE list[cursor] \in applied
    OBVIOUS
  <2>1. PICK r \in existing : r.diff = list[cursor]
    BY DEF KeepEntry, UpToDate
  <2>2. pc = "plan" /\ r \in records
    BY DEF KeepEntry, Planning, CoreInv, PlanOK
  <2>3. applied = DiffsIn(records)
    BY <2>2 DEF CoreInv, TreeIsRecorded, NotTorn, Windows
  <2>4. QED
    BY <2>1, <2>2, <2>3 DEF DiffsIn
<1>2. QED
  BY CoreInvariant, NeverTorn, <1>1, PTL DEF Spec, SkippedIsInTree

\* What the engine does to the tree, in the words of PatchStack.
LEMMA TakenFromTheTop ==
    ASSUME IInv, NotTorn, Tidy, MaxNum < Limit, ReversePatch
    PROVE  \E d \in Diff : Stack!Take(d)
<1> USE DEF IInv, NotTorn
<1>1. PICK r \in todo : Reversing(r) /\ TakeOut(r.diff)
  BY DEF ReversePatch
<1>2. /\ pc \in {"unapply", "remove"} /\ IsLastName(r, todo)
      /\ UNCHANGED <<list, outcome>> /\ outcome = "running" /\ r \in records
  BY <1>1 DEF ReversePatch, Reversing, MemoryOK, memory
<1>3. ~MayRefuseReverse(r.diff)
  BY <1>2, LastIsOnTop, LastComesOff DEF Orderly, CoreInv
<1>4. r.diff \in applied
  BY <1>2 DEF TreeIsRecorded, DiffsIn, Windows
<1>5. r.diff \in Diff \ NoEffect
  BY <1>4 DEF TypeOK, StoresOK
<1>6. \A e \in applied : <<e, r.diff>> \notin over
  BY <1>3, <1>5 DEF MayRefuseReverse, Effective, Buried
<1>7. over' = {p \in over : p[1] # r.diff}
  <2>1. \A p \in over : p[2] # r.diff
    BY <1>6 DEF TypeOK
  <2>2. QED
    BY <1>1, <2>1 DEF TakeOut, Without
<1>8. Stack!Take(r.diff)
  BY <1>1, <1>2, <1>4, <1>6, <1>7 DEF TakeOut, Stack!Take
<1>9. QED
  BY <1>5, <1>8

LEMMA PutOnTop ==
    ASSUME TypeOK, MemoryOK, ApplyPatch PROVE \E d \in Diff : Stack!Put(d)
<1>1. PICK i \in queue : list[i] \notin NoEffect \cup applied /\ PutOn(list[i])
  BY DEF ApplyPatch
<1>2. UNCHANGED <<list, outcome>> /\ outcome # "applied"
  BY DEF ApplyPatch, MemoryOK, memory
<1>3. list[i] \in Diff
  BY DEF TypeOK
<1>4. \A x \in applied :
        Share(list[i], x) <=> <<list[i], x>> \in {p \in Diff \X Diff : Share(p[1], p[2])}
  BY <1>3 DEF TypeOK
<1>5. Stack!Put(list[i])
  BY <1>1, <1>2, <1>3, <1>4 DEF PutOn, Stack!Put
<1>6. QED
  BY <1>3, <1>5

LEMMA ReportedRightly ==
    ASSUME IInv, NotTorn, Tidy, MaxNum < Limit, ApplyDone PROVE Stack!Report
<1>1. RunInv /\ OverOK /\ OrderOK /\ Orderly /\ UniqueNames
  BY DEF IInv, RunInv, CoreInv, NotTorn, Orderly, Tidy
<1>2. applied = ListedDiffs(list) \ NoEffect /\ outcome' = "applied"
  BY <1>1, AppliedAtTheEnd DEF Orderly
<1>3. pc \notin Windows /\ UNCHANGED <<applied, over, list>>
  BY DEF ApplyDone, Windows, tree
<1>4. over = ListOrder(list)
  BY <1>1, <1>2, <1>3, AllInOrder
<1>5. applied = Stack!Wanted(list)
  BY <1>2 DEF Stack!Wanted, ListedDiffs
<1>6. over = Stack!WantedOver(list)
  BY <1>4 DEF Stack!WantedOver, ListOrder
<1>7. QED
  BY <1>2, <1>3, <1>5, <1>6 DEF Stack!Report

\* Everything else is the memory of the run.
LEMMA StackUntouched ==
    ASSUME UNCHANGED <<applied, over, list>>, outcome' = "applied" <=> outcome = "applied"
    PROVE  UNCHANGED Stack!vars
BY DEF Stack!vars

LEMMA StackStep ==
    ASSUME IInv, NotTorn, NotTorn', Tidy, MaxNum < Limit, [Next]_vars
    PROVE  Stack!Next \/ UNCHANGED Stack!vars
<1> USE DEF tree
<1>1. ASSUME NEW l \in Lists, StartApply(l) PROVE Stack!Next
  BY <1>1 DEF StartApply, Stack!Next, Stack!Ask
<1>2. CASE StartRemove
  <2>1. Stack!Ask(list)
    BY <1>2 DEF StartRemove, Stack!Ask
  <2>2. QED
    BY <2>1 DEF Stack!Next
<1>3. CASE KeepEntry \/ ReplaceEntry \/ NewEntry \/ PlanDone
  BY <1>3, StackUntouched DEF KeepEntry, ReplaceEntry, NewEntry, PlanDone, memory
<1>4. CASE ReversePatch
  BY <1>4, TakenFromTheTop DEF Stack!Next
<1>5. CASE UnlinkRecord \/ NumberPatches \/ SkipPatch \/ CreateRecord \/ FillRecord
  BY <1>5, StackUntouched
     DEF UnlinkRecord, NumberPatches, SkipPatch, CreateRecord, FillRecord, memory
<1>6. CASE ApplyPatch
  BY <1>6, PutOnTop DEF Stack!Next, IInv
<1>7. CASE ApplyDone
  BY <1>7, ReportedRightly DEF Stack!Next
<1>8. CASE RefuseReverse \/ RemoveDone \/ RefuseApply \/ Kill
  <2>1. pc # "idle" /\ outcome' # "applied" /\ UNCHANGED <<applied, over, list>>
    BY <1>8 DEF RefuseReverse, Reversing, RemoveDone, RefuseApply, Kill, Exit
  <2>2. outcome # "applied"
    BY <2>1 DEF IInv, MemoryOK
  <2>3. QED
    BY <2>1, <2>2, StackUntouched
<1>9. CASE KillInside \/ UnlinkFails \/ BreakReverse \/ BreakApply
  BY <1>9 DEF KillInside, UnlinkFails, BreakReverse, BreakApply, Tear, NotTorn
<1>10. ASSUME NEW d \in Diff, ManualReverse(d) PROVE FALSE
  <2>1. pc = "idle" /\ d \in half \cup applied /\ d \notin Recorded
    BY <1>10 DEF ManualReverse
  <2>2. half = {} /\ applied = DiffsIn(records) /\ \A r \in records : r.diff # Empty
    BY <2>1 DEF IInv, NotTorn, LedgerOK, TreeIsRecorded, Windows
  <2>3. QED
    BY <2>1, <2>2 DEF Recorded, DiffsIn
<1>11. CASE Unpack
  BY <1>11 DEF Unpack, memory, Stack!Next, Stack!Fresh
<1>12. CASE UNCHANGED vars
  BY <1>12, StackUntouched DEF vars, memory
<1>13. QED
  BY <1>1, <1>2, <1>3, <1>4, <1>5, <1>6, <1>7, <1>8, <1>9, <1>10, <1>11, <1>12
     DEF Next, RunStep, Accident, Developer, Plan, TakeOff, PutAll

(* With tidy lists, fewer than 10^4 numbers and no torn run, the engine    *)
(* implements PatchStack: each change of the tree is that of a stack of    *)
(* patches, and success is reported of the right tree only.                *)
THEOREM EngineIsAStack ==
    ASSUME MaxTears = 0, Tidy, MaxNum < Limit PROVE Spec => StackSpec
<1>1. Init => Stack!Init
  BY DEF Init, Stack!Init
<1>2. IInv /\ NotTorn /\ NotTorn' /\ [Next]_vars => [Stack!Next]_(Stack!vars)
  BY StackStep
<1>3. QED
  BY InductiveInvariant, NeverTorn, <1>1, <1>2, PTL DEF Spec, StackSpec, Stack!Spec
=============================================================================
