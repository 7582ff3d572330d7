------------------------- MODULE BuildStampsProofs -------------------------
(***************************************************************************)
(* StampInv is an invariant of BuildStamps, for every set of goals and any *)
(* number of accidents, and with it what a build that make believes up to  *)
(* date is made from.                                                      *)
(***************************************************************************)
EXTENDS BuildStamps, SequenceTheorems, TLAPS

(***************************************************************************)
(* Which line of which recipe a label names.                               *)
(***************************************************************************)
\* A label stands on one line of each recipe that has it.
LEMMA RecipeLines ==
    ASSUME NEW t \in Stamp \cup Phony, NEW i \in 1..Len(Recipe(t))
    PROVE  /\ Recipe(t)[i] = "revert" =>
                i = 1 /\ t \in {"unpack", "patch.apply", "patch.unapply"}
           /\ Recipe(t)[i] = "unpatch" =>
                i = 2 /\ t \in {"unpack", "patch.unapply"}
           /\ Recipe(t)[i] = "patch" => i = 2 /\ t = "patch.apply"
           /\ Recipe(t)[i] = "backup" => i = 3 /\ t = "patch.apply"
           /\ Recipe(t)[i] = "munge" => i = 4 /\ t = "patch.apply"
           /\ Recipe(t)[i] = "unpack" => i = 3 /\ t = "unpack"
           /\ Recipe(t)[i] = "install" => i = 1 /\ t = "artwork.install"
           /\ Recipe(t)[i] = "tools" => i = 1 /\ t = "build.tools"
           /\ Recipe(t)[i] = "compile" => i = 1 /\ t = "build"
           /\ Recipe(t)[i] = "erase" => i = 2 /\ t = "clean"
           /\ Recipe(t)[i] = "rm" =>
                <<t, i>> \in {<<"unpack", 4>>, <<"patch.apply", 5>>,
                              <<"patch.unapply", 3>>, <<"clean", 1>>}
           /\ Recipe(t)[i] = "touch" =>
                /\ t \in Stamp
                /\ i = Len(Recipe(t))
                /\ t = "unpack" => i = 5
                /\ t = "patch.apply" => i = 6
                /\ t \in {"artwork.install", "build"} => i = 2
           /\ i \in 1..6
           /\ t \in Phony => i = Len(Recipe(t)) <=> <<t, i>> \in
                {<<"patch.unapply", 3>>, <<"clean", 2>>}
  <1>1. CASE t = "unpack" BY <1>1 DEF Recipe, Stamp, Phony
  <1>2. CASE t = "patch.apply" BY <1>2 DEF Recipe, Stamp, Phony
  <1>3. CASE t = "prebuild" BY <1>3 DEF Recipe, Stamp, Phony
  <1>4. CASE t = "artwork.install" BY <1>4 DEF Recipe, Stamp, Phony
  <1>5. CASE t = "build.tools" BY <1>5 DEF Recipe, Stamp, Phony
  <1>6. CASE t = "build_prepared" BY <1>6 DEF Recipe, Stamp, Phony
  <1>7. CASE t = "build" BY <1>7 DEF Recipe, Stamp, Phony
  <1>8. CASE t = "patch.unapply" BY <1>8 DEF Recipe, Stamp, Phony, UnapplyLines
  <1>9. CASE t = "clean" BY <1>9 DEF Recipe, Stamp, Phony
  <1> QED BY <1>1, <1>2, <1>3, <1>4, <1>5, <1>6, <1>7, <1>8, <1>9 DEF Stamp, Phony

\* At a line there is a target, whose recipe has that line.
LEMMA AtLine ==
    ASSUME TypeOK, RunOK, NEW l, At(l)
    PROVE  /\ Running /\ line > 0 /\ walk # <<>>
           /\ Target \in Stamp \cup Phony
           /\ line \in 1..Len(Recipe(Target))
           /\ Recipe(Target)[line] = l
  <1>1. Running /\ line > 0 /\ Recipe(Target)[line] = l
    BY DEF At
  <1>2. walk # <<>> /\ line <= Len(Recipe(Target)) /\ line \in Nat
    BY <1>1 DEF RunOK, TypeOK
  <1>3. Target \in Stamp \cup Phony
    BY <1>2 DEF TypeOK, Target
  <1>4. Len(Recipe(Target)) \in Nat
    BY <1>3 DEF Recipe, UnapplyLines, Stamp, Phony
  <1> QED BY <1>1, <1>2, <1>3, <1>4

\* The part of TypeOK that is about the run and the stamps.
RunTypes ==
    /\ goal \in Goals \cup {"none"}
    /\ walk \in Seq(Stamp \cup Phony)
    /\ line \in 0..6
    /\ outcome \in {"none", "running", "done"}

\* What is left to walk after the only target of a phony goal: nothing.
LEMMA SingletonTail ==
    ASSUME NEW p
    PROVE  Tail(<<p>>) = <<>>
  <1>1. Len(<<p>>) = 1 /\ <<p>> \in Seq({p})
    OBVIOUS
  <1>2. Tail(<<p>>) \in Seq({p}) /\ Len(Tail(<<p>>)) = 0
    BY <1>1
  <1> QED BY <1>2, EmptySeq

\* A target whose recipe goes on to a next line, or ends, keeps RunOK.
LEMMA GoOnStep ==
    ASSUME TypeOK, RunOK, NEW l, At(l), GoOn,
           (exists' \ old') \subseteq (exists \ old),
           "unpack" \notin old',
           "unpack" \in exists /\ Target \notin Phony => "unpack" \in exists',
           l # "touch"
    PROVE  /\ RunTypes'
           /\ RunOK'
           /\ line' > 0 => walk' = walk /\ Target' = Target /\ line' = line + 1
           /\ line = Len(Recipe(Target)) => line' = 0
           /\ line # Len(Recipe(Target)) => line' = line + 1
  <1>1. /\ Running /\ line > 0 /\ walk # <<>>
        /\ Target \in Stamp \cup Phony
        /\ line \in 1..Len(Recipe(Target))
        /\ Recipe(Target)[line] = l
    BY AtLine
  <1>2. line \in 1..6 /\ Len(Recipe(Target)) \in 1..6
    BY <1>1 DEF Recipe, UnapplyLines, Stamp, Phony
  <1>3. line = Len(Recipe(Target)) => Target \in Phony
    BY <1>1 DEF Recipe, UnapplyLines, Stamp, Phony
  <1>4. walk \in Seq(Stamp \cup Phony) /\ Tail(walk) \in Seq(Stamp \cup Phony)
    BY <1>1 DEF TypeOK
  <1>5. CASE line = Len(Recipe(Target))
    <2>1. walk' = Tail(walk) /\ line' = 0 /\ goal' = goal /\ outcome' = outcome
      BY <1>5 DEF GoOn
    <2>2. walk \in {<<p>> : p \in Phony}
      <3>1. Target \in Phony
        BY <1>3, <1>5
      <3>2. walk \notin Seq(Stamp)
        BY <3>1, <1>1 DEF Target, Stamp, Phony
      <3> QED BY <3>2 DEF RunOK
    <2>3. walk' = <<>>
      BY <2>1, <2>2, SingletonTail
    <2>4. RunTypes'
      BY <1>4, <2>1 DEF RunTypes, TypeOK
    <2>5. RunOK'
      <3>1. walk' \in Seq(Stamp)
        BY <2>3, EmptySeq
      <3> QED BY <2>1, <2>3, <3>1 DEF RunOK
    <2> QED BY <1>5, <2>1, <2>4, <2>5
  <1>6. CASE line # Len(Recipe(Target))
    <2>1. walk' = walk /\ line' = line + 1 /\ goal' = goal /\ outcome' = outcome
      BY <1>6 DEF GoOn
    <2>2. RunTypes'
      <3>1. line' \in 0..6
        <4> DEFINE n == Len(Recipe(Target))
        <4>1. n \in 1..6 /\ line \in 1..n /\ line # n
          BY <1>1, <1>2, <1>6
        <4> HIDE DEF n
        <4> QED BY <4>1, <2>1
      <3> QED BY <1>4, <2>1, <3>1 DEF RunTypes, TypeOK
    <2>3. Target' = Target
      BY <2>1 DEF Target
    <2>4. RunOK'
      <3>1. line' <= Len(Recipe(Target'))
        BY <1>1, <1>2, <1>6, <2>1, <2>3
      <3>2. Target \in Stamp => ~Fresh(Target) /\ ~Fresh(Target)'
        BY <1>1, <2>3 DEF RunOK, Fresh
      <3>3. Target = "unpack" \/ Target \in Phony \/ "unpack" \in exists'
        BY <1>1 DEF RunOK
      <3> QED BY <1>1, <2>1, <2>3, <3>1, <3>2, <3>3 DEF RunOK, Running
    <2> QED BY <1>6, <2>1, <2>2, <2>3, <2>4
  <1> QED BY <1>5, <1>6

\* A run that ends keeps its types and RunOK, whatever stamps it leaves.
LEMMA StopStep ==
    ASSUME TypeOK, RunOK, Stop, "unpack" \notin old'
    PROVE  RunTypes' /\ RunOK' /\ line' = 0 /\ ~Running'
  <1>1. walk' = <<>> /\ line' = 0 /\ outcome' = "none" /\ goal' = "none"
    BY DEF Stop
  <1> QED BY <1>1 DEF RunTypes, RunOK, Running

\* A line that is not the last of its recipe and leaves the stamps alone.
LEMMA LineGoesOn ==
    ASSUME TypeOK, RunOK, NEW l, At(l), GoOn, l \notin {"touch", "rm", "erase"},
           exists' = exists, old' = old
    PROVE  RunTypes' /\ RunOK' /\ line' = line + 1 /\ walk' = walk /\ Target' = Target
  <1>1. line # Len(Recipe(Target)) /\ line \in Nat
    <2>1. /\ Target \in Stamp \cup Phony
          /\ line \in 1..Len(Recipe(Target))
          /\ Recipe(Target)[line] = l
      BY AtLine
    <2> QED BY <2>1 DEF Recipe, UnapplyLines, Stamp, Phony
  <1>2. RunTypes' /\ RunOK' /\ line' = line + 1
    BY <1>1, GoOnStep DEF RunOK
  <1>3. walk' = walk
    BY <1>1 DEF GoOn
  <1> QED BY <1>2, <1>3 DEF Target

\* A line that ends the run and leaves the stamps alone.
LEMMA LineStops ==
    ASSUME TypeOK, RunOK, Stop, exists' = exists, old' = old
    PROVE  RunTypes' /\ RunOK' /\ line' = 0 /\ ~Running'
  BY StopStep DEF RunOK

\* Where the run is when a line is reached.
LEMMA LinePlace ==
    ASSUME TypeOK, RunOK, NEW l, At(l)
    PROVE  /\ Running /\ walk # <<>> /\ Target \in Stamp \cup Phony
           /\ Target \in Stamp => ~Fresh(Target)
           /\ l = "revert" =>
                line = 1 /\ Target \in {"unpack", "patch.apply", "patch.unapply"}
           /\ l = "unpatch" => line = 2 /\ Target \in {"unpack", "patch.unapply"}
           /\ l = "patch" => line = 2 /\ Target = "patch.apply"
           /\ l = "backup" => line = 3 /\ Target = "patch.apply"
           /\ l = "munge" => line = 4 /\ Target = "patch.apply"
           /\ l = "unpack" => line = 3 /\ Target = "unpack"
           /\ l = "install" => line = 1 /\ Target = "artwork.install"
           /\ l = "tools" => line = 1 /\ Target = "build.tools"
           /\ l = "compile" => line = 1 /\ Target = "build"
           /\ l = "erase" => line = 2 /\ Target = "clean"
           /\ Target = "unpack" => "unpack" \notin exists
           /\ Target = "patch.apply" => "unpack" \in exists
  <1>1. /\ Running /\ line > 0 /\ walk # <<>>
        /\ Target \in Stamp \cup Phony
        /\ line \in 1..Len(Recipe(Target))
        /\ Recipe(Target)[line] = l
    BY AtLine
  <1>2. Target \in Stamp => ~Fresh(Target)
    BY <1>1 DEF RunOK
  <1>3. Target = "unpack" => "unpack" \notin exists
    BY <1>2 DEF RunOK, Fresh, Stamp
  <1>4. Target = "patch.apply" => "unpack" \in exists
    BY <1>1 DEF RunOK, Phony
  <1> QED BY <1>1, <1>2, <1>3, <1>4, RecipeLines

(***************************************************************************)
(* bin/transform                                                           *)
(***************************************************************************)
\* Putting the .bak file back keeps StampInv: it is what was munged.
LEMMA RevertKeeps ==
    ASSUME StampInv, Revert
    PROVE  StampInv'
  <1> USE DEF StampInv
  <1>1. /\ line = 1 /\ Target \in {"unpack", "patch.apply", "patch.unapply"}
        /\ Target = "unpack" => "unpack" \notin exists
        /\ walk # <<>> /\ Running
        /\ Target \in Stamp => ~Fresh(Target)
    BY LinePlace DEF Revert
  <1>2. /\ RunTypes' /\ RunOK' /\ exists' = exists /\ old' = old
        /\ line' = 2 /\ walk' = walk /\ Target' = Target
    BY <1>1, LineGoesOn DEF Revert
  <1>3. TypeOK'
    <2>1. exists' \subseteq Stamp /\ old' \subseteq exists'
      BY <1>1, <1>2 DEF TypeOK, Revert
    <2>2. /\ tree' \in {"none", "part", "full"}
          /\ applied' \in {"none", "mixed", "stale", "current"}
          /\ font' \in {"gone", "part", "orig", "munged"}
          /\ bak' \in {"none", "part", "orig", "munged"}
          /\ art' \in {"none", "part", "stale", "current"}
      BY DEF TypeOK, Revert
    <2>3. compiled' \in BOOLEAN
      BY DEF TypeOK, KeepBuild, Revert
    <2>4. missed' \subseteq Input /\ damage' \subseteq Accident
      BY DEF TypeOK, Spoiled, Accident, Revert
    <2> QED BY <1>2, <2>1, <2>2, <2>3, <2>4 DEF TypeOK, RunTypes
  <1>4. TreeOK'
    BY <1>1, <1>2 DEF TreeOK, Revert, Doing, Without, Spoiled
  <1>5. FontOK'
    BY <1>1, <1>2 DEF FontOK, Revert, Doing, Without, TypeOK, Spoiled
  <1>6. StampsGone'
    BY <1>1, <1>2 DEF StampsGone, Revert, Doing, Spoiled, RemovedBy
  <1>7. PatchesOK'
    BY <1>1, <1>2 DEF PatchesOK, Revert, FontOK, RunOK, Doing, Without,
       Fresh, Decorated, PatchesAsRead, Stamp, Phony, Spoiled
  <1>8. ArtworkOK'
    BY <1>1, <1>2 DEF ArtworkOK, Revert, Doing, Without, Fresh,
       ArtworkAsRead, Spoiled
  <1>9. CompiledOK'
    BY <1>1, <1>2 DEF CompiledOK, Revert, Doing, Fresh, UpToDate, Stamp,
       KeepBuild, Spoiled
  <1> QED BY <1>2, <1>3, <1>4, <1>5, <1>6, <1>7, <1>8, <1>9

\* Copying the font file keeps StampInv: it is the original one there.
LEMMA BackUpKeeps ==
    ASSUME StampInv, BackUp \/ BackUpTorn
    PROVE  StampInv'
  <1> USE DEF StampInv
  <1>1. /\ line = 3 /\ Target = "patch.apply" /\ "unpack" \in exists
        /\ walk # <<>> /\ Running
        /\ Target \in Stamp => ~Fresh(Target)
    BY LinePlace DEF BackUp, BackUpTorn
  <1>2. /\ RunTypes' /\ RunOK' /\ exists' = exists /\ old' = old
        /\ \/ (BackUp \/ BackUpTorn) /\ line' = 4 /\ walk' = walk /\ Target' = Target
           \/ (BackUpTorn) /\ line' = 0
    BY <1>1, LineGoesOn, LineStops DEF BackUp, BackUpTorn
  <1>3. TypeOK'
    <2>1. exists' \subseteq Stamp /\ old' \subseteq exists'
      BY <1>1, <1>2 DEF TypeOK, BackUp, BackUpTorn
    <2>2. /\ tree' \in {"none", "part", "full"}
          /\ applied' \in {"none", "mixed", "stale", "current"}
          /\ font' \in {"gone", "part", "orig", "munged"}
          /\ bak' \in {"none", "part", "orig", "munged"}
          /\ art' \in {"none", "part", "stale", "current"}
      BY DEF TypeOK, BackUp, BackUpTorn
    <2>3. compiled' \in BOOLEAN
      BY DEF TypeOK, KeepBuild, BackUp, BackUpTorn
    <2>4. missed' \subseteq Input /\ damage' \subseteq Accident
      BY DEF TypeOK, Spoiled, Accident, BackUp, BackUpTorn
    <2> QED BY <1>2, <2>1, <2>2, <2>3, <2>4 DEF TypeOK, RunTypes
  <1>4. TreeOK'
    BY <1>1, <1>2 DEF TreeOK, BackUp, BackUpTorn, Doing, Without, Spoiled
  <1>5. FontOK'
    BY <1>1, <1>2 DEF FontOK, BackUp, BackUpTorn, Doing, Without, TypeOK,
       Spoiled, PatchesOK, Decorated
  <1>6. StampsGone'
    BY <1>1, <1>2 DEF StampsGone, BackUp, BackUpTorn, Doing, Spoiled,
       RemovedBy
  <1>7. PatchesOK'
    BY <1>1, <1>2 DEF PatchesOK, BackUp, BackUpTorn, FontOK, RunOK, Doing,
       Without, Fresh, Decorated, PatchesAsRead, Stamp, Phony, Spoiled
  <1>8. ArtworkOK'
    BY <1>1, <1>2 DEF ArtworkOK, BackUp, BackUpTorn, Doing, Without, Fresh,
       ArtworkAsRead, Spoiled
  <1>9. CompiledOK'
    BY <1>1, <1>2 DEF CompiledOK, BackUp, BackUpTorn, Doing, Fresh,
       UpToDate, Stamp, KeepBuild, Spoiled
  <1> QED BY <1>2, <1>3, <1>4, <1>5, <1>6, <1>7, <1>8, <1>9

\* Munging keeps StampInv: what it writes over has its copy in .bak.
LEMMA MungeKeeps ==
    ASSUME StampInv, Munge \/ MungeFails \/ MungeKilled
    PROVE  StampInv'
  <1> USE DEF StampInv
  <1>1. /\ line = 4 /\ Target = "patch.apply" /\ "unpack" \in exists
        /\ walk # <<>> /\ Running
        /\ Target \in Stamp => ~Fresh(Target)
    BY LinePlace DEF Munge, MungeFails, MungeKilled
  <1>2. /\ RunTypes' /\ RunOK' /\ exists' = exists /\ old' = old
        /\ \/ (Munge \/ MungeFails) /\ line' = 5 /\ walk' = walk /\ Target' = Target
           \/ (MungeKilled) /\ line' = 0
    BY <1>1, LineGoesOn, LineStops DEF Munge, MungeFails, MungeKilled
  <1>3. TypeOK'
    <2>1. exists' \subseteq Stamp /\ old' \subseteq exists'
      BY <1>1, <1>2 DEF TypeOK, Munge, MungeFails, MungeKilled
    <2>2. /\ tree' \in {"none", "part", "full"}
          /\ applied' \in {"none", "mixed", "stale", "current"}
          /\ font' \in {"gone", "part", "orig", "munged"}
          /\ bak' \in {"none", "part", "orig", "munged"}
          /\ art' \in {"none", "part", "stale", "current"}
      BY DEF TypeOK, Munge, MungeFails, MungeKilled
    <2>3. compiled' \in BOOLEAN
      BY DEF TypeOK, KeepBuild, Munge, MungeFails, MungeKilled
    <2>4. missed' \subseteq Input /\ damage' \subseteq Accident
      BY DEF TypeOK, Spoiled, Accident, Munge, MungeFails, MungeKilled
    <2> QED BY <1>2, <2>1, <2>2, <2>3, <2>4 DEF TypeOK, RunTypes
  <1>4. TreeOK'
    BY <1>1, <1>2 DEF TreeOK, Munge, MungeFails, MungeKilled, Doing,
       Without, Spoiled
  <1>5. FontOK'
    BY <1>1, <1>2 DEF FontOK, Munge, MungeFails, MungeKilled, Doing,
       Without, TypeOK, Spoiled, PatchesOK, Decorated
  <1>6. StampsGone'
    BY <1>1, <1>2 DEF StampsGone, Munge, MungeFails, MungeKilled, Doing,
       Spoiled, RemovedBy
  <1>7. PatchesOK'
    BY <1>1, <1>2 DEF PatchesOK, Munge, MungeFails, MungeKilled, FontOK,
       RunOK, Doing, Without, Fresh, Decorated, PatchesAsRead, Stamp,
       Phony, Spoiled
  <1>8. ArtworkOK'
    BY <1>1, <1>2 DEF ArtworkOK, Munge, MungeFails, MungeKilled, Doing,
       Without, Fresh, ArtworkAsRead, Spoiled
  <1>9. CompiledOK'
    BY <1>1, <1>2 DEF CompiledOK, Munge, MungeFails, MungeKilled, Doing,
       Fresh, UpToDate, Stamp, KeepBuild, Spoiled
  <1> QED BY <1>2, <1>3, <1>4, <1>5, <1>6, <1>7, <1>8, <1>9

(***************************************************************************)
(* patches/apply.pl                                                        *)
(***************************************************************************)
\* Applying the patches keeps StampInv.
LEMMA PatchKeeps ==
    ASSUME StampInv, Patch
    PROVE  StampInv'
  <1> USE DEF StampInv
  <1>1. /\ line = 2 /\ Target = "patch.apply" /\ "unpack" \in exists
        /\ walk # <<>> /\ Running
        /\ Target \in Stamp => ~Fresh(Target)
    BY LinePlace DEF Patch
  <1>2. /\ RunTypes' /\ RunOK' /\ exists' = exists /\ old' = old
        /\ line' = 3 /\ walk' = walk /\ Target' = Target
    BY <1>1, LineGoesOn DEF Patch
  <1>3. TypeOK'
    <2>1. exists' \subseteq Stamp /\ old' \subseteq exists'
      BY <1>1, <1>2 DEF TypeOK, Patch
    <2>2. /\ tree' \in {"none", "part", "full"}
          /\ applied' \in {"none", "mixed", "stale", "current"}
          /\ font' \in {"gone", "part", "orig", "munged"}
          /\ bak' \in {"none", "part", "orig", "munged"}
          /\ art' \in {"none", "part", "stale", "current"}
      BY DEF TypeOK, Patch
    <2>3. compiled' \in BOOLEAN
      BY DEF TypeOK, KeepBuild, Patch
    <2>4. missed' \subseteq Input /\ damage' \subseteq Accident
      BY DEF TypeOK, Spoiled, Accident, Patch
    <2> QED BY <1>2, <2>1, <2>2, <2>3, <2>4 DEF TypeOK, RunTypes
  <1>4. TreeOK'
    BY <1>1, <1>2 DEF TreeOK, Patch, Doing, Without, Spoiled
  <1>5. FontOK'
    BY <1>1, <1>2 DEF FontOK, Patch, Doing, Without, TypeOK, Spoiled
  <1>6. StampsGone'
    BY <1>1, <1>2 DEF StampsGone, Patch, Doing, Spoiled, RemovedBy
  <1>7. PatchesOK'
    BY <1>1, <1>2 DEF PatchesOK, Patch, FontOK, RunOK, Doing, Without,
       Fresh, Decorated, PatchesAsRead, Stamp, Phony, Spoiled, TreeOK,
       Reliable
  <1>8. ArtworkOK'
    BY <1>1, <1>2 DEF ArtworkOK, Patch, Doing, Without, Fresh,
       ArtworkAsRead, Spoiled
  <1>9. CompiledOK'
    BY <1>1, <1>2 DEF CompiledOK, Patch, Doing, Fresh, UpToDate, Stamp,
       KeepBuild, Spoiled
  <1> QED BY <1>2, <1>3, <1>4, <1>5, <1>6, <1>7, <1>8, <1>9

\* Taking the patches off keeps StampInv: their stamp is stale or known
\* to be wrong.
LEMMA UnpatchKeeps ==
    ASSUME StampInv, Unpatch
    PROVE  StampInv'
  <1> USE DEF StampInv
  <1>1. /\ line = 2 /\ Target \in {"unpack", "patch.unapply"}
        /\ Target = "unpack" => "unpack" \notin exists
        /\ walk # <<>> /\ Running
        /\ Target \in Stamp => ~Fresh(Target)
    BY LinePlace DEF Unpatch
  <1>2. /\ RunTypes' /\ RunOK' /\ exists' = exists /\ old' = old
        /\ line' = 3 /\ walk' = walk /\ Target' = Target
    BY <1>1, LineGoesOn DEF Unpatch
  <1>3. TypeOK'
    <2>1. exists' \subseteq Stamp /\ old' \subseteq exists'
      BY <1>1, <1>2 DEF TypeOK, Unpatch
    <2>2. /\ tree' \in {"none", "part", "full"}
          /\ applied' \in {"none", "mixed", "stale", "current"}
          /\ font' \in {"gone", "part", "orig", "munged"}
          /\ bak' \in {"none", "part", "orig", "munged"}
          /\ art' \in {"none", "part", "stale", "current"}
      BY DEF TypeOK, Unpatch
    <2>3. compiled' \in BOOLEAN
      BY DEF TypeOK, KeepBuild, Unpatch
    <2>4. missed' \subseteq Input /\ damage' \subseteq Accident
      BY DEF TypeOK, Spoiled, Accident, Unpatch
    <2> QED BY <1>2, <2>1, <2>2, <2>3, <2>4 DEF TypeOK, RunTypes
  <1>4. TreeOK'
    BY <1>1, <1>2 DEF TreeOK, Unpatch, Doing, Without, Spoiled
  <1>5. FontOK'
    BY <1>1, <1>2 DEF FontOK, Unpatch, Doing, Without, TypeOK, Spoiled
  <1>6. StampsGone'
    BY <1>1, <1>2 DEF StampsGone, Unpatch, Doing, Spoiled, RemovedBy
  <1>7. PatchesOK'
    BY <1>1, <1>2 DEF PatchesOK, Unpatch, FontOK, RunOK, Doing, Without,
       Fresh, Decorated, PatchesAsRead, Stamp, Phony, Spoiled, StampsGone
  <1>8. ArtworkOK'
    BY <1>1, <1>2 DEF ArtworkOK, Unpatch, Doing, Without, Fresh,
       ArtworkAsRead, Spoiled
  <1>9. CompiledOK'
    BY <1>1, <1>2 DEF CompiledOK, Unpatch, Doing, Fresh, UpToDate, Stamp,
       KeepBuild, Spoiled, StampsGone
  <1> QED BY <1>2, <1>3, <1>4, <1>5, <1>6, <1>7, <1>8, <1>9

\* A run that ends in apply.pl keeps StampInv.
LEMMA ApplyPlStopsKeeps ==
    ASSUME StampInv, ApplyPlStops
    PROVE  StampInv'
  <1> USE DEF StampInv
  <1>1. /\ line = 2 /\ Target \in {"unpack", "patch.apply", "patch.unapply"}
        /\ Target = "unpack" => "unpack" \notin exists
        /\ walk # <<>> /\ Running
        /\ Target \in Stamp => ~Fresh(Target)
    BY LinePlace DEF ApplyPlStops
  <1>2. /\ RunTypes' /\ RunOK' /\ exists' = exists /\ old' = old
        /\ line' = 0
    BY <1>1, LineStops DEF ApplyPlStops
  <1>3. TypeOK'
    <2>1. exists' \subseteq Stamp /\ old' \subseteq exists'
      BY <1>1, <1>2 DEF TypeOK, ApplyPlStops
    <2>2. /\ tree' \in {"none", "part", "full"}
          /\ applied' \in {"none", "mixed", "stale", "current"}
          /\ font' \in {"gone", "part", "orig", "munged"}
          /\ bak' \in {"none", "part", "orig", "munged"}
          /\ art' \in {"none", "part", "stale", "current"}
      BY DEF TypeOK, ApplyPlStops
    <2>3. compiled' \in BOOLEAN
      BY DEF TypeOK, KeepBuild, ApplyPlStops
    <2>4. missed' \subseteq Input /\ damage' \subseteq Accident
      BY DEF TypeOK, Spoiled, Accident, ApplyPlStops
    <2> QED BY <1>2, <2>1, <2>2, <2>3, <2>4 DEF TypeOK, RunTypes
  <1>4. TreeOK'
    BY <1>1, <1>2 DEF TreeOK, ApplyPlStops, Doing, Without, Spoiled
  <1>5. FontOK'
    BY <1>1, <1>2 DEF FontOK, ApplyPlStops, Doing, Without, TypeOK, Spoiled
  <1>6. StampsGone'
    BY <1>1, <1>2 DEF StampsGone, ApplyPlStops, Doing, Spoiled, RemovedBy
  <1>7. PatchesOK'
    BY <1>1, <1>2 DEF PatchesOK, ApplyPlStops, FontOK, RunOK, Doing,
       Without, Fresh, Decorated, PatchesAsRead, Stamp, Phony, Spoiled,
       StampsGone
  <1>8. ArtworkOK'
    BY <1>1, <1>2 DEF ArtworkOK, ApplyPlStops, Doing, Without, Fresh,
       ArtworkAsRead, Spoiled
  <1>9. CompiledOK'
    BY <1>1, <1>2 DEF CompiledOK, ApplyPlStops, Doing, Fresh, UpToDate,
       Stamp, KeepBuild, Spoiled, StampsGone
  <1> QED BY <1>2, <1>3, <1>4, <1>5, <1>6, <1>7, <1>8, <1>9

(***************************************************************************)
(* The other scripts                                                       *)
(***************************************************************************)
\* Unpacking keeps StampInv, also when it loses files or stops.
LEMMA UnpackKeeps ==
    ASSUME StampInv, Unpack \/ UnpackLoses \/ UnpackStops
    PROVE  StampInv'
  <1> USE DEF StampInv
  <1>1. /\ line = 3 /\ Target = "unpack" /\ "unpack" \notin exists
        /\ walk # <<>> /\ Running
        /\ Target \in Stamp => ~Fresh(Target)
    BY LinePlace DEF Unpack, UnpackLoses, UnpackStops
  <1>2. /\ RunTypes' /\ RunOK' /\ exists' = exists /\ old' = old
        /\ \/ (Unpack \/ UnpackLoses) /\ line' = 4 /\ walk' = walk /\ Target' = Target
           \/ (UnpackStops) /\ line' = 0
    BY <1>1, LineGoesOn, LineStops DEF Unpack, UnpackLoses, UnpackStops
  <1>3. TypeOK'
    <2>1. exists' \subseteq Stamp /\ old' \subseteq exists'
      BY <1>1, <1>2 DEF TypeOK, Unpack, UnpackLoses, UnpackStops
    <2>2. /\ tree' \in {"none", "part", "full"}
          /\ applied' \in {"none", "mixed", "stale", "current"}
          /\ font' \in {"gone", "part", "orig", "munged"}
          /\ bak' \in {"none", "part", "orig", "munged"}
          /\ art' \in {"none", "part", "stale", "current"}
      BY DEF TypeOK, Unpack, UnpackLoses, UnpackStops
    <2>3. compiled' \in BOOLEAN
      BY DEF TypeOK, KeepBuild, Unpack, UnpackLoses, UnpackStops
    <2>4. missed' \subseteq Input /\ damage' \subseteq Accident
      BY DEF TypeOK, Spoiled, Accident, Unpack, UnpackLoses, UnpackStops
    <2> QED BY <1>2, <2>1, <2>2, <2>3, <2>4 DEF TypeOK, RunTypes
  <1>4. TreeOK'
    BY <1>1, <1>2 DEF TreeOK, Unpack, UnpackLoses, UnpackStops, Doing,
       Without, Spoiled
  <1>5. FontOK'
    BY <1>1, <1>2 DEF FontOK, Unpack, UnpackLoses, UnpackStops, Doing,
       Without, TypeOK, Spoiled
  <1>6. StampsGone'
    BY <1>1, <1>2 DEF StampsGone, Unpack, UnpackLoses, UnpackStops, Doing,
       Spoiled, RemovedBy
  <1>7. PatchesOK'
    BY <1>1, <1>2 DEF PatchesOK, Unpack, UnpackLoses, UnpackStops, FontOK,
       RunOK, Doing, Without, Fresh, Decorated, PatchesAsRead, Stamp,
       Phony, Spoiled
  <1>8. ArtworkOK'
    BY <1>1, <1>2 DEF ArtworkOK, Unpack, UnpackLoses, UnpackStops, Doing,
       Without, Fresh, ArtworkAsRead, Spoiled
  <1>9. CompiledOK'
    BY <1>1, <1>2 DEF CompiledOK, Unpack, UnpackLoses, UnpackStops, Doing,
       Fresh, UpToDate, Stamp, KeepBuild, Spoiled
  <1> QED BY <1>2, <1>3, <1>4, <1>5, <1>6, <1>7, <1>8, <1>9

\* Installing the artwork keeps StampInv.
LEMMA InstallKeeps ==
    ASSUME StampInv, Install \/ InstallLoses \/ InstallStops
    PROVE  StampInv'
  <1> USE DEF StampInv
  <1>1. /\ line = 1 /\ Target = "artwork.install"
        /\ walk # <<>> /\ Running
        /\ Target \in Stamp => ~Fresh(Target)
    BY LinePlace DEF Install, InstallLoses, InstallStops
  <1>2. /\ RunTypes' /\ RunOK' /\ exists' = exists /\ old' = old
        /\ \/ (Install \/ InstallLoses) /\ line' = 2 /\ walk' = walk /\ Target' = Target
           \/ (InstallStops) /\ line' = 0
    BY <1>1, LineGoesOn, LineStops DEF Install, InstallLoses, InstallStops
  <1>3. TypeOK'
    <2>1. exists' \subseteq Stamp /\ old' \subseteq exists'
      BY <1>1, <1>2 DEF TypeOK, Install, InstallLoses, InstallStops
    <2>2. /\ tree' \in {"none", "part", "full"}
          /\ applied' \in {"none", "mixed", "stale", "current"}
          /\ font' \in {"gone", "part", "orig", "munged"}
          /\ bak' \in {"none", "part", "orig", "munged"}
          /\ art' \in {"none", "part", "stale", "current"}
      BY DEF TypeOK, Install, InstallLoses, InstallStops
    <2>3. compiled' \in BOOLEAN
      BY DEF TypeOK, KeepBuild, Install, InstallLoses, InstallStops
    <2>4. missed' \subseteq Input /\ damage' \subseteq Accident
      BY DEF TypeOK, Spoiled, Accident, Install, InstallLoses, InstallStops
    <2> QED BY <1>2, <2>1, <2>2, <2>3, <2>4 DEF TypeOK, RunTypes
  <1>4. TreeOK'
    BY <1>1, <1>2 DEF TreeOK, Install, InstallLoses, InstallStops, Doing,
       Without, Spoiled
  <1>5. FontOK'
    BY <1>1, <1>2 DEF FontOK, Install, InstallLoses, InstallStops, Doing,
       Without, TypeOK, Spoiled
  <1>6. StampsGone'
    BY <1>1, <1>2 DEF StampsGone, Install, InstallLoses, InstallStops,
       Doing, Spoiled, RemovedBy
  <1>7. PatchesOK'
    BY <1>1, <1>2 DEF PatchesOK, Install, InstallLoses, InstallStops,
       FontOK, RunOK, Doing, Without, Fresh, Decorated, PatchesAsRead,
       Stamp, Phony, Spoiled
  <1>8. ArtworkOK'
    BY <1>1, <1>2 DEF ArtworkOK, Install, InstallLoses, InstallStops,
       Doing, Without, Fresh, ArtworkAsRead, Spoiled, Stamp
  <1>9. CompiledOK'
    BY <1>1, <1>2 DEF CompiledOK, Install, InstallLoses, InstallStops,
       Doing, Fresh, UpToDate, Stamp, KeepBuild, Spoiled
  <1> QED BY <1>2, <1>3, <1>4, <1>5, <1>6, <1>7, <1>8, <1>9

\* Making the tools keeps StampInv: it changes nothing it speaks of.
LEMMA BuildToolsKeeps ==
    ASSUME StampInv, BuildTools
    PROVE  StampInv'
  <1> USE DEF StampInv
  <1>1. /\ line = 1 /\ Target = "build.tools"
        /\ walk # <<>> /\ Running
        /\ Target \in Stamp => ~Fresh(Target)
    BY LinePlace DEF BuildTools
  <1>2. /\ RunTypes' /\ RunOK' /\ exists' = exists /\ old' = old
        /\ line' = 2 /\ walk' = walk /\ Target' = Target
    BY <1>1, LineGoesOn DEF BuildTools
  <1>3. TypeOK'
    BY <1>1, <1>2 DEF TypeOK, BuildTools, RunTypes, KeepBuild, Spoiled,
       Accident, Input, directory
  <1>4. TreeOK'
    BY <1>1, <1>2 DEF TreeOK, BuildTools, Doing, Without, Spoiled,
       directory
  <1>5. FontOK'
    BY <1>1, <1>2 DEF FontOK, BuildTools, Doing, Without, TypeOK, Spoiled,
       directory
  <1>6. StampsGone'
    BY <1>1, <1>2 DEF StampsGone, BuildTools, Doing, Spoiled, RemovedBy,
       directory
  <1>7. PatchesOK'
    BY <1>1, <1>2 DEF PatchesOK, BuildTools, FontOK, RunOK, Doing, Without,
       Fresh, Decorated, PatchesAsRead, Stamp, Phony, Spoiled, directory
  <1>8. ArtworkOK'
    BY <1>1, <1>2 DEF ArtworkOK, BuildTools, Doing, Without, Fresh,
       ArtworkAsRead, Spoiled, directory
  <1>9. CompiledOK'
    BY <1>1, <1>2 DEF CompiledOK, BuildTools, Doing, Fresh, UpToDate,
       Stamp, KeepBuild, Spoiled, directory
  <1> QED BY <1>2, <1>3, <1>4, <1>5, <1>6, <1>7, <1>8, <1>9

\* Compiling keeps StampInv.
LEMMA CompileKeeps ==
    ASSUME StampInv, Compile \/ CompileStops
    PROVE  StampInv'
  <1> USE DEF StampInv
  <1>1. /\ line = 1 /\ Target = "build"
        /\ walk # <<>> /\ Running
        /\ Target \in Stamp => ~Fresh(Target)
    BY LinePlace DEF Compile, CompileStops
  <1>2. /\ RunTypes' /\ RunOK' /\ exists' = exists /\ old' = old
        /\ \/ (Compile) /\ line' = 2 /\ walk' = walk /\ Target' = Target
           \/ (CompileStops) /\ line' = 0
    BY <1>1, LineGoesOn, LineStops DEF Compile, CompileStops
  <1>3. TypeOK'
    <2>1. exists' \subseteq Stamp /\ old' \subseteq exists'
      BY <1>1, <1>2 DEF TypeOK, Compile, CompileStops, directory
    <2>2. /\ tree' \in {"none", "part", "full"}
          /\ applied' \in {"none", "mixed", "stale", "current"}
          /\ font' \in {"gone", "part", "orig", "munged"}
          /\ bak' \in {"none", "part", "orig", "munged"}
          /\ art' \in {"none", "part", "stale", "current"}
      BY DEF TypeOK, Compile, CompileStops, directory
    <2>3. compiled' \in BOOLEAN
      BY DEF TypeOK, KeepBuild, Compile, CompileStops, directory
    <2>4. missed' \subseteq Input /\ damage' \subseteq Accident
      BY DEF TypeOK, Spoiled, Accident, Compile, CompileStops, directory
    <2> QED BY <1>2, <2>1, <2>2, <2>3, <2>4 DEF TypeOK, RunTypes
  <1>4. TreeOK'
    BY <1>1, <1>2 DEF TreeOK, Compile, CompileStops, Doing, Without,
       Spoiled, directory
  <1>5. FontOK'
    BY <1>1, <1>2 DEF FontOK, Compile, CompileStops, Doing, Without,
       TypeOK, Spoiled, directory
  <1>6. StampsGone'
    BY <1>1, <1>2 DEF StampsGone, Compile, CompileStops, Doing, Spoiled,
       RemovedBy, directory
  <1>7. PatchesOK'
    BY <1>1, <1>2 DEF PatchesOK, Compile, CompileStops, FontOK, RunOK,
       Doing, Without, Fresh, Decorated, PatchesAsRead, Stamp, Phony,
       Spoiled, directory
  <1>8. ArtworkOK'
    BY <1>1, <1>2 DEF ArtworkOK, Compile, CompileStops, Doing, Without,
       Fresh, ArtworkAsRead, Spoiled, directory
  <1>9. CompiledOK'
    BY <1>1, <1>2 DEF CompiledOK, Compile, CompileStops, Doing, Fresh,
       UpToDate, Stamp, KeepBuild, Spoiled, directory
  <1> QED BY <1>2, <1>3, <1>4, <1>5, <1>6, <1>7, <1>8, <1>9

\* Removing the tree in make clean keeps StampInv.
LEMMA EraseKeeps ==
    ASSUME StampInv, Erase
    PROVE  StampInv'
  <1> USE DEF StampInv
  <1>1. /\ line = 2 /\ Target = "clean" /\ walk # <<>> /\ Running
    BY LinePlace DEF Erase
  <1>2. RunTypes' /\ RunOK' /\ line' = 0
    <2>1. At("erase") /\ GoOn /\ "unpack" \notin old'
          /\ (exists' \ old') \subseteq (exists \ old)
      BY DEF Erase, NoTree
    <2> QED BY <1>1, <2>1, GoOnStep DEF Recipe, Phony
  <1>3. "unpack" \notin exists'
    BY DEF Erase, NoTree
  <1>4. TypeOK'
    BY <1>1, <1>2, <1>3 DEF TypeOK, Erase, RunTypes, KeepBuild, Spoiled,
       Accident, Input, NoTree
  <1>5. TreeOK'
    BY <1>1, <1>2, <1>3 DEF TreeOK, Erase, Doing, Without, Spoiled, NoTree
  <1>6. FontOK'
    BY <1>1, <1>2, <1>3 DEF FontOK, Erase, Doing, Without, TypeOK, Spoiled,
       NoTree
  <1>7. StampsGone'
    BY <1>1, <1>2, <1>3 DEF StampsGone, Erase, Doing, Spoiled, RemovedBy,
       NoTree
  <1>8. PatchesOK'
    BY <1>1, <1>2, <1>3 DEF PatchesOK, Erase, FontOK, RunOK, Doing,
       Without, Fresh, Decorated, PatchesAsRead, Stamp, Phony, Spoiled,
       NoTree
  <1>9. ArtworkOK'
    BY <1>1, <1>2, <1>3 DEF ArtworkOK, Erase, Doing, Without, Fresh,
       ArtworkAsRead, Spoiled, NoTree
  <1>10. CompiledOK'
    BY <1>1, <1>2, <1>3 DEF CompiledOK, Erase, Doing, Fresh, UpToDate,
       Stamp, KeepBuild, Spoiled, NoTree
  <1> QED BY <1>2, <1>3, <1>4, <1>5, <1>6, <1>7, <1>8, <1>9, <1>10

\* So does a removal that is killed: it is a known accident.
LEMMA EraseKilledKeeps ==
    ASSUME StampInv, EraseKilled
    PROVE  StampInv'
  <1> USE DEF StampInv
  <1>1. /\ line = 2 /\ Target = "clean" /\ walk # <<>> /\ Running
    BY LinePlace DEF EraseKilled
  <1>2. RunTypes' /\ RunOK' /\ line' = 0 /\ "clean" \in damage'
    BY StopStep DEF EraseKilled, RunOK, Spoiled
  <1>3. TypeOK'
    BY <1>1, <1>2 DEF TypeOK, EraseKilled, RunTypes, KeepBuild, Spoiled,
       Accident, Input
  <1>4. TreeOK'
    BY <1>1, <1>2 DEF TreeOK, EraseKilled, Doing, Without, Spoiled
  <1>5. FontOK'
    BY <1>1, <1>2 DEF FontOK, EraseKilled, Doing, Without, TypeOK, Spoiled
  <1>6. StampsGone'
    BY <1>1, <1>2 DEF StampsGone, EraseKilled, Doing, Spoiled, RemovedBy
  <1>7. PatchesOK'
    BY <1>1, <1>2 DEF PatchesOK, EraseKilled, FontOK, RunOK, Doing,
       Without, Fresh, Decorated, PatchesAsRead, Stamp, Phony, Spoiled
  <1>8. ArtworkOK'
    BY <1>1, <1>2 DEF ArtworkOK, EraseKilled, Doing, Without, Fresh,
       ArtworkAsRead, Spoiled
  <1>9. CompiledOK'
    BY <1>1, <1>2 DEF CompiledOK, EraseKilled, Doing, Fresh, UpToDate,
       Stamp, KeepBuild, Spoiled
  <1> QED BY <1>2, <1>3, <1>4, <1>5, <1>6, <1>7, <1>8, <1>9

(***************************************************************************)
(* make                                                                    *)
(***************************************************************************)
\* A kill between two lines keeps StampInv.
LEMMA KillKeeps ==
    ASSUME StampInv, Kill
    PROVE  StampInv'
  <1> USE DEF StampInv
  <1>1. line' = 0
    BY DEF Kill, Stop
  <1>2. RunTypes' /\ RunOK'
    BY StopStep DEF Kill, RunOK
  <1>3. TypeOK'
    BY <1>1, <1>2 DEF TypeOK, Kill, RunTypes, KeepBuild, Spoiled, Accident,
       Input, directory
  <1>4. TreeOK'
    BY <1>1, <1>2 DEF TreeOK, Kill, Doing, Without, Spoiled, directory
  <1>5. FontOK'
    BY <1>1, <1>2 DEF FontOK, Kill, Doing, Without, TypeOK, Spoiled,
       directory
  <1>6. StampsGone'
    BY <1>1, <1>2 DEF StampsGone, Kill, Doing, Spoiled, RemovedBy,
       directory
  <1>7. PatchesOK'
    BY <1>1, <1>2 DEF PatchesOK, Kill, FontOK, RunOK, Doing, Without,
       Fresh, Decorated, PatchesAsRead, Stamp, Phony, Spoiled, directory
  <1>8. ArtworkOK'
    BY <1>1, <1>2 DEF ArtworkOK, Kill, Doing, Without, Fresh,
       ArtworkAsRead, Spoiled, directory
  <1>9. CompiledOK'
    BY <1>1, <1>2 DEF CompiledOK, Kill, Doing, Fresh, UpToDate, Stamp,
       KeepBuild, Spoiled, directory, TypeOK
  <1> QED BY <1>2, <1>3, <1>4, <1>5, <1>6, <1>7, <1>8, <1>9

\* The end of a run keeps StampInv.
LEMMA FinishKeeps ==
    ASSUME StampInv, Finish
    PROVE  StampInv'
  <1> USE DEF StampInv
  <1>1. line' = line /\ walk' = <<>> /\ line = 0
    BY DEF Finish, RunOK, TypeOK
  <1>2. RunTypes' /\ RunOK' /\ line' = 0
    BY DEF Finish, RunOK, TypeOK, RunTypes, Running
  <1>3. TypeOK'
    BY <1>1, <1>2 DEF TypeOK, Finish, RunTypes, KeepBuild, Spoiled,
       Accident, Input, directory
  <1>4. TreeOK'
    BY <1>1, <1>2 DEF TreeOK, Finish, Doing, Without, Spoiled, directory
  <1>5. FontOK'
    BY <1>1, <1>2 DEF FontOK, Finish, Doing, Without, TypeOK, Spoiled,
       directory
  <1>6. StampsGone'
    BY <1>1, <1>2 DEF StampsGone, Finish, Doing, Spoiled, RemovedBy,
       directory
  <1>7. PatchesOK'
    BY <1>1, <1>2 DEF PatchesOK, Finish, FontOK, RunOK, Doing, Without,
       Fresh, Decorated, PatchesAsRead, Stamp, Phony, Spoiled, directory
  <1>8. ArtworkOK'
    BY <1>1, <1>2 DEF ArtworkOK, Finish, Doing, Without, Fresh,
       ArtworkAsRead, Spoiled, directory
  <1>9. CompiledOK'
    BY <1>1, <1>2 DEF CompiledOK, Finish, Doing, Fresh, UpToDate, Stamp,
       KeepBuild, Spoiled, directory
  <1> QED BY <1>2, <1>3, <1>4, <1>5, <1>6, <1>7, <1>8, <1>9

\* The start of a run keeps StampInv, for every goal.
LEMMA StartKeeps ==
    ASSUME StampInv, NEW g \in Goals, Start(g)
    PROVE  StampInv'
  <1> USE DEF StampInv
  <1>1. line' = 0
    BY DEF Start
  <1>2. RunTypes' /\ RunOK'
    <2>1. /\ walk' = Walk(g) /\ line' = 0 /\ outcome' = "running" /\ goal' = g
          /\ exists' = exists /\ old' = old
      BY DEF Start
    <2>2. g \in {"unpack", "patch.apply", "build"} \cup Phony
      BY GoalAssumption
    <2>3. /\ Walk(g) \in Seq(Stamp) \/ Walk(g) \in {<<p>> : p \in Phony}
          /\ Walk(g) \in Seq(Stamp \cup Phony)
          /\ Head(Walk(g)) \in {"unpack"} \cup Phony
      <3>1. CASE g = "unpack" BY <3>1 DEF Walk, Stamp, Phony
      <3>2. CASE g = "patch.apply" BY <3>2 DEF Walk, Stamp, Phony
      <3>3. CASE g = "build" BY <3>3 DEF Walk, Stamp, Phony
      <3>4. CASE g = "patch.unapply" BY <3>4 DEF Walk, Stamp, Phony
      <3>5. CASE g = "clean" BY <3>5 DEF Walk, Stamp, Phony
      <3> QED BY <2>2, <3>1, <3>2, <3>3, <3>4, <3>5 DEF Phony
    <2>4. RunTypes'
      BY <2>1, <2>3 DEF RunTypes
    <2> QED BY <2>1, <2>3, <2>4 DEF RunOK, Running, Target
  <1>3. TypeOK'
    BY <1>1, <1>2 DEF TypeOK, Start, RunTypes, KeepBuild, Spoiled,
       Accident, Input, directory
  <1>4. TreeOK'
    BY <1>1, <1>2 DEF TreeOK, Start, Doing, Without, Spoiled, directory
  <1>5. FontOK'
    BY <1>1, <1>2 DEF FontOK, Start, Doing, Without, TypeOK, Spoiled,
       directory
  <1>6. StampsGone'
    BY <1>1, <1>2 DEF StampsGone, Start, Doing, Spoiled, RemovedBy,
       directory
  <1>7. PatchesOK'
    BY <1>1, <1>2 DEF PatchesOK, Start, FontOK, RunOK, Doing, Without,
       Fresh, Decorated, PatchesAsRead, Stamp, Phony, Spoiled, directory
  <1>8. ArtworkOK'
    BY <1>1, <1>2 DEF ArtworkOK, Start, Doing, Without, Fresh,
       ArtworkAsRead, Spoiled, directory
  <1>9. CompiledOK'
    BY <1>1, <1>2 DEF CompiledOK, Start, Doing, Fresh, UpToDate, Stamp,
       KeepBuild, Spoiled, directory
  <1> QED BY <1>2, <1>3, <1>4, <1>5, <1>6, <1>7, <1>8, <1>9

\* Considering a target keeps StampInv: what is skipped is fresh.
LEMMA ConsiderKeeps ==
    ASSUME StampInv, Consider
    PROVE  StampInv'
  <1> USE DEF StampInv
  <1>1. line' = 1 \/ line' = 0
    BY DEF Consider
  <1>2. RunTypes' /\ RunOK'
    <2>1. /\ Running /\ line = 0 /\ walk # <<>> /\ outcome' = outcome /\ goal' = goal
          /\ exists' = exists /\ old' = old
          /\ walk \in Seq(Stamp \cup Phony) /\ Target \in Stamp \cup Phony
      BY DEF Consider, TypeOK, Target
    <2>2. CASE Fresh(Target)
      <3>1. walk' = Tail(walk) /\ line' = 0 /\ Target \in exists
        BY <2>1, <2>2 DEF Consider, Fresh
      <3>2. walk \in Seq(Stamp)
        BY <2>1, <3>1 DEF RunOK, TypeOK, Target, Stamp, Phony
      <3>3. walk' \in Seq(Stamp) /\ walk' \in Seq(Stamp \cup Phony)
        BY <2>1, <3>1, <3>2
      <3>4. "unpack" \in exists
        BY <2>1, <3>1 DEF RunOK, TypeOK, Stamp, Phony
      <3> QED BY <2>1, <3>1, <3>3, <3>4 DEF RunOK, RunTypes, TypeOK, Running
    <2>3. CASE ~Fresh(Target)
      <3>1. walk' = walk /\ line' = 1 /\ Target' = Target
        BY <2>3 DEF Consider, Target
      <3>2. 1 <= Len(Recipe(Target))
        BY <2>1 DEF Recipe, UnapplyLines, Stamp, Phony
      <3>3. RunTypes'
        BY <2>1, <3>1 DEF RunTypes, TypeOK
      <3> QED BY <2>1, <2>3, <3>1, <3>2, <3>3 DEF RunOK, Running, Fresh
    <2> QED BY <2>2, <2>3
  <1>3. TypeOK'
    BY <1>1, <1>2 DEF TypeOK, Consider, RunTypes, KeepBuild, Spoiled,
       Accident, Input, directory
  <1>4. TreeOK'
    BY <1>1, <1>2 DEF TreeOK, Consider, Doing, Without, Spoiled, directory
  <1>5. FontOK'
    BY <1>1, <1>2 DEF FontOK, Consider, Doing, Without, TypeOK, Spoiled,
       directory
  <1>6. StampsGone'
    BY <1>1, <1>2 DEF StampsGone, Consider, Doing, Spoiled, RemovedBy,
       directory
  <1>7. PatchesOK'
    BY <1>1, <1>2 DEF PatchesOK, Consider, FontOK, RunOK, Doing, Without,
       Fresh, Decorated, PatchesAsRead, Stamp, Phony, Spoiled, directory
  <1>8. ArtworkOK'
    BY <1>1, <1>2 DEF ArtworkOK, Consider, Doing, Without, Fresh,
       ArtworkAsRead, Spoiled, directory
  <1>9. CompiledOK'
    BY <1>1, <1>2 DEF CompiledOK, Consider, Doing, Fresh, UpToDate, Stamp,
       KeepBuild, Spoiled, directory
  <1> QED BY <1>2, <1>3, <1>4, <1>5, <1>6, <1>7, <1>8, <1>9

\* Removing stamps keeps StampInv.
LEMMA RemoveStampsKeeps ==
    ASSUME StampInv, RemoveStamps
    PROVE  StampInv'
  <1> USE DEF StampInv
  <1>1. /\ <<Target, line>> \in {<<"unpack", 4>>, <<"patch.apply", 5>>,
                                 <<"patch.unapply", 3>>, <<"clean", 1>>}
        /\ walk # <<>> /\ Running /\ line \in Nat
        /\ Target \in Stamp => ~Fresh(Target)
    BY AtLine, LinePlace, RecipeLines DEF RemoveStamps, TypeOK
  <1>2. /\ RunTypes' /\ RunOK'
        /\ line' > 0 => line' = line + 1 /\ Target' = Target
    <2>1. /\ At("rm") /\ GoOn /\ "unpack" \notin old'
          /\ (exists' \ old') \subseteq (exists \ old)
          /\ "unpack" \in exists => "unpack" \in exists'
      BY DEF RemoveStamps, RunOK, RemovedBy, UnpackedAnew
    <2> QED BY <2>1, GoOnStep
  <1>3. exists' # Stamp
    BY <1>1 DEF RemoveStamps, RemovedBy, UnpackedAnew, Stamp
  <1>4. TypeOK'
    BY <1>1, <1>2, <1>3 DEF TypeOK, RemoveStamps, RunTypes, KeepBuild,
       Spoiled, Accident, Input, directory, UnpackedAnew
  <1>5. TreeOK'
    BY <1>1, <1>2, <1>3 DEF TreeOK, RemoveStamps, Doing, Without, Spoiled,
       directory, UnpackedAnew
  <1>6. FontOK'
    BY <1>1, <1>2, <1>3 DEF FontOK, RemoveStamps, Doing, Without, TypeOK,
       Spoiled, directory, UnpackedAnew
  <1>7. StampsGone'
    BY <1>1, <1>2, <1>3 DEF StampsGone, RemoveStamps, Doing, Spoiled,
       RemovedBy, directory, UnpackedAnew
  <1>8. PatchesOK'
    BY <1>1, <1>2, <1>3 DEF PatchesOK, RemoveStamps, FontOK, RunOK, Doing,
       Without, Fresh, Decorated, PatchesAsRead, Stamp, Phony, Spoiled,
       directory, UnpackedAnew
  <1>9. ArtworkOK'
    BY <1>1, <1>2, <1>3 DEF ArtworkOK, RemoveStamps, Doing, Without, Fresh,
       ArtworkAsRead, Spoiled, directory, UnpackedAnew
  <1>10. CompiledOK'
    BY <1>1, <1>2, <1>3 DEF CompiledOK, RemoveStamps, Doing, Fresh,
       UpToDate, Stamp, KeepBuild, Spoiled, directory, UnpackedAnew
  <1> QED BY <1>2, <1>3, <1>4, <1>5, <1>6, <1>7, <1>8, <1>9, <1>10

\* Touching a stamp keeps StampInv: its promise has been built up.
LEMMA TouchKeeps ==
    ASSUME StampInv, Touch
    PROVE  StampInv'
  <1> USE DEF StampInv
  <1>1. /\ Target \in Stamp /\ line = Len(Recipe(Target))
        /\ walk # <<>> /\ Running
        /\ Target = "unpack" => line = 5
        /\ Target = "patch.apply" => line = 6
        /\ Target \in {"artwork.install", "build"} => line = 2
        /\ Target # "unpack" => "unpack" \in exists
    BY AtLine, LinePlace, RecipeLines DEF Touch, RunOK, Stamp, Phony
  <1>2. /\ RunTypes' /\ RunOK' /\ line' = 0 /\ line > 0 /\ "unpack" \in exists'
        /\ "unpack" \notin old'
    <2>1. /\ walk' = Tail(walk) /\ line' = 0 /\ goal' = goal /\ outcome' = outcome
          /\ line > 0
      BY <1>1 DEF Touch, GoOn, At
    <2>2. "unpack" \in exists' /\ "unpack" \notin old'
      BY <1>1 DEF Touch, RunOK, Dependents, Prerequisites, Prepared
    <2>3. walk \in Seq(Stamp)
      BY <1>1 DEF RunOK, TypeOK, Target, Stamp, Phony
    <2>4. walk' \in Seq(Stamp) /\ walk' \in Seq(Stamp \cup Phony)
      BY <1>1, <2>1, <2>3
    <2>5. RunTypes'
      BY <2>1, <2>4 DEF RunTypes, TypeOK
    <2> QED BY <2>1, <2>2, <2>4, <2>5 DEF RunOK
  <1>3. exists' = Stamp /\ old' = {} => Target = "build"
    <2>1. Target # "build" => \E s \in Dependents(Target) : s # Target
      <3>1. Target \in Prepared => "build_prepared" \in Dependents(Target)
        BY DEF Dependents, Prerequisites, Stamp
      <3>2. Target = "build_prepared" => "build" \in Dependents(Target)
        BY DEF Dependents, Prerequisites, Stamp
      <3> QED BY <1>1, <3>1, <3>2 DEF Prepared, Stamp
    <2> QED BY <2>1 DEF Touch, Dependents
  <1>4. TypeOK'
    BY <1>1, <1>2, <1>3 DEF TypeOK, Touch, RunTypes, KeepBuild, Spoiled,
       Accident, Input, directory, Dependents, Prerequisites, Prepared
  <1>5. TreeOK'
    <2>1. /\ tree' = tree /\ damage' \subseteq damage
          /\ \A k \in {"mv", "clean"} : k \in damage => k \in damage'
          /\ Target # "unpack" => "unpack" \in exists
      BY <1>1 DEF Touch, directory
    <2>2. tree = "full" \/ ~Without({"mv", "clean"})
      BY <1>1, <1>2, <2>1 DEF TreeOK, Doing
    <2> QED BY <1>2, <2>1, <2>2 DEF TreeOK, Doing, Without
  <1>6. FontOK'
    <2>1. /\ font' = font /\ bak' = bak
          /\ \A k \in {"fonts", "mv", "clean"} : k \in damage => k \in damage'
      BY DEF Touch, directory
    <2>2. Without({"fonts", "mv", "clean"})' => Without({"fonts", "mv", "clean"})
      BY <2>1 DEF Without
    <2>3. CASE Target = "unpack"
      <3>1. bak = "none"
        BY <1>1, <2>3 DEF FontOK, Doing
      <3>2. Without({"fonts", "mv", "clean"}) => font = "orig"
        <4>1. Doing("unpack") /\ line > 3
          <5>1. line = 5
            BY <1>1, <2>3
          <5> QED BY <5>1, <2>3 DEF Doing
        <4>2. /\ Without({"fonts", "mv", "clean"})
              /\ Doing("unpack") /\ line > 3
              => font = "orig"
          BY DEF FontOK
        <4> QED BY <4>1, <4>2
      <3>3. font = "munged" => ~Without({"fonts", "mv", "clean"})
        BY <3>2
      <3> QED BY <1>2, <2>1, <2>2, <3>1, <3>2, <3>3 DEF FontOK, Doing
    <2>4. CASE Target # "unpack"
      <3>1. "unpack" \in exists
        BY <1>1, <2>4
      <3> QED BY <1>2, <2>1, <2>2, <3>1 DEF FontOK, Doing
    <2> QED BY <2>3, <2>4
  <1>7. StampsGone'
    BY <1>1, <1>2, <1>3 DEF StampsGone, Touch, Doing, Spoiled, RemovedBy,
       directory, Dependents, Prerequisites, Prepared
  <1>8. PatchesOK'
    <2>1. /\ font' = font /\ bak' = bak /\ applied' = applied /\ missed' = missed
          /\ \A k \in {"fonts", "records", "mv", "clean"} :
               k \in damage => k \in damage'
          /\ Target # "patch.apply" => damage' = damage
          /\ exists' \ old' \subseteq (exists \ old) \cup {Target}
      BY DEF Touch, directory
    <2>2. CASE Target = "patch.apply"
      <3>1. /\ Without({"fonts", "mv", "clean"}) => Decorated
            /\ Without({"records", "mv", "clean"}) => PatchesAsRead
        <4>1. line = 6
          BY <1>1, <2>2
        <4> QED BY <4>1, <2>2 DEF PatchesOK, Doing
      <3> QED BY <1>2, <2>1, <3>1 DEF PatchesOK, Doing, Without, Decorated,
                                      PatchesAsRead
    <2>3. CASE Target = "unpack"
      <3>1. "patch.apply" \notin exists
        <4>1. line = 5
          BY <1>1, <2>3
        <4> QED BY <4>1, <2>3 DEF StampsGone, Doing, RemovedBy, UnpackedAnew
      <3>2. ~Fresh("patch.apply")'
        BY <2>1, <2>3, <3>1 DEF Fresh
      <3> QED BY <1>2, <3>2 DEF PatchesOK, Doing
    <2>4. CASE Target \notin {"patch.apply", "unpack"}
      <3>1. /\ Fresh("patch.apply")' => Fresh("patch.apply")
            /\ "unpack" \in exists
            /\ damage' = damage
        BY <1>1, <2>1, <2>4 DEF Fresh
      <3> QED BY <1>2, <2>1, <3>1 DEF PatchesOK, Doing, Without, Decorated,
                                      PatchesAsRead
    <2> QED BY <2>2, <2>3, <2>4
  <1>9. ArtworkOK'
    <2>1. /\ art' = art /\ missed' = missed /\ line' = 0 /\ line > 0
          /\ \A k \in {"mv", "copy", "clean"} : k \in damage => k \in damage'
      BY <1>2 DEF Touch, directory
    <2>2. ASSUME Without({"mv", "copy", "clean"})', Fresh("artwork.install")'
          PROVE  ArtworkAsRead
      <3>1. Without({"mv", "copy", "clean"})
        BY <2>1, <2>2 DEF Without
      <3>2. CASE Target = "artwork.install"
        BY <1>1, <2>1, <3>1, <3>2 DEF ArtworkOK, Doing
      <3>3. CASE Target = "unpack"
        <4>1. "artwork.install" \notin exists
          <5>1. "artwork.install" \in RemovedBy("unpack")
            BY DEF RemovedBy, UnpackedAnew
          <5>2. line = 5
            BY <1>1, <3>3
          <5>3. Doing("unpack") /\ line > 4
            BY <3>3, <5>2 DEF Doing
          <5> QED BY <5>1, <5>3 DEF StampsGone
        <4> QED BY <2>2, <3>3, <4>1 DEF Touch, Fresh
      <3>4. CASE Target \notin {"unpack", "artwork.install"}
        BY <1>1, <2>2, <3>1, <3>4 DEF ArtworkOK, Touch, Fresh
      <3> QED BY <3>2, <3>3, <3>4
    <2> QED BY <2>1, <2>2 DEF ArtworkOK, ArtworkAsRead, Doing
  <1>10. CompiledOK'
    BY <1>1, <1>2, <1>3 DEF CompiledOK, Touch, Doing, Fresh, UpToDate,
       Stamp, KeepBuild, Spoiled, directory, Touch
  <1> QED BY <1>2, <1>3, <1>4, <1>5, <1>6, <1>7, <1>8, <1>9, <1>10

\* An edit of the patches keeps StampInv.
LEMMA EditPatchesKeeps ==
    ASSUME StampInv, EditPatches
    PROVE  StampInv'
  <1> USE DEF StampInv
  <1>1. /\ walk' = walk /\ line' = line /\ Target' = Target /\ exists' = exists
        /\ old \subseteq old' /\ old' \subseteq exists /\ "unpack" \notin old'
        /\ "patch.apply" \in exists => "patch.apply" \in old'
    BY DEF EditPatches, run, Target, TypeOK, RunOK
  <1>2. RunTypes' /\ RunOK'
    BY <1>1 DEF EditPatches, run, RunOK, TypeOK, RunTypes, Running, Fresh
  <1>3. TypeOK'
    BY <1>1, <1>2 DEF TypeOK, EditPatches, RunTypes, KeepBuild, Spoiled,
       Accident, Input, directory, run, Aged
  <1>4. TreeOK'
    BY <1>1, <1>2 DEF TreeOK, EditPatches, Doing, Without, Spoiled,
       directory, run, Aged
  <1>5. FontOK'
    BY <1>1, <1>2 DEF FontOK, EditPatches, Doing, Without, TypeOK, Spoiled,
       directory, run, Aged
  <1>6. StampsGone'
    BY <1>1, <1>2 DEF StampsGone, EditPatches, Doing, Spoiled, RemovedBy,
       directory, run, Aged
  <1>7. PatchesOK'
    BY <1>1, <1>2 DEF PatchesOK, EditPatches, FontOK, RunOK, Doing,
       Without, Fresh, Decorated, PatchesAsRead, Stamp, Phony, Spoiled,
       directory, run, Aged
  <1>8. ArtworkOK'
    BY <1>1, <1>2 DEF ArtworkOK, EditPatches, Doing, Without, Fresh,
       ArtworkAsRead, Spoiled, directory, run, Aged, RunOK, Stamp
  <1>9. CompiledOK'
    BY <1>1, <1>2 DEF CompiledOK, EditPatches, Doing, Fresh, UpToDate,
       Stamp, KeepBuild, Spoiled, directory, run, Aged
  <1> QED BY <1>2, <1>3, <1>4, <1>5, <1>6, <1>7, <1>8, <1>9

\* An edit of the artwork keeps StampInv.
LEMMA EditArtworkKeeps ==
    ASSUME StampInv, EditArtwork
    PROVE  StampInv'
  <1> USE DEF StampInv
  <1>1. /\ walk' = walk /\ line' = line /\ Target' = Target /\ exists' = exists
        /\ old \subseteq old' /\ old' \subseteq exists /\ "unpack" \notin old'
        /\ "artwork.install" \in exists => "artwork.install" \in old'
    BY DEF EditArtwork, run, Target, TypeOK, RunOK
  <1>2. RunTypes' /\ RunOK'
    BY <1>1 DEF EditArtwork, run, RunOK, TypeOK, RunTypes, Running, Fresh
  <1>3. TypeOK'
    BY <1>1, <1>2 DEF TypeOK, EditArtwork, RunTypes, KeepBuild, Spoiled,
       Accident, Input, directory, run, Aged
  <1>4. TreeOK'
    BY <1>1, <1>2 DEF TreeOK, EditArtwork, Doing, Without, Spoiled,
       directory, run, Aged
  <1>5. FontOK'
    BY <1>1, <1>2 DEF FontOK, EditArtwork, Doing, Without, TypeOK, Spoiled,
       directory, run, Aged
  <1>6. StampsGone'
    BY <1>1, <1>2 DEF StampsGone, EditArtwork, Doing, Spoiled, RemovedBy,
       directory, run, Aged
  <1>7. PatchesOK'
    BY <1>1, <1>2 DEF PatchesOK, EditArtwork, FontOK, RunOK, Doing,
       Without, Fresh, Decorated, PatchesAsRead, Stamp, Phony, Spoiled,
       directory, run, Aged
  <1>8. ArtworkOK'
    BY <1>1, <1>2 DEF ArtworkOK, EditArtwork, Doing, Without, Fresh,
       ArtworkAsRead, Spoiled, directory, run, Aged, RunOK, Stamp
  <1>9. CompiledOK'
    BY <1>1, <1>2 DEF CompiledOK, EditArtwork, Doing, Fresh, UpToDate,
       Stamp, KeepBuild, Spoiled, directory, run, Aged
  <1> QED BY <1>2, <1>3, <1>4, <1>5, <1>6, <1>7, <1>8, <1>9

\* Removing the stamp of unpack or the tree keeps StampInv.
LEMMA RemovalKeeps ==
    ASSUME StampInv, ForgetUnpack \/ RemoveTree
    PROVE  StampInv'
  <1> USE DEF StampInv
  <1>1. line = 0 /\ line' = 0 /\ "unpack" \notin exists'
    BY DEF ForgetUnpack, RemoveTree, NoTree, RunOK, TypeOK, Running
  <1>2. RunTypes' /\ RunOK'
    BY <1>1 DEF ForgetUnpack, RemoveTree, NoTree, RunOK, TypeOK, RunTypes, Running
  <1>3. TypeOK'
    <2>1. exists' \subseteq Stamp /\ old' \subseteq exists'
      BY <1>1, <1>2 DEF TypeOK, ForgetUnpack, RemoveTree, NoTree, directory
    <2>2. /\ tree' \in {"none", "part", "full"}
          /\ applied' \in {"none", "mixed", "stale", "current"}
          /\ font' \in {"gone", "part", "orig", "munged"}
          /\ bak' \in {"none", "part", "orig", "munged"}
          /\ art' \in {"none", "part", "stale", "current"}
      BY DEF TypeOK, ForgetUnpack, RemoveTree, NoTree, directory
    <2>3. compiled' \in BOOLEAN
      BY DEF TypeOK, KeepBuild, ForgetUnpack, RemoveTree, NoTree, directory
    <2>4. missed' \subseteq Input /\ damage' \subseteq Accident
      BY DEF TypeOK, Spoiled, Accident, ForgetUnpack, RemoveTree, NoTree,
         directory
    <2> QED BY <1>2, <2>1, <2>2, <2>3, <2>4 DEF TypeOK, RunTypes
  <1>4. TreeOK'
    BY <1>1, <1>2 DEF TreeOK, ForgetUnpack, RemoveTree, Doing, Without,
       Spoiled, directory, NoTree
  <1>5. FontOK'
    BY <1>1, <1>2 DEF FontOK, ForgetUnpack, RemoveTree, Doing, Without,
       TypeOK, Spoiled, directory, NoTree
  <1>6. StampsGone'
    BY <1>1, <1>2 DEF StampsGone, ForgetUnpack, RemoveTree, Doing, Spoiled,
       RemovedBy, directory, NoTree
  <1>7. PatchesOK'
    BY <1>1, <1>2 DEF PatchesOK, ForgetUnpack, RemoveTree, FontOK, RunOK,
       Doing, Without, Fresh, Decorated, PatchesAsRead, Stamp, Phony,
       Spoiled, directory, NoTree
  <1>8. ArtworkOK'
    BY <1>1, <1>2 DEF ArtworkOK, ForgetUnpack, RemoveTree, Doing, Without,
       Fresh, ArtworkAsRead, Spoiled, directory, NoTree
  <1>9. CompiledOK'
    BY <1>1, <1>2 DEF CompiledOK, ForgetUnpack, RemoveTree, Doing, Fresh,
       UpToDate, Stamp, KeepBuild, Spoiled, directory, NoTree
  <1> QED BY <1>2, <1>3, <1>4, <1>5, <1>6, <1>7, <1>8, <1>9

(***************************************************************************)
(* The theorems                                                            *)
(***************************************************************************)
\* StampInv holds before the first run.
LEMMA InitHolds ==
    Init => StampInv
  <1> SUFFICES ASSUME Init PROVE StampInv
    OBVIOUS
  <1>1. walk = <<>> /\ walk \in Seq(Stamp) /\ walk \in Seq(Stamp \cup Phony)
    BY EmptySeq DEF Init
  <1>2. TypeOK
    <2>1. compiled \in BOOLEAN
      BY DEF Init
    <2>2. exists \subseteq Stamp /\ old \subseteq exists
      BY DEF Init
    <2>3. missed \subseteq Input /\ damage \subseteq Accident
      BY DEF Init
    <2>4. /\ tree \in {"none", "part", "full"}
          /\ applied \in {"none", "mixed", "stale", "current"}
          /\ font \in {"gone", "part", "orig", "munged"}
          /\ bak \in {"none", "part", "orig", "munged"}
          /\ art \in {"none", "part", "stale", "current"}
          /\ goal \in Goals \cup {"none"}
          /\ outcome \in {"none", "running", "done"}
          /\ line \in 0..6
      BY DEF Init
    <2> QED BY <1>1, <2>1, <2>2, <2>3, <2>4 DEF TypeOK
  <1>3. RunOK
    BY <1>1 DEF Init, RunOK, Running
  <1>4. TreeOK /\ FontOK /\ StampsGone /\ PatchesOK /\ ArtworkOK /\ CompiledOK
    BY DEF Init, TreeOK, FontOK, StampsGone, PatchesOK, ArtworkOK, CompiledOK,
       Doing, Fresh, UpToDate, Stamp
  <1> QED BY <1>2, <1>3, <1>4 DEF StampInv

\* A step that changes no variable keeps StampInv.
LEMMA StutterKeeps ==
    ASSUME StampInv, UNCHANGED vars
    PROVE  StampInv'
  BY DEF StampInv, vars, directory, run, TypeOK, RunOK, TreeOK, FontOK,
     StampsGone, PatchesOK, ArtworkOK, CompiledOK, Running, Target, Doing,
     Without, Fresh, UpToDate, Decorated, PatchesAsRead, ArtworkAsRead

\* What the stamps promise holds in every run of make, whatever fails or is
\* killed and however the developer edits in between (StampInv).
THEOREM StampsKeepTheirPromise ==
    Spec => []StampInv
  <1>1. Init => StampInv
    BY InitHolds
  <1>2. StampInv /\ [Next]_vars => StampInv'
    <2> SUFFICES ASSUME StampInv, [Next]_vars PROVE StampInv'
      OBVIOUS
    <2>1. CASE Make
      BY <2>1, ConsiderKeeps, FinishKeeps, TouchKeeps, RemoveStampsKeeps,
         KillKeeps DEF Make
    <2>2. CASE Transform
      BY <2>2, RevertKeeps, BackUpKeeps, MungeKeeps DEF Transform
    <2>3. CASE ApplyPl
      BY <2>3, PatchKeeps, UnpatchKeeps, ApplyPlStopsKeeps DEF ApplyPl
    <2>4. CASE Scripts
      BY <2>4, UnpackKeeps, InstallKeeps, BuildToolsKeeps, CompileKeeps,
         EraseKeeps, EraseKilledKeeps DEF Scripts
    <2>5. CASE Developer
      BY <2>5, StartKeeps, EditPatchesKeeps, EditArtworkKeeps, RemovalKeeps
         DEF Developer
    <2>6. CASE UNCHANGED vars
      BY <2>6, StutterKeeps
    <2> QED BY <2>1, <2>2, <2>3, <2>4, <2>5, <2>6 DEF Next
  <1> QED BY <1>1, <1>2, PTL DEF Spec

\* A build that make believes up to date is one of the present patches and
\* artwork (BuiltFromCurrent).
THEOREM UpToDateIsCurrent ==
    Spec => []BuiltFromCurrent
  <1>1. StampInv => BuiltFromCurrent
    <2> SUFFICES ASSUME StampInv, UpToDate, damage = {}
                 PROVE  /\ tree = "full" /\ compiled /\ Decorated
                        /\ PatchesAsRead /\ ArtworkAsRead
      BY DEF BuiltFromCurrent, Decorated, PatchesAsRead, ArtworkAsRead
    <2>1. /\ "unpack" \in exists /\ Fresh("patch.apply")
          /\ Fresh("artwork.install")
      BY DEF UpToDate, Fresh, Stamp
    <2> QED BY <2>1 DEF StampInv, TreeOK, PatchesOK, ArtworkOK, CompiledOK, Without
  <1> QED BY <1>1, StampsKeepTheirPromise, PTL

\* apply.pl never meets munged font files (PatchesMeetOriginalFonts).
THEOREM FontsAreReverted ==
    Spec => []PatchesMeetOriginalFonts
  <1>1. StampInv => PatchesMeetOriginalFonts
    <2> SUFFICES ASSUME StampInv, At("patch") \/ At("unpatch")
                 PROVE  /\ bak = "none"
                        /\ damage = {} \/ damage = {"unapply"} => font # "munged"
      BY DEF PatchesMeetOriginalFonts
    <2>1. line = 2 /\ Target \in {"unpack", "patch.apply", "patch.unapply"}
      BY LinePlace DEF StampInv
    <2>2. bak = "none"
      BY <2>1 DEF StampInv, FontOK, Doing
    <2> QED BY <2>2 DEF StampInv, FontOK, Without
  <1> QED BY <1>1, StampsKeepTheirPromise, PTL

-----------------------------------------------------------------------------
(***************************************************************************)
(* What a goal of Makefile.shared promises when make has ended well: make  *)
(* leaves nothing to do, and make patch.unapply leaves the sources as they *)
(* were unpacked.                                                          *)
(***************************************************************************)
(***************************************************************************)
(* The walk of make                                                        *)
(***************************************************************************)
\* What is left of a walk keeps its order.
LEMMA TailOfWalk ==
    ASSUME TypeOK, walk # <<>>, walk' = Tail(walk)
    PROVE  /\ walk' \in Seq(Stamp \cup Phony)
           /\ \A i \in DOMAIN walk' :
                i + 1 \in DOMAIN walk /\ walk'[i] = walk[i + 1] /\ Ahead(i)' = Ahead(i + 1)
           /\ {walk'[i] : i \in DOMAIN walk'} = Ahead(1)
           /\ Passed' = Stamp \ Ahead(1)
           /\ Passed' \subseteq Passed \cup {Target}
           /\ 1 \in DOMAIN walk /\ Target = walk[1]
<1>1. /\ walk \in Seq(Stamp \cup Phony) /\ Len(walk) \in Nat \ {0}
      /\ DOMAIN walk = 1 .. Len(walk)
  BY EmptySeq DEF TypeOK
<1>2. /\ walk' \in Seq(Stamp \cup Phony) /\ Len(walk') = Len(walk) - 1
      /\ DOMAIN walk' = 1 .. Len(walk) - 1
      /\ \A i \in 1 .. Len(walk) - 1 : walk'[i] = walk[i + 1]
  BY <1>1, HeadTailProperties
<1>3. Target = walk[1] /\ 1 \in DOMAIN walk
  BY <1>1 DEF Target
<1>4. ASSUME NEW i \in DOMAIN walk'
      PROVE  i + 1 \in DOMAIN walk /\ walk'[i] = walk[i + 1] /\ Ahead(i)' = Ahead(i + 1)
  <2>1. i + 1 \in DOMAIN walk /\ walk'[i] = walk[i + 1] /\ i \in Nat
    BY <1>1, <1>2
  <2>2. ASSUME NEW x \in Ahead(i)' PROVE x \in Ahead(i + 1)
    <3>1. PICK j \in i + 1 .. Len(walk) - 1 : x = walk'[j]
      BY <1>2 DEF Ahead
    <3>2. j + 1 \in i + 2 .. Len(walk) /\ x = walk[j + 1]
      BY <1>1, <1>2, <2>1, <3>1
    <3>3. QED
      BY <2>1, <3>2 DEF Ahead
  <2>3. ASSUME NEW x \in Ahead(i + 1) PROVE x \in Ahead(i)'
    <3>1. PICK j \in i + 2 .. Len(walk) : x = walk[j]
      BY <2>1 DEF Ahead
    <3>2. j - 1 \in i + 1 .. Len(walk) - 1 /\ x = walk'[j - 1]
      BY <1>1, <1>2, <2>1, <3>1
    <3>3. QED
      BY <1>2, <3>2 DEF Ahead
  <2>4. QED
    BY <2>1, <2>2, <2>3
<1>5. {walk'[i] : i \in DOMAIN walk'} = Ahead(1)
  <2>1. ASSUME NEW j \in 2 .. Len(walk)
        PROVE  j - 1 \in DOMAIN walk' /\ walk'[j - 1] = walk[j]
    BY <1>1, <1>2
  <2>2. ASSUME NEW x \in Ahead(1) PROVE x \in {walk'[i] : i \in DOMAIN walk'}
    <3>1. PICK j \in 2 .. Len(walk) : x = walk[j]
      BY DEF Ahead
    <3>2. QED
      BY <2>1, <3>1
  <2>3. ASSUME NEW i \in DOMAIN walk' PROVE walk'[i] \in Ahead(1)
    <3>1. walk'[i] = walk[i + 1] /\ i + 1 \in 2 .. Len(walk)
      BY <1>1, <1>2
    <3>2. QED
      BY <3>1 DEF Ahead
  <2>4. QED
    BY <2>2, <2>3
<1>6. Passed' = Stamp \ Ahead(1)
  BY <1>5 DEF Passed
<1>7. Passed' \subseteq Passed \cup {Target}
  <2>1. \A i \in DOMAIN walk : i = 1 \/ i \in 2 .. Len(walk)
    BY <1>1
  <2>2. QED
    BY <1>3, <1>6, <2>1 DEF Passed, Ahead
<1>8. QED
  BY <1>2, <1>3, <1>4, <1>5, <1>6, <1>7

\* A step that leaves the walk and the stamps alone.
LEMMA QuietWalk ==
    ASSUME WalkOK, UNCHANGED <<exists, old, walk, goal>>,
           outcome' = "done" => outcome = "done" \/ walk = <<>>
    PROVE  WalkOK'
BY DEF WalkOK, Ahead, Passed

\* A run that was stopped promises nothing.
LEMMA StoppedWalk == ASSUME goal' = "none", outcome' = "none" PROVE WalkOK'
BY DEF WalkOK

\* A line that goes on, or stops the run, and leaves the stamps alone.
LEMMA LineWalk ==
    ASSUME TypeOK, RunOK, WalkOK, NEW l, At(l), GoOn \/ Stop,
           l \notin {"touch", "rm", "erase"}, exists' = exists, old' = old
    PROVE  WalkOK'
<1>1. CASE Stop
  BY <1>1, StoppedWalk DEF Stop
<1>2. CASE GoOn
  BY <1>2, LineGoesOn, QuietWalk DEF GoOn
<1>3. QED
  BY <1>1, <1>2

LEMMA StartWalk ==
    ASSUME TypeOK, NEW g \in Goals, Start(g) PROVE WalkOK'
<1> SUFFICES ASSUME g = "build"
             PROVE  /\ \A i \in DOMAIN walk' :
                         /\ walk'[i] \in Stamp
                         /\ Dependents(walk'[i]) \cup RemovedBy(walk'[i]) \subseteq Ahead(i)'
                    /\ Passed' = {}
  BY DEF Start, WalkOK
<1>1. walk' = <<"unpack", "patch.apply", "prebuild", "artwork.install",
                "build.tools", "build_prepared", "build">>
  BY DEF Start, Walk
<1>2. DOMAIN walk' = 1 .. 7 /\ Len(walk') = 7
  BY <1>1
<1>3. /\ walk'[1] = "unpack" /\ walk'[2] = "patch.apply" /\ walk'[3] = "prebuild"
      /\ walk'[4] = "artwork.install" /\ walk'[5] = "build.tools"
      /\ walk'[6] = "build_prepared" /\ walk'[7] = "build"
  BY <1>1
<1>4. Passed' = {}
  BY <1>2, <1>3 DEF Passed, Stamp
<1>5. ASSUME NEW i \in 1 .. 7
      PROVE  /\ walk'[i] \in Stamp
             /\ Dependents(walk'[i]) \cup RemovedBy(walk'[i])
                  \subseteq {walk'[j] : j \in i + 1 .. 7}
  <2>1. i \in {1, 2, 3, 4, 5, 6, 7}
    OBVIOUS
  <2>2. CASE i = 1
    <3>1. Dependents(walk'[i]) \cup RemovedBy(walk'[i])
            = {"prebuild", "artwork.install", "build_prepared", "build", "patch.apply"}
      BY <1>3, <2>2 DEF Dependents, Prerequisites, Prepared, RemovedBy, UnpackedAnew, Stamp
    <3>2. QED
      BY <1>3, <2>2, <3>1 DEF Stamp
  <2>3. CASE i = 2
    <3>1. Dependents(walk'[i]) \cup RemovedBy(walk'[i]) = {"build_prepared", "build"}
      BY <1>3, <2>3 DEF Dependents, Prerequisites, Prepared, RemovedBy, Stamp
    <3>2. QED
      BY <1>3, <2>3, <3>1 DEF Stamp
  <2>4. CASE i = 3
    <3>1. Dependents(walk'[i]) \cup RemovedBy(walk'[i])
            = {"artwork.install", "build.tools", "build_prepared"}
      BY <1>3, <2>4 DEF Dependents, Prerequisites, Prepared, RemovedBy, Stamp
    <3>2. QED
      BY <1>3, <2>4, <3>1 DEF Stamp
  <2>5. CASE i \in {4, 5}
    <3>1. Dependents(walk'[i]) \cup RemovedBy(walk'[i]) = {"build_prepared"}
      BY <1>3, <2>5 DEF Dependents, Prerequisites, Prepared, RemovedBy, Stamp
    <3>2. QED
      BY <1>3, <2>5, <3>1 DEF Stamp
  <2>6. CASE i \in {6, 7}
    <3>1. Dependents(walk'[i]) \cup RemovedBy(walk'[i]) \subseteq {"build"}
      BY <1>3, <2>6 DEF Dependents, Prerequisites, Prepared, RemovedBy, Stamp
    <3>2. i = 7 => Dependents(walk'[i]) \cup RemovedBy(walk'[i]) = {}
      BY <1>3 DEF Dependents, Prerequisites, Prepared, RemovedBy, Stamp
    <3>3. QED
      BY <1>3, <2>6, <3>1, <3>2 DEF Stamp
  <2>7. QED
    BY <2>1, <2>2, <2>3, <2>4, <2>5, <2>6
<1>6. QED
  BY <1>2, <1>4, <1>5 DEF Ahead

\* The target make goes by is fresh.
LEMMA ConsiderWalk ==
    ASSUME TypeOK, RunOK, WalkOK, Consider PROVE WalkOK'
<1>1. UNCHANGED <<exists, old, goal, outcome>> /\ outcome # "done" /\ walk # <<>>
  BY DEF Consider, Running
<1>2. CASE walk' = walk
  BY <1>1, <1>2, QuietWalk
<1>3. CASE walk' = Tail(walk) /\ Fresh(Target)
  <2> SUFFICES ASSUME goal = "build" PROVE WalkOK'
    BY <1>1 DEF WalkOK
  <2>1. /\ \A i \in DOMAIN walk' :
             /\ walk'[i] \in Stamp
             /\ Dependents(walk'[i]) \cup RemovedBy(walk'[i]) \subseteq Ahead(i)'
        /\ Passed' \subseteq Passed \cup {Target}
    BY <1>1, <1>3, TailOfWalk DEF WalkOK
  <2>2. Passed' \subseteq exists' /\ old' \cap Passed' \subseteq Edited
    BY <1>1, <1>3, <2>1 DEF WalkOK, Fresh
  <2>3. QED
    BY <1>1, <2>1, <2>2 DEF WalkOK
<1>4. QED
  BY <1>2, <1>3 DEF Consider

\* What a target makes older is still ahead.
LEMMA TouchWalk ==
    ASSUME TypeOK, RunOK, WalkOK, Touch PROVE WalkOK'
<1>1. /\ UNCHANGED <<goal, outcome>> /\ outcome # "done" /\ walk # <<>>
      /\ exists' = exists \cup {Target}
      /\ old' = (old \ {Target}) \cup (Dependents(Target) \cap exists)
  BY AtLine DEF Touch, GoOn, Running
<1>2. walk' = Tail(walk)
  <2>1. line = Len(Recipe(Target))
    BY AtLine, RecipeLines DEF Touch
  <2>2. QED
    BY <2>1 DEF Touch, GoOn
<1> SUFFICES ASSUME goal = "build" PROVE WalkOK'
  BY <1>1 DEF WalkOK
<1>3. /\ \A i \in DOMAIN walk' :
           /\ walk'[i] \in Stamp
           /\ Dependents(walk'[i]) \cup RemovedBy(walk'[i]) \subseteq Ahead(i)'
      /\ Passed' \subseteq Passed \cup {Target}
      /\ Passed' \cap Dependents(Target) = {}
  BY <1>1, <1>2, TailOfWalk DEF WalkOK
<1>4. Passed' \subseteq exists' /\ old' \cap Passed' \subseteq Edited
  BY <1>1, <1>3 DEF WalkOK
<1>5. QED
  BY <1>1, <1>3, <1>4 DEF WalkOK

\* And so is what it removes.
LEMMA RemoveStampsWalk ==
    ASSUME TypeOK, RunOK, WalkOK, RemoveStamps PROVE WalkOK'
<1>1. /\ UNCHANGED <<goal, outcome>> /\ outcome # "done" /\ walk # <<>>
      /\ exists' = exists \ RemovedBy(Target) /\ old' = old \ RemovedBy(Target)
      /\ Target \in Stamp \cup Phony /\ line \in 1 .. Len(Recipe(Target))
      /\ Recipe(Target)[line] = "rm"
  BY AtLine DEF RemoveStamps, GoOn, Running
<1> SUFFICES ASSUME goal = "build" PROVE WalkOK'
  BY <1>1 DEF WalkOK
<1>2. 1 \in DOMAIN walk /\ Target = walk[1]
  BY <1>1, EmptySeq DEF TypeOK, Target
<1>3. Target \in Stamp /\ RemovedBy(Target) \subseteq Ahead(1)
  BY <1>2 DEF WalkOK
<1>4. line # Len(Recipe(Target))
  BY <1>1, <1>3 DEF Recipe, Stamp
<1>5. walk' = walk
  BY <1>4 DEF RemoveStamps, GoOn
<1>6. RemovedBy(Target) \cap Passed = {}
  BY <1>2, <1>3 DEF Ahead, Passed, TypeOK
<1>7. QED
  BY <1>1, <1>5, <1>6 DEF WalkOK, Passed, Ahead

\* A phony target is not on the way to a build.
LEMMA EraseWalk ==
    ASSUME TypeOK, RunOK, WalkOK, Erase PROVE WalkOK'
<1>1. /\ UNCHANGED <<goal, outcome>> /\ outcome # "done" /\ walk # <<>>
      /\ Target = "clean"
  BY AtLine, LinePlace DEF Erase, GoOn, Running
<1>2. 1 \in DOMAIN walk /\ Target = walk[1]
  BY <1>1, EmptySeq DEF TypeOK, Target
<1>3. goal # "build"
  BY <1>1, <1>2 DEF WalkOK, Stamp
<1>4. QED
  BY <1>1, <1>3 DEF WalkOK

LEMMA NextWalkOK ==
    TypeOK /\ RunOK /\ WalkOK /\ [Next]_vars => WalkOK'
<1> SUFFICES ASSUME TypeOK, RunOK, WalkOK, [Next]_vars PROVE WalkOK'
  OBVIOUS
<1> USE DEF directory, run
<1>1. CASE Consider \/ Touch \/ RemoveStamps \/ Erase
  BY <1>1, ConsiderWalk, TouchWalk, RemoveStampsWalk, EraseWalk
<1>2. CASE Finish
  BY <1>2, QuietWalk DEF Finish
<1>3. CASE Kill \/ EraseKilled
  BY <1>3, StoppedWalk DEF Kill, EraseKilled, Stop
<1>4. CASE Revert \/ BackUp \/ BackUpTorn \/ Munge \/ MungeFails \/ MungeKilled
  BY <1>4, LineWalk DEF Revert, BackUp, BackUpTorn, Munge, MungeFails, MungeKilled
<1>5. CASE Patch \/ Unpatch \/ ApplyPlStops
  BY <1>5, LineWalk DEF Patch, Unpatch, ApplyPlStops
<1>6. CASE Unpack \/ UnpackLoses \/ UnpackStops
  BY <1>6, LineWalk DEF Unpack, UnpackLoses, UnpackStops
<1>7. CASE Install \/ InstallLoses \/ InstallStops
  BY <1>7, LineWalk DEF Install, InstallLoses, InstallStops
<1>8. CASE BuildTools \/ Compile \/ CompileStops
  BY <1>8, LineWalk DEF BuildTools, Compile, CompileStops
<1>9. ASSUME NEW g \in Goals, Start(g) PROVE WalkOK'
  BY <1>9, StartWalk
<1>10. CASE EditPatches \/ EditArtwork
  BY <1>10 DEF EditPatches, EditArtwork, WalkOK, Edited, Passed, Ahead
<1>11. CASE ForgetUnpack \/ RemoveTree
  BY <1>11, StoppedWalk DEF ForgetUnpack, RemoveTree
<1>12. CASE UNCHANGED vars
  BY <1>12, QuietWalk DEF vars
<1>13. QED
  BY <1>1, <1>2, <1>3, <1>4, <1>5, <1>6, <1>7, <1>8, <1>9, <1>10, <1>11, <1>12
     DEF Next, Make, Transform, ApplyPl, Scripts, Developer

(***************************************************************************)
(* Taking the patches off                                                  *)
(***************************************************************************)
\* Without accidents, the font files of a whole tree can be put back.
LEMMA FontsOfWholeTree ==
    ASSUME StampInv, WholeTreeFonts,
           \/ Revert \/ BackUp \/ BackUpTorn \/ Munge \/ MungeFails \/ MungeKilled
    PROVE  WholeTreeFonts'
<1> USE DEF StampInv, WholeTreeFonts, Without
<1>1. CASE Revert
  BY <1>1 DEF Revert
<1>2. CASE BackUp
  <2>1. Doing("patch.apply") /\ line = 3
    BY <1>2, LinePlace DEF BackUp, Doing
  <2>2. QED
    BY <1>2, <2>1 DEF BackUp, PatchesOK
<1>3. CASE BackUpTorn \/ MungeFails
  BY <1>3 DEF BackUpTorn, MungeFails, Spoiled
<1>4. CASE Munge \/ MungeKilled
  <2>1. Doing("patch.apply") /\ line = 4
    BY <1>4, LinePlace DEF Munge, MungeKilled, Doing
  <2>2. QED
    BY <1>4, <2>1 DEF Munge, MungeKilled, PatchesOK
<1>5. QED
  BY <1>1, <1>2, <1>3, <1>4

\* A step that leaves the font files alone and undoes no damage to them.
LEMMA QuietFonts ==
    ASSUME WholeTreeFonts, UNCHANGED <<font, bak>>, tree' = "full" => tree = "full",
           damage \ {"unapply"} \subseteq damage'
    PROVE  WholeTreeFonts'
BY DEF WholeTreeFonts, Without

\* A step that leaves alone what patch.unapply restores.
LEMMA QuietUnapply ==
    ASSUME UnapplyOK, UNCHANGED <<tree, font, bak, damage, walk, line, goal>>,
           applied = "none" => applied' = "none"
    PROVE  UnapplyOK'
BY DEF UnapplyOK, WholeTreeFonts, Doing, Target, Without, FontRestored, PatchesRestored

\* A run that was stopped promises nothing.
LEMMA StoppedUnapply ==
    ASSUME WholeTreeFonts', goal' = "none", line' = 0 PROVE UnapplyOK'
BY DEF UnapplyOK, Doing

\* While another target is made, patch.unapply is not asked for.
LEMMA ElsewhereUnapply ==
    ASSUME TypeOK, RunOK, UnapplyOK, NEW l, At(l), GoOn, Target # "patch.unapply",
           WholeTreeFonts'
    PROVE  UnapplyOK'
<1>1. goal' = goal /\ goal # "patch.unapply"
  BY AtLine DEF GoOn, UnapplyOK
<1>2. line' > 0 => Target' # "patch.unapply"
  <2>1. CASE walk' = walk
    BY <2>1 DEF Target
  <2>2. CASE line' = 0
    BY <2>2
  <2>3. QED
    BY <2>1, <2>2 DEF GoOn
<1>3. QED
  BY <1>1, <1>2 DEF UnapplyOK, Doing

\* A line of another target, or one that stops the run.
LEMMA LineUnapply ==
    ASSUME TypeOK, RunOK, UnapplyOK, NEW l, At(l), GoOn \/ Stop, WholeTreeFonts',
           l \notin {"revert", "unpatch", "rm"}
    PROVE  UnapplyOK'
<1>1. CASE Stop
  BY <1>1, StoppedUnapply DEF Stop
<1>2. CASE GoOn
  <2>1. Target # "patch.unapply"
    <3>1. /\ Target \in Stamp \cup Phony /\ line \in 1 .. Len(Recipe(Target))
          /\ Recipe(Target)[line] = l
      BY AtLine
    <3>2. QED
      BY <3>1 DEF Recipe, UnapplyLines
  <2>2. QED
    BY <1>2, <2>1, ElsewhereUnapply
<1>3. QED
  BY <1>1, <1>2

\* The first line puts the font files back.
LEMMA RevertUnapply ==
    ASSUME StampInv, UnapplyOK, Revert PROVE UnapplyOK'
<1> USE DEF StampInv
<1>1. WholeTreeFonts'
  BY FontsOfWholeTree DEF UnapplyOK
<1>2. CASE Target # "patch.unapply"
  BY <1>1, <1>2, ElsewhereUnapply DEF Revert
<1>3. CASE Target = "patch.unapply"
  <2>1. line' = 2 /\ walk' = walk /\ Target' = Target /\ goal' = goal /\ walk # <<>>
    BY LineGoesOn, LinePlace DEF Revert, GoOn
  <2>2. bak' = "none"
    BY DEF Revert
  <2>3. FontRestored'
    BY <1>1, <2>2 DEF WholeTreeFonts, FontRestored, Without
  <2>4. QED
    BY <1>1, <1>3, <2>1, <2>3 DEF UnapplyOK, Doing
<1>4. QED
  BY <1>2, <1>3

\* The second line takes the patches off.
LEMMA UnpatchUnapply ==
    ASSUME StampInv, UnapplyOK, Unpatch PROVE UnapplyOK'
<1> USE DEF StampInv
<1>1. WholeTreeFonts'
  BY QuietFonts DEF UnapplyOK, Unpatch
<1>2. CASE Target # "patch.unapply"
  BY <1>1, <1>2, ElsewhereUnapply DEF Unpatch
<1>3. CASE Target = "patch.unapply"
  <2>1. line = 2 /\ line' = 3 /\ walk' = walk /\ Target' = Target /\ goal' = goal
        /\ walk # <<>>
    BY LineGoesOn, LinePlace DEF Unpatch, GoOn
  <2>2. FontRestored'
    BY <1>3, <2>1 DEF Unpatch, UnapplyOK, Doing, FontRestored, Without
  <2>3. PatchesRestored'
    BY DEF Unpatch, Reliable, PatchesRestored, Without
  <2>4. QED
    BY <1>1, <1>3, <2>1, <2>2, <2>3 DEF UnapplyOK, Doing
<1>4. QED
  BY <1>2, <1>3

\* The third line is the last.
LEMMA RemoveStampsUnapply ==
    ASSUME StampInv, UnapplyOK, RemoveStamps PROVE UnapplyOK'
<1> USE DEF StampInv
<1>1. /\ UNCHANGED <<tree, font, bak, applied>>
      /\ damage \ {"unapply"} \subseteq damage' /\ damage' \subseteq damage
  BY DEF RemoveStamps, directory
<1>2. WholeTreeFonts'
  BY <1>1, QuietFonts DEF UnapplyOK
<1>3. CASE Target # "patch.unapply"
  BY <1>2, <1>3, ElsewhereUnapply DEF RemoveStamps
<1>4. CASE Target = "patch.unapply"
  <2>1. line = 3 /\ walk # <<>> /\ line = Len(Recipe(Target))
    <3>1. /\ line \in 1 .. Len(Recipe(Target)) /\ Recipe(Target)[line] = "rm"
          /\ walk # <<>>
      BY AtLine DEF RemoveStamps
    <3>2. QED
      BY <1>4, <3>1 DEF Recipe, UnapplyLines
  <2>2. line' = 0 /\ goal' = goal
    BY <2>1 DEF RemoveStamps, GoOn
  <2>3. FontRestored' /\ PatchesRestored'
    BY <1>1, <1>4, <2>1 DEF UnapplyOK, Doing, FontRestored, PatchesRestored, Without
  <2>4. walk' = <<>>
    <3>1. walk' = Tail(walk)
      BY <2>1 DEF RemoveStamps, GoOn
    <3>2. walk \notin Seq(Stamp)
      BY <1>4, <2>1 DEF Target, Stamp
    <3>3. QED
      BY <3>1, <3>2, SingletonTail DEF RunOK
  <2>5. QED
    BY <1>2, <2>2, <2>3, <2>4 DEF UnapplyOK, Doing
<1>5. QED
  BY <1>3, <1>4

LEMMA ConsiderUnapply ==
    ASSUME StampInv, UnapplyOK, Consider PROVE UnapplyOK'
<1> USE DEF StampInv, directory
<1>1. WholeTreeFonts'
  BY QuietFonts DEF UnapplyOK, Consider
<1>2. goal' = goal /\ walk # <<>> /\ line = 0
  BY DEF Consider
<1>3. CASE Fresh(Target)
  <2>1. Target # "patch.unapply" /\ line' = 0
    BY <1>2, <1>3 DEF Consider, Fresh, TypeOK, Stamp
  <2>2. QED
    BY <1>1, <1>2, <2>1 DEF UnapplyOK, Doing
<1>4. CASE ~Fresh(Target)
  <2>1. line' = 1 /\ walk' = walk /\ Target' = Target
    BY <1>4 DEF Consider, Target
  <2>2. QED
    BY <1>1, <1>2, <2>1 DEF UnapplyOK, Doing
<1>5. QED
  BY <1>3, <1>4

LEMMA StartUnapply ==
    ASSUME StampInv, UnapplyOK, NEW g \in Goals, Start(g) PROVE UnapplyOK'
<1>1. WholeTreeFonts'
  BY QuietFonts DEF UnapplyOK, Start, directory
<1>2. g = "patch.unapply" => walk' # <<>> /\ Target' = "patch.unapply"
  BY DEF Start, Walk, Target
<1>3. QED
  BY <1>1, <1>2 DEF UnapplyOK, Start, Doing

LEMMA NextUnapplyOK == StampInv /\ UnapplyOK /\ [Next]_vars => UnapplyOK'
<1> SUFFICES ASSUME StampInv, UnapplyOK, [Next]_vars PROVE UnapplyOK'
  OBVIOUS
<1> USE DEF StampInv, directory, run
<1>0. WholeTreeFonts
  BY DEF UnapplyOK
<1>1. CASE Consider
  BY <1>1, ConsiderUnapply
<1>2. CASE Finish
  BY <1>2, QuietUnapply DEF Finish
<1>3. CASE RemoveStamps
  BY <1>3, RemoveStampsUnapply
<1>4. CASE Touch
  <2>1. WholeTreeFonts'
    BY <1>0, <1>4, QuietFonts DEF Touch
  <2>2. QED
    BY <1>4, <2>1, LineUnapply DEF Touch
<1>5. CASE Kill
  <2>1. WholeTreeFonts'
    BY <1>0, <1>5, QuietFonts DEF Kill
  <2>2. QED
    BY <1>5, <2>1, StoppedUnapply DEF Kill, Stop
<1>6. CASE Revert
  BY <1>6, RevertUnapply
<1>7. CASE BackUp \/ BackUpTorn \/ Munge \/ MungeFails \/ MungeKilled
  <2>1. WholeTreeFonts'
    BY <1>0, <1>7, FontsOfWholeTree
  <2>2. QED
    BY <1>7, <2>1, LineUnapply DEF BackUp, BackUpTorn, Munge, MungeFails, MungeKilled
<1>8. CASE Unpatch
  BY <1>8, UnpatchUnapply
<1>9. CASE Patch
  <2>1. WholeTreeFonts'
    BY <1>0, <1>9, QuietFonts DEF Patch
  <2>2. QED
    BY <1>9, <2>1, LineUnapply DEF Patch
<1>10. CASE ApplyPlStops
  <2>1. WholeTreeFonts'
    BY <1>0, <1>10, QuietFonts DEF ApplyPlStops, Spoiled
  <2>2. QED
    BY <1>10, <2>1, StoppedUnapply DEF ApplyPlStops, Stop
<1>11. CASE Unpack \/ UnpackLoses
  <2>1. WholeTreeFonts'
    BY <1>11 DEF Unpack, UnpackLoses, WholeTreeFonts
  <2>2. QED
    BY <1>11, <2>1, LineUnapply DEF Unpack, UnpackLoses
<1>12. CASE UnpackStops
  <2>1. WholeTreeFonts'
    BY <1>0, <1>12 DEF UnpackStops, WholeTreeFonts, Without
  <2>2. QED
    BY <1>12, <2>1, StoppedUnapply DEF UnpackStops, Stop
<1>13. CASE Install \/ InstallLoses \/ InstallStops
  <2>1. WholeTreeFonts'
    BY <1>0, <1>13, QuietFonts DEF Install, InstallLoses, InstallStops, Spoiled
  <2>2. QED
    BY <1>13, <2>1, LineUnapply DEF Install, InstallLoses, InstallStops
<1>14. CASE BuildTools \/ Compile \/ CompileStops
  <2>1. WholeTreeFonts'
    BY <1>0, <1>14, QuietFonts DEF BuildTools, Compile, CompileStops
  <2>2. QED
    BY <1>14, <2>1, LineUnapply DEF BuildTools, Compile, CompileStops
<1>15. CASE Erase
  <2>1. WholeTreeFonts'
    BY <1>15 DEF Erase, NoTree, WholeTreeFonts
  <2>2. QED
    BY <1>15, <2>1, LineUnapply DEF Erase
<1>16. CASE EraseKilled
  <2>1. WholeTreeFonts'
    BY <1>16 DEF EraseKilled, WholeTreeFonts
  <2>2. QED
    BY <1>16, <2>1, StoppedUnapply DEF EraseKilled, Stop
<1>17. ASSUME NEW g \in Goals, Start(g) PROVE UnapplyOK'
  BY <1>17, StartUnapply
<1>18. CASE EditPatches \/ EditArtwork
  BY <1>18, QuietUnapply DEF EditPatches, EditArtwork, Aged
<1>19. CASE ForgetUnpack \/ RemoveTree
  <2>1. line' = 0 /\ goal' = "none"
    BY <1>19 DEF ForgetUnpack, RemoveTree, RunOK, TypeOK
  <2>2. WholeTreeFonts'
    BY <1>0, <1>19, QuietFonts DEF ForgetUnpack, RemoveTree, NoTree, WholeTreeFonts
  <2>3. QED
    BY <2>1, <2>2, StoppedUnapply
<1>20. CASE UNCHANGED vars
  BY <1>20, QuietUnapply DEF vars
<1>21. QED
  BY <1>1, <1>2, <1>3, <1>4, <1>5, <1>6, <1>7, <1>8, <1>9, <1>10, <1>11, <1>12, <1>13,
     <1>14, <1>15, <1>16, <1>17, <1>18, <1>19, <1>20
     DEF Next, Make, Transform, ApplyPl, Scripts, Developer

(* GoalInv, the walk of a build and the lines of patch.unapply, holds in   *)
(* every run of make.                                                      *)
THEOREM GoalsAreReached == Spec => []GoalInv
<1>1. Init => WalkOK /\ UnapplyOK
  BY DEF Init, WalkOK, Ahead, UnapplyOK, WholeTreeFonts, Doing
<1>2. StampInv => TypeOK /\ RunOK
  BY DEF StampInv
<1>3. GoalInv <=> WalkOK /\ UnapplyOK
  BY DEF GoalInv
<1>4. QED
  BY StampsKeepTheirPromise, NextWalkOK, NextUnapplyOK, <1>1, <1>2, <1>3, PTL DEF Spec

(* "make" does what its prerequisites say: a run that ends well has all    *)
(* its stamps, and only an edit of the patches or of the artwork since     *)
(* then makes one of them old.                                             *)
THEOREM BuildIsSettled == Spec => []SettledAfterSuccess
<1>1. StampInv /\ GoalInv => SettledAfterSuccess
  <2> SUFFICES ASSUME TypeOK, WalkOK, outcome = "done", goal = "build"
               PROVE  exists = Stamp /\ old \subseteq Edited
    BY DEF SettledAfterSuccess, Edited, StampInv, GoalInv
  <2>1. Passed = Stamp
    BY DEF WalkOK, Passed
  <2>2. QED
    BY <2>1 DEF WalkOK, TypeOK
<1>2. QED
  BY StampsKeepTheirPromise, GoalsAreReached, <1>1, PTL

(* After "make patch.unapply" has ended well, and with no accident left,   *)
(* the sources are as they were unpacked.                                  *)
THEOREM UnapplyPutsBack == Spec => []UnapplyRestores
<1>1. GoalInv => UnapplyRestores
  BY DEF GoalInv, WalkOK, UnapplyOK, UnapplyRestores, FontRestored, PatchesRestored,
         Without
<1>2. QED
  BY GoalsAreReached, <1>1, PTL
=============================================================================
