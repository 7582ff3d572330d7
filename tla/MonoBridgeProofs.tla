-------------------------- MODULE MonoBridgeProofs --------------------------
(***************************************************************************)
(* Counts, FailsOnlyAfterFree and FailsOnlyWithTwoBridges are invariants   *)
(* of MonoBridge, for every number of threads, objects and references.     *)
(***************************************************************************)
EXTENDS MonoBridge, FiniteSetTheorems, TLAPS

(***************************************************************************)
(* The inductive invariant.                                                *)
(***************************************************************************)

\* What a thread that is in the middle of something is working on.
PlaceOf(t) ==
    /\ at[t].pc = "revoke" => at[t].obj \in Counted
    /\ at[t].pc \in Lookups => at[t].obj \in Objects
    /\ at[t].pc \in {"bridge", "mapping"} => at[t].obj = TheBridge /\ at[t].env = 0
    /\ at[t].pc \in Wraps => at[t].obj \in UnoObjects
    /\ at[t].pc \in Lookups \cup {"bridge", "mapping"} => held[t][at[t].obj] <= MaxHeld
    /\ at[t].pc = "revoke" /\ at[t].then # Nobody => held[t][at[t].then] <= MaxHeld

\* Only who has the lock makes a proxy, and nobody else has made it meanwhile.
LockOf(t) ==
    /\ at[t].pc \in {"again", "create", "register"} => lock = t
    /\ at[t].pc \in {"create", "register"} => entries[at[t].obj] = 0

PlaceOK == \A t \in Threads : PlaceOf(t)
LockOK  == \A t \in Threads : LockOf(t)

\* A managed object that has a key has a proxy, gets one, or has lost it.
KeysOK ==
    \A o \in keys \cap Objects :
        o \in freed \/ entries[o] > 0 \/ \E t \in Threads : At(t, "register", o)

\* Without a bridge there are no environments.
BridgeOK ==
    env = 0 => entries[TheBridge] = 0 /\ \A t \in Threads : at[t].pc # "mapping"

\* Who looks for a UNO object has its environment to itself, and that is the only
\* one as long as there was one bridge.
MonitorOK ==
    /\ \A t \in Threads : at[t].pc \in {"find", "wrap"} => monitor[at[t].env] = t
    /\ ~several => \A t \in Threads :
                      /\ at[t].pc \in Wraps => at[t].env = env /\ env # 0
                      /\ at[t].pc = "wrap" => at[t].obj \notin keys

IInv ==
    /\ TypeOK /\ Counts
    /\ PlaceOK /\ LockOK /\ KeysOK /\ BridgeOK /\ MonitorOK
    /\ FailsOnlyAfterFree /\ FailsOnlyWithTwoBridges

(***************************************************************************)
(* References, counted.                                                    *)
(***************************************************************************)
LEMMA Finite ==
    ASSUME NEW x
    PROVE  /\ IsFiniteSet(References(x)) /\ Referring(x) \in Nat
           /\ IsFiniteSet(Revoking(x)) /\ Cardinality(Revoking(x)) \in Nat
  <1>1. IsFiniteSet(HeldRange)
    BY MonoAssumption, FS_Interval DEF HeldRange
  <1>2. IsFiniteSet(Threads \X HeldRange)
    BY <1>1, MonoAssumption, FS_Product
  <1>3. References(x) \subseteq Threads \X HeldRange
    BY DEF References
  <1>4. IsFiniteSet(References(x))
    BY <1>2, <1>3, FS_Subset
  <1>5. Revoking(x) \subseteq Threads
    BY DEF Revoking
  <1>6. IsFiniteSet(Revoking(x))
    BY <1>5, MonoAssumption, FS_Subset
  <1> QED BY <1>4, <1>6, FS_CardinalityType DEF Referring

LEMMA OneMore ==
    ASSUME TypeOK, NEW t \in Threads, NEW x \in Counted, held[t][x] <= MaxHeld,
           held' = [held EXCEPT ![t][x] = @ + 1]
    PROVE  /\ held' \in [Threads -> [Counted -> HeldRange]]
           /\ Referring(x)' = Referring(x) + 1
           /\ \A y \in Counted \ {x} : Referring(y)' = Referring(y)
           /\ \A s \in Threads, y \in Counted :
                 held'[s][y] = IF s = t /\ y = x THEN held[t][x] + 1 ELSE held[s][y]
  <1> USE MonoAssumption
  <1> DEFINE n == held[t][x]
  <1>1. n \in HeldRange /\ n + 1 \in HeldRange
    BY DEF TypeOK, HeldRange
  <1>2. \A s \in Threads, y \in Counted :
           held'[s][y] = IF s = t /\ y = x THEN n + 1 ELSE held[s][y]
    BY DEF TypeOK
  <1>3. held' \in [Threads -> [Counted -> HeldRange]]
    BY <1>1 DEF TypeOK
  <1>4. References(x)' = References(x) \cup {<<t, n + 1>>}
    <2>1. ASSUME NEW s \in Threads, NEW i \in HeldRange
          PROVE  i <= held'[s][x] <=> i <= held[s][x] \/ <<s, i>> = <<t, n + 1>>
      <3>1. held[s][x] \in HeldRange
        BY DEF TypeOK
      <3> QED BY <1>1, <1>2, <3>1 DEF HeldRange
    <2>2. <<t, n + 1>> \in References(x)'
      BY <1>1, <1>2 DEF References, HeldRange
    <2> QED BY <2>1, <2>2, <1>1 DEF References, HeldRange
  <1>5. <<t, n + 1>> \notin References(x)
    BY <1>1 DEF References, HeldRange
  <1>6. Referring(x)' = Referring(x) + 1
    BY <1>4, <1>5, Finite, FS_AddElement DEF Referring
  <1>7. ASSUME NEW y \in Counted \ {x}
        PROVE  Referring(y)' = Referring(y)
    <2>1. References(y)' = References(y)
      BY <1>2 DEF References
    <2> QED BY <2>1 DEF Referring
  <1> QED BY <1>2, <1>3, <1>6, <1>7

LEMMA OneLess ==
    ASSUME TypeOK, NEW t \in Threads, NEW x \in Counted, held[t][x] > 0,
           held' = [held EXCEPT ![t][x] = @ - 1]
    PROVE  /\ held' \in [Threads -> [Counted -> HeldRange]]
           /\ Referring(x)' = Referring(x) - 1
           /\ \A y \in Counted \ {x} : Referring(y)' = Referring(y)
           /\ \A s \in Threads, y \in Counted :
                 held'[s][y] = IF s = t /\ y = x THEN held[t][x] - 1 ELSE held[s][y]
  <1> USE MonoAssumption
  <1> DEFINE n == held[t][x]
  <1>1. n \in HeldRange /\ n - 1 \in HeldRange
    BY DEF TypeOK, HeldRange
  <1>2. \A s \in Threads, y \in Counted :
           held'[s][y] = IF s = t /\ y = x THEN n - 1 ELSE held[s][y]
    BY DEF TypeOK
  <1>3. held' \in [Threads -> [Counted -> HeldRange]]
    BY <1>1 DEF TypeOK
  <1>4. References(x)' = References(x) \ {<<t, n>>}
    <2>1. ASSUME NEW s \in Threads, NEW i \in HeldRange
          PROVE  i <= held'[s][x] <=> i <= held[s][x] /\ <<s, i>> # <<t, n>>
      <3>1. held[s][x] \in HeldRange
        BY DEF TypeOK
      <3> QED BY <1>1, <1>2, <3>1 DEF HeldRange
    <2> QED BY <2>1, <1>1 DEF References, HeldRange
  <1>5. <<t, n>> \in References(x)
    BY <1>1 DEF References, HeldRange
  <1>6. Referring(x)' = Referring(x) - 1
    <2>1. IsFiniteSet(References(x))
      BY Finite
    <2>2. Cardinality(References(x) \ {<<t, n>>}) = Cardinality(References(x)) - 1
      BY <1>5, <2>1, FS_RemoveElement
    <2> QED BY <1>4, <2>2 DEF Referring
  <1>7. ASSUME NEW y \in Counted \ {x}
        PROVE  Referring(y)' = Referring(y)
    <2>1. References(y)' = References(y)
      BY <1>2 DEF References
    <2> QED BY <2>1 DEF Referring
  <1> QED BY <1>2, <1>3, <1>6, <1>7

\* Who has a reference keeps the object registered.
LEMMA HeldIsRegistered ==
    ASSUME TypeOK, Counts, NEW t \in Threads, NEW x \in Counted, held[t][x] > 0
    PROVE  ref[x] > 0 /\ entries[x] > 0
  <1>1. 1 \in HeldRange /\ held[t][x] \in HeldRange
    BY MonoAssumption DEF TypeOK, HeldRange
  <1>2. <<t, 1>> \in References(x)
    BY <1>1 DEF References, HeldRange
  <1>3. Referring(x) # 0 /\ Referring(x) \in Nat
    BY <1>2, Finite, FS_EmptySet DEF Referring
  <1>4. Cardinality(Revoking(x)) \in Nat
    BY Finite
  <1> QED BY <1>3, <1>4 DEF Counts, Revoking

\* What is not registered has no references, and nobody revokes it.
LEMMA NotRegistered ==
    ASSUME TypeOK, Counts, NEW x \in Counted, entries[x] = 0
    PROVE  ref[x] = 0 /\ Cardinality(Revoking(x)) = 0
  <1>1. Cardinality(Revoking(x)) \in Nat
    BY Finite
  <1> QED BY <1>1 DEF Counts, TypeOK

(***************************************************************************)
(* Counts, step by step.                                                   *)
(***************************************************************************)
CountOK(x) ==
    /\ ref[x] = Referring(x)
    /\ entries[x] = (IF ref[x] > 0 THEN 1 ELSE 0) + Cardinality(Revoking(x))

LEMMA CountsIsCountOK == Counts <=> \A x \in Counted : CountOK(x)
  BY DEF Counts, CountOK

\* acquire().
LEMMA AcquiredCounts ==
    ASSUME TypeOK, Counts, NEW t \in Threads, NEW x \in Counted, held[t][x] <= MaxHeld,
           Acquired(t, x), \A y \in Counted : Revoking(y)' = Revoking(y)
    PROVE  /\ Counts'
           /\ ref' \in [Counted -> Nat] /\ entries' \in [Counted -> Nat]
           /\ held' \in [Threads -> [Counted -> HeldRange]]
           /\ \A y \in Counted : entries'[y] = 0 <=> y # x /\ entries[y] = 0
           /\ \A s \in Threads, y \in Counted :
                 held'[s][y] = IF s = t /\ y = x THEN held[t][x] + 1 ELSE held[s][y]
  <1>1. /\ held' \in [Threads -> [Counted -> HeldRange]]
        /\ Referring(x)' = Referring(x) + 1
        /\ \A y \in Counted \ {x} : Referring(y)' = Referring(y)
        /\ \A s \in Threads, y \in Counted :
              held'[s][y] = IF s = t /\ y = x THEN held[t][x] + 1 ELSE held[s][y]
    <2>1. held' = [held EXCEPT ![t][x] = @ + 1]
      BY DEF Acquired
    <2> QED BY <2>1, OneMore, ZenonT(30)
  <1>2. /\ ref' = [ref EXCEPT ![x] = @ + 1]
        /\ entries' = [entries EXCEPT ![x] = IF ref[x] = 0 THEN @ + 1 ELSE @]
    BY DEF Acquired
  <1>3. /\ ref'[x] = ref[x] + 1
        /\ entries'[x] = IF ref[x] = 0 THEN entries[x] + 1 ELSE entries[x]
        /\ \A y \in Counted \ {x} : ref'[y] = ref[y] /\ entries'[y] = entries[y]
    BY <1>2 DEF TypeOK
  <1>4. ref[x] \in Nat /\ entries[x] \in Nat /\ Cardinality(Revoking(x)) \in Nat
    BY Finite DEF TypeOK
  <1>5. CountOK(x)'
    BY <1>1, <1>3, <1>4, CountsIsCountOK DEF CountOK
  <1>6. \A y \in Counted \ {x} : CountOK(y)'
    BY <1>1, <1>3, CountsIsCountOK DEF CountOK
  <1>7. Counts'
    BY <1>5, <1>6, CountsIsCountOK DEF Counts, CountOK
  <1>8. ref' \in [Counted -> Nat] /\ entries' \in [Counted -> Nat]
    BY <1>2 DEF TypeOK
  <1>9. entries'[x] # 0
    BY <1>3, <1>4, CountsIsCountOK DEF CountOK
  <1> QED BY <1>1, <1>3, <1>7, <1>8, <1>9

\* A new proxy, or a new bridge.
LEMMA MadeCounts ==
    ASSUME TypeOK, Counts, NEW t \in Threads, NEW x \in Counted, held[t][x] <= MaxHeld,
           entries[x] = 0,
           Made(t, x), \A y \in Counted : Revoking(y)' = Revoking(y)
    PROVE  /\ Counts'
           /\ ref' \in [Counted -> Nat] /\ entries' \in [Counted -> Nat]
           /\ held' \in [Threads -> [Counted -> HeldRange]]
           /\ \A y \in Counted : entries'[y] = 0 <=> y # x /\ entries[y] = 0
           /\ \A s \in Threads, y \in Counted :
                 held'[s][y] = IF s = t /\ y = x THEN held[t][x] + 1 ELSE held[s][y]
  <1>1. ref[x] = 0
    BY NotRegistered
  <1>2. Acquired(t, x)
    <2>1. [ref EXCEPT ![x] = @ + 1] = [ref EXCEPT ![x] = 1]
      BY <1>1
    <2>2. [entries EXCEPT ![x] = IF ref[x] = 0 THEN @ + 1 ELSE @]
            = [entries EXCEPT ![x] = 1]
      BY <1>1
    <2> QED BY <2>1, <2>2 DEF Made, Acquired
  <1> QED BY <1>2, AcquiredCounts

\* release(): who brings the count to zero is now to revoke.
LEMMA DropCounts ==
    ASSUME TypeOK, Counts, NEW t \in Threads, NEW x \in Counted, held[t][x] > 0,
           NEW then \in Objects \cup {Nobody}, at[t] = Idle,
           Drop(t, x, then), entries' = entries
    PROVE  /\ Counts'
           /\ ref' \in [Counted -> Nat]
           /\ held' \in [Threads -> [Counted -> HeldRange]]
           /\ \A s \in Threads, y \in Counted :
                 held'[s][y] = IF s = t /\ y = x THEN held[t][x] - 1 ELSE held[s][y]
  <1>1. /\ held' \in [Threads -> [Counted -> HeldRange]]
        /\ Referring(x)' = Referring(x) - 1
        /\ \A y \in Counted \ {x} : Referring(y)' = Referring(y)
        /\ \A s \in Threads, y \in Counted :
              held'[s][y] = IF s = t /\ y = x THEN held[t][x] - 1 ELSE held[s][y]
    <2>1. held' = [held EXCEPT ![t][x] = @ - 1]
      BY DEF Drop
    <2> QED BY <2>1, OneLess, ZenonT(30)
  <1>2. /\ ref'[x] = ref[x] - 1
        /\ \A y \in Counted \ {x} : ref'[y] = ref[y]
        /\ ref[x] > 0 /\ ref' \in [Counted -> Nat]
    BY HeldIsRegistered DEF Drop, TypeOK
  <1>3. ref[x] \in Nat /\ IsFiniteSet(Revoking(x)) /\ Cardinality(Revoking(x)) \in Nat
    BY Finite DEF TypeOK
  <1>4. at \in [Threads -> Place] /\ \A y : t \notin Revoking(y)
    BY DEF TypeOK, Revoking, At, Idle
  <1>5. CASE ref[x] = 1
    <2>1. at' = [at EXCEPT ![t] = [Idle EXCEPT !.pc = "revoke", !.obj = x, !.then = then]]
      BY <1>5 DEF Drop
    <2>2. at'[t].pc = "revoke" /\ at'[t].obj = x /\ \A s \in Threads \ {t} : at'[s] = at[s]
      BY <1>4, <2>1 DEF Idle
    <2>7. Revoking(x)' = Revoking(x) \cup {t}
      BY <2>2 DEF Revoking, At
    <2>8. ASSUME NEW y \in Counted \ {x}
          PROVE  Revoking(y)' = Revoking(y)
      BY <1>4, <2>2 DEF Revoking, At
    <2>3. /\ Revoking(x)' = Revoking(x) \cup {t}
          /\ \A y \in Counted \ {x} : Revoking(y)' = Revoking(y)
      BY <2>7, <2>8
    <2>4. Cardinality(Revoking(x)') = Cardinality(Revoking(x)) + 1
      <3>1. IsFiniteSet(Revoking(x)) /\ t \notin Revoking(x)
        BY <1>3, <1>4
      <3>2. Cardinality(Revoking(x) \cup {t}) = Cardinality(Revoking(x)) + 1
        BY <3>1, FS_AddElement
      <3> QED BY <2>7, <3>2
    <2>5. CountOK(x)'
      BY <1>1, <1>2, <1>3, <1>5, <2>4, CountsIsCountOK DEF CountOK
    <2>6. \A y \in Counted \ {x} : CountOK(y)'
      BY <1>1, <1>2, <2>3, CountsIsCountOK DEF CountOK
    <2> QED BY <1>1, <1>2, <2>5, <2>6 DEF Counts, CountOK
  <1>6. CASE ref[x] # 1
    <2>1. Then(t, then)
      BY <1>6 DEF Drop
    <2>2. at'[t].pc # "revoke" /\ \A s \in Threads \ {t} : at'[s] = at[s]
      BY <1>4, <2>1 DEF Then, Idle
    <2>3. \A y \in Counted : Revoking(y)' = Revoking(y)
      BY <1>4, <2>2 DEF Revoking, At
    <2>4. CountOK(x)'
      BY <1>1, <1>2, <1>3, <1>6, <2>3, CountsIsCountOK DEF CountOK
    <2>5. \A y \in Counted \ {x} : CountOK(y)'
      BY <1>1, <1>2, <2>3, CountsIsCountOK DEF CountOK
    <2> QED BY <1>1, <1>2, <2>4, <2>5 DEF Counts, CountOK
  <1> QED BY <1>5, <1>6

\* A thread has revoked.
LEMMA RevokeCounts ==
    ASSUME TypeOK, Counts, PlaceOK, NEW t \in Threads, Revoke(t)
    PROVE  /\ Counts'
           /\ entries' \in [Counted -> Nat]
           /\ entries[at[t].obj] > 0
           /\ entries'[at[t].obj] = entries[at[t].obj] - 1
           /\ \A y \in Counted \ {at[t].obj} : entries'[y] = entries[y]
  <1>0. PICK x \in Counted : x = at[t].obj
    BY DEF Revoke, PlaceOK, PlaceOf
  <1>1. t \in Revoking(x) /\ \A y : y # x => t \notin Revoking(y)
    BY <1>0 DEF Revoke, Revoking, At
  <1>2. /\ entries' = [entries EXCEPT ![x] = @ - 1] /\ Then(t, at[t].then)
        /\ ref' = ref /\ held' = held
    BY <1>0 DEF Revoke
  <1>3. at'[t].pc # "revoke" /\ \A s \in Threads \ {t} : at'[s] = at[s]
    BY <1>2 DEF Then, Idle, TypeOK
  <1>4. /\ Revoking(x)' = Revoking(x) \ {t}
        /\ \A y \in Counted \ {x} : Revoking(y)' = Revoking(y)
    BY <1>1, <1>3 DEF Revoking, At
  <1>5. IsFiniteSet(Revoking(x)) /\ Cardinality(Revoking(x)) \in Nat
    BY Finite
  <1>6. Cardinality(Revoking(x)') = Cardinality(Revoking(x)) - 1
    BY <1>1, <1>4, <1>5, FS_RemoveElement
  <1>7. Cardinality(Revoking(x)) > 0
    BY <1>1, <1>5, FS_EmptySet
  <1>8. \A y \in Counted : Referring(y)' = Referring(y)
    BY <1>2 DEF Referring, References
  <1>9. /\ entries[x] > 0 /\ entries'[x] = entries[x] - 1
        /\ \A y \in Counted \ {x} : entries'[y] = entries[y]
        /\ entries' \in [Counted -> Nat]
    BY <1>1, <1>2, <1>5, <1>7, CountsIsCountOK DEF CountOK, TypeOK
  <1>10. CountOK(x)'
    BY <1>1, <1>2, <1>5, <1>6, <1>8, <1>9, CountsIsCountOK DEF CountOK, TypeOK
  <1>11. \A y \in Counted \ {x} : CountOK(y)'
    BY <1>2, <1>4, <1>8, <1>9, CountsIsCountOK DEF CountOK
  <1> QED BY <1>0, <1>9, <1>10, <1>11 DEF Counts, CountOK

\* A step that touches none of this.
LEMMA SameCounts ==
    ASSUME Counts, ref' = ref, entries' = entries, held' = held,
           \A y \in Counted : Revoking(y)' = Revoking(y)
    PROVE  Counts'
  <1>1. \A y \in Counted : Referring(y)' = Referring(y)
    BY DEF Referring, References
  <1> QED BY <1>1, CountsIsCountOK DEF Counts, CountOK

(***************************************************************************)
(* Where threads are.                                                      *)
(***************************************************************************)
Moved(t, pc, obj, then, e) ==
    /\ at' \in [Threads -> Place]
    /\ at'[t].pc = pc /\ at'[t].obj = obj /\ at'[t].then = then /\ at'[t].env = e
    /\ \A s \in Threads \ {t} : at'[s] = at[s]

LEMMA IdleIsPlace ==
    /\ Idle \in Place
    /\ Idle.pc = "idle" /\ Idle.obj = Nobody /\ Idle.then = Nobody /\ Idle.env = 0
  <1>1. 0 \in Environments
    BY MonoAssumption, FS_CardinalityType DEF Environments
  <1> QED BY <1>1 DEF Idle, Place

LEMMA GotoMoves ==
    ASSUME TypeOK, NEW t \in Threads,
           NEW pc \in {"idle", "revoke", "bridge", "mapping"} \cup Lookups \cup Wraps,
           Goto(t, pc)
    PROVE  Moved(t, pc, at[t].obj, at[t].then, at[t].env)
  <1>1. at \in [Threads -> Place] /\ at[t] \in Place
    BY DEF TypeOK
  <1>2. PICK p \in Place : p = [at[t] EXCEPT !.pc = pc]
    <2>1. [at[t] EXCEPT !.pc = pc] \in Place
      BY <1>1 DEF Place
    <2> QED BY <2>1
  <1>3. p.pc = pc /\ p.obj = at[t].obj /\ p.then = at[t].then /\ p.env = at[t].env
    BY <1>1, <1>2 DEF Place
  <1>4. at' = [at EXCEPT ![t] = p]
    BY <1>2 DEF Goto
  <1> QED BY <1>1, <1>3, <1>4 DEF Moved

LEMMA ReturnMoves ==
    ASSUME TypeOK, NEW t \in Threads, Return(t)
    PROVE  Moved(t, "idle", Nobody, Nobody, 0)
  BY IdleIsPlace DEF TypeOK, Return, Moved

LEMMA PutMoves ==
    ASSUME TypeOK, NEW t \in Threads, NEW p \in Place, at' = [at EXCEPT ![t] = p]
    PROVE  Moved(t, p.pc, p.obj, p.then, p.env)
  BY DEF TypeOK, Moved

\* A thread begins something with the object x.
LEMMA BeginMoves ==
    ASSUME TypeOK, NEW t \in Threads,
           NEW pc \in {"idle", "revoke", "bridge", "mapping"} \cup Lookups \cup Wraps,
           NEW x \in Counted \cup UnoObjects \cup {Nobody},
           at' = [at EXCEPT ![t] = [Idle EXCEPT !.pc = pc, !.obj = x]]
    PROVE  Moved(t, pc, x, Nobody, 0)
  <1>1. PICK p : p = [Idle EXCEPT !.pc = pc, !.obj = x]
    OBVIOUS
  <1>2. p \in Place /\ p.pc = pc /\ p.obj = x /\ p.then = Nobody /\ p.env = 0
    BY <1>1, IdleIsPlace DEF Place
  <1> QED BY <1>1, <1>2, PutMoves

\* It is to revoke x and then goes on with then.
LEMMA BeginRevokeMoves ==
    ASSUME TypeOK, NEW t \in Threads, NEW x \in Counted, NEW then \in Objects \cup {Nobody},
           at' = [at EXCEPT ![t] = [Idle EXCEPT !.pc = "revoke", !.obj = x, !.then = then]]
    PROVE  Moved(t, "revoke", x, then, 0)
  <1>1. PICK p : p = [Idle EXCEPT !.pc = "revoke", !.obj = x, !.then = then]
    OBVIOUS
  <1>2. p \in Place /\ p.pc = "revoke" /\ p.obj = x /\ p.then = then /\ p.env = 0
    BY <1>1, IdleIsPlace DEF Place
  <1> QED BY <1>1, <1>2, PutMoves

\* It waits for the monitor of the environment e.
LEMMA BeginWaitMoves ==
    ASSUME TypeOK, NEW t \in Threads, NEW u \in UnoObjects, NEW e \in Environments,
           at' = [at EXCEPT ![t] = [Idle EXCEPT !.pc = "wait", !.obj = u, !.env = e]]
    PROVE  Moved(t, "wait", u, Nobody, e)
  <1>1. PICK p : p = [Idle EXCEPT !.pc = "wait", !.obj = u, !.env = e]
    OBVIOUS
  <1>2. p \in Place /\ p.pc = "wait" /\ p.obj = u /\ p.then = Nobody /\ p.env = e
    BY <1>1, IdleIsPlace DEF Place, Wraps
  <1> QED BY <1>1, <1>2, PutMoves

\* After a release.
LEMMA ThenMoves ==
    ASSUME TypeOK, NEW t \in Threads, NEW then \in Objects \cup {Nobody}, Then(t, then)
    PROVE  \E pc \in {"idle", "lookup"} :
              /\ Moved(t, pc, then, Nobody, 0)
              /\ pc = "lookup" <=> then # Nobody
  <1>1. CASE then = Nobody
    <2>1. Moved(t, "idle", Nobody, Nobody, 0)
      BY <1>1, ReturnMoves DEF Then, Return
    <2> QED BY <1>1, <2>1
  <1>2. CASE then # Nobody
    <2>1. Moved(t, "lookup", then, Nobody, 0)
      BY <1>2, BeginMoves DEF Then, Lookups, Counted
    <2> QED BY <1>2, <2>1
  <1> QED BY <1>1, <1>2

LEMMA MovedCounts ==
    ASSUME TypeOK, NEW t \in Threads, NEW pc, NEW obj, NEW then, NEW e,
           Moved(t, pc, obj, then, e), at[t].pc # "revoke", pc # "revoke"
    PROVE  \A y \in Counted : Revoking(y)' = Revoking(y)
  BY DEF Moved, Revoking, At

(***************************************************************************)
(* Steps.                                                                  *)
(***************************************************************************)

\* What a step of t leaves of what other threads rely on.
LEMMA OthersKeep ==
    ASSUME IInv, NEW t \in Threads, NEW pc, NEW obj, NEW then, NEW e,
           Moved(t, pc, obj, then, e),
           held' \in [Threads -> [Counted -> HeldRange]],
           \A s \in Threads \ {t}, y \in Counted : held'[s][y] <= held[s][y],
           \A s \in Threads \ {t} : lock = s => lock' = s,
           \A y \in Objects : entries[y] = 0 => entries'[y] = 0 \/ lock = t
    PROVE  \A s \in Threads \ {t} : PlaceOf(s)' /\ LockOf(s)'
  <1> SUFFICES ASSUME NEW s \in Threads \ {t} PROVE PlaceOf(s)' /\ LockOf(s)'
    OBVIOUS
  <1>1. /\ at'[s] = at[s] /\ at[s] \in Place /\ PlaceOf(s) /\ LockOf(s)
        /\ held[s] \in [Counted -> HeldRange] /\ held'[s] \in [Counted -> HeldRange]
    BY DEF Moved, IInv, TypeOK, PlaceOK, LockOK
  <1>2. at[s].then \in Objects \cup {Nobody}
    BY <1>1 DEF Place
  <1>3. PlaceOf(s)'
    <2>1. ASSUME NEW y \in Counted, held[s][y] <= MaxHeld
          PROVE  held'[s][y] <= MaxHeld
      BY <1>1, <2>1, MonoAssumption DEF HeldRange
    <2> QED BY <1>1, <1>2, <2>1 DEF PlaceOf, Counted
  <1>4. LockOf(s)'
    BY <1>1 DEF LockOf, PlaceOf, Lookups
  <1> QED BY <1>3, <1>4

LEMMA KeysKeep ==
    ASSUME IInv, NEW t \in Threads, NEW pc, NEW obj, NEW then, NEW e,
           Moved(t, pc, obj, then, e), at[t].pc # "register",
           keys' \cap Objects = keys \cap Objects, freed \subseteq freed',
           \A o \in Objects : entries[o] > 0 => entries'[o] > 0 \/ o \in freed'
    PROVE  KeysOK'
  BY DEF IInv, Moved, KeysOK, At

LEMMA MonitorKeeps ==
    ASSUME IInv, NEW t \in Threads, NEW pc, NEW obj, NEW then, NEW e,
           Moved(t, pc, obj, then, e), pc \notin Wraps,
           env' = env, several' = several, monitor' = monitor,
           keys' \cap UnoObjects = keys \cap UnoObjects
    PROVE  MonitorOK'
  BY DEF IInv, Moved, MonitorOK, PlaceOK, PlaceOf, Wraps

\* A step of t outside the managed environment.
LEMMA PlainKeeps ==
    ASSUME IInv, NEW t \in Threads, NEW pc, NEW obj, NEW then, NEW e,
           Moved(t, pc, obj, then, e),
           TypeOK', Counts', PlaceOf(t)', LockOf(t)',
           \A s \in Threads \ {t}, y \in Counted : held'[s][y] <= held[s][y],
           \A s \in Threads \ {t} : lock = s => lock' = s,
           \A y \in Objects : entries[y] = 0 => entries'[y] = 0 \/ lock = t,
           keys' = keys, at[t].pc # "register", freed \subseteq freed',
           \A o \in Objects : entries[o] > 0 => entries'[o] > 0 \/ o \in freed',
           env' = env, env = 0 => entries'[TheBridge] = 0 /\ pc # "mapping",
           several' = several, monitor' = monitor, thrown' = thrown, pc \notin Wraps
    PROVE  IInv'
  <1>1. held' \in [Threads -> [Counted -> HeldRange]]
    BY DEF TypeOK
  <1>2. \A s \in Threads \ {t} : PlaceOf(s)' /\ LockOf(s)'
    BY <1>1, OthersKeep
  <1>3. PlaceOK' /\ LockOK'
    BY <1>2 DEF PlaceOK, LockOK
  <1>4. KeysOK'
    BY KeysKeep
  <1>5. MonitorOK'
    BY MonitorKeeps
  <1>6. BridgeOK'
    BY DEF IInv, BridgeOK, Moved
  <1>7. FailsOnlyAfterFree' /\ FailsOnlyWithTwoBridges'
    BY DEF IInv, FailsOnlyAfterFree, FailsOnlyWithTwoBridges
  <1> QED BY <1>3, <1>4, <1>5, <1>6, <1>7 DEF IInv

\* A thread that stays where it is.
LEMMA StayMoves ==
    ASSUME TypeOK, NEW t \in Threads, at' = at
    PROVE  Moved(t, at[t].pc, at[t].obj, at[t].then, at[t].env)
  BY DEF TypeOK, Moved

\* A lookup of a thread that has at most MaxHeld references to x finds it.
LEMMA FoundKeeps ==
    ASSUME IInv, NEW t \in Threads, NEW x \in Counted, held[t][x] <= MaxHeld,
           entries[x] > 0, Acquired(t, x), at[t].pc \notin {"revoke", "register"},
           Moved(t, "idle", Nobody, Nobody, 0),
           keys' = keys, env' = env, monitor' = monitor,
           several' = several, freed' = freed, thrown' = thrown,
           lock' = lock \/ (lock = t /\ lock' = Nobody)
    PROVE  IInv'
  <1>1. TypeOK /\ Counts
    BY DEF IInv
  <1>2. \A y \in Counted : Revoking(y)' = Revoking(y)
    BY <1>1, MovedCounts
  <1>3. /\ Counts'
        /\ ref' \in [Counted -> Nat] /\ entries' \in [Counted -> Nat]
        /\ held' \in [Threads -> [Counted -> HeldRange]]
        /\ \A y \in Counted : entries'[y] = 0 <=> y # x /\ entries[y] = 0
        /\ \A s \in Threads, y \in Counted :
              held'[s][y] = IF s = t /\ y = x THEN held[t][x] + 1 ELSE held[s][y]
    BY <1>1, <1>2, AcquiredCounts
  <1>4. TypeOK'
    BY <1>1, <1>3 DEF TypeOK, Moved
  <1>5. PlaceOf(t)' /\ LockOf(t)'
    BY DEF Moved, PlaceOf, LockOf, Lookups, Wraps
  <1>6. \A s \in Threads \ {t}, y \in Counted : held'[s][y] <= held[s][y]
    BY <1>1, <1>3 DEF TypeOK, HeldRange
  <1>7. /\ \A y \in Objects : entries[y] = 0 => entries'[y] = 0
        /\ \A y \in Objects : entries[y] > 0 => entries'[y] > 0
        /\ env = 0 => entries'[TheBridge] = 0
    BY <1>1, <1>3 DEF IInv, BridgeOK, TypeOK, Counted
  <1>8. \A s \in Threads \ {t} : lock = s => lock' = s
    OBVIOUS
  <1> QED BY <1>3, <1>4, <1>5, <1>6, <1>7, <1>8, PlainKeeps DEF Wraps

LEMMA CopyKeeps ==
    ASSUME IInv, NEW t \in Threads, NEW x \in Counted, Copy(t, x)
    PROVE  IInv'
  <1>1. /\ TypeOK /\ Counts /\ held[t][x] > 0 /\ held[t][x] <= MaxHeld /\ Acquired(t, x)
        /\ keys' = keys /\ at' = at /\ lock' = lock /\ env' = env /\ monitor' = monitor
        /\ several' = several /\ freed' = freed /\ thrown' = thrown /\ at[t] = Idle
    BY MonoAssumption DEF IInv, Copy
  <1>2. Moved(t, "idle", Nobody, Nobody, 0)
    BY <1>1, StayMoves, IdleIsPlace
  <1>3. entries[x] > 0
    BY <1>1, HeldIsRegistered
  <1> QED BY <1>1, <1>2, <1>3, IdleIsPlace, FoundKeeps

\* A step of t that changes nothing of references and registrations.
LEMMA MoveKeeps ==
    ASSUME IInv, NEW t \in Threads, NEW pc \in {"idle", "mapping"} \cup Lookups \cup {"bridge"},
           NEW obj, NEW then, NEW e,
           Moved(t, pc, obj, then, e), at[t].pc \notin {"revoke", "register"},
           ref' = ref, entries' = entries, held' = held, keys' = keys, env' = env,
           monitor' = monitor, several' = several, freed' = freed, thrown' = thrown,
           lock' \in Threads \cup {Nobody},
           \A s \in Threads \ {t} : lock = s => lock' = s,
           PlaceOf(t)', LockOf(t)', env = 0 => pc # "mapping"
    PROVE  IInv'
  <1>1. TypeOK /\ Counts /\ pc # "revoke" /\ pc \notin Wraps
    BY DEF IInv, Lookups, Wraps
  <1>2. \A y \in Counted : Revoking(y)' = Revoking(y)
    BY <1>1, MovedCounts
  <1>3. Counts'
    BY <1>1, <1>2, SameCounts
  <1>4. TypeOK'
    BY <1>1 DEF TypeOK, Moved
  <1>5. \A s \in Threads \ {t}, y \in Counted : held'[s][y] <= held[s][y]
    BY <1>1 DEF TypeOK, HeldRange
  <1>6. env = 0 => entries'[TheBridge] = 0
    BY DEF IInv, BridgeOK
  <1> QED BY <1>1, <1>3, <1>4, <1>5, <1>6, PlainKeeps

LEMMA FindProxyKeeps ==
    ASSUME IInv, NEW t \in Threads, FindProxy(t)
    PROVE  IInv'
  <1>1. /\ TypeOK /\ at[t].pc = "lookup"
        /\ keys' = keys /\ env' = env /\ monitor' = monitor /\ lock' = lock
        /\ several' = several /\ freed' = freed /\ thrown' = thrown
    BY DEF IInv, FindProxy
  <1>2. PICK x \in Objects : x = at[t].obj /\ held[t][x] <= MaxHeld
    BY <1>1 DEF IInv, PlaceOK, PlaceOf, Lookups
  <1>3. CASE entries[x] > 0 /\ Acquired(t, x) /\ Return(t)
    BY <1>1, <1>2, <1>3, ReturnMoves, FoundKeeps DEF Counted
  <1>4. CASE entries[x] = 0 /\ UNCHANGED <<ref, entries, held>> /\ Goto(t, "enter")
    <2>1. Moved(t, "enter", x, at[t].then, at[t].env)
      BY <1>1, <1>2, <1>4, GotoMoves DEF Lookups
    <2>2. PlaceOf(t)' /\ LockOf(t)'
      BY <1>2, <1>4, <2>1 DEF Moved, PlaceOf, LockOf, Lookups, Wraps
    <2>3. lock' \in Threads \cup {Nobody}
      BY <1>1 DEF TypeOK
    <2> QED BY <1>1, <1>4, <2>1, <2>2, <2>3, MoveKeeps DEF Lookups
  <1> QED BY <1>2, <1>3, <1>4 DEF FindProxy, Lookup

LEMMA EnterKeeps ==
    ASSUME IInv, NEW t \in Threads, Enter(t)
    PROVE  IInv'
  <1>1. /\ TypeOK /\ at[t].pc = "enter" /\ lock = Nobody /\ lock' = t /\ Goto(t, "again")
        /\ ref' = ref /\ entries' = entries /\ held' = held /\ keys' = keys /\ env' = env
        /\ monitor' = monitor /\ several' = several /\ freed' = freed /\ thrown' = thrown
        /\ PlaceOf(t)
    BY DEF IInv, Enter, PlaceOK
  <1>2. Moved(t, "again", at[t].obj, at[t].then, at[t].env)
    BY <1>1, GotoMoves DEF Lookups
  <1>3. PlaceOf(t)' /\ LockOf(t)'
    BY <1>1, <1>2 DEF Moved, PlaceOf, LockOf, Lookups, Wraps
  <1>4. \A s \in Threads \ {t} : lock = s => lock' = s
    BY <1>1, MonoAssumption
  <1> QED BY <1>1, <1>2, <1>3, <1>4, MoveKeeps DEF Lookups

LEMMA FindAgainKeeps ==
    ASSUME IInv, NEW t \in Threads, FindAgain(t)
    PROVE  IInv'
  <1>1. /\ TypeOK /\ at[t].pc = "again" /\ lock = t /\ PlaceOf(t)
        /\ keys' = keys /\ env' = env /\ monitor' = monitor
        /\ several' = several /\ freed' = freed /\ thrown' = thrown
    BY DEF IInv, FindAgain, PlaceOK, LockOK, LockOf
  <1>2. PICK x \in Objects : x = at[t].obj /\ held[t][x] <= MaxHeld
    BY <1>1 DEF PlaceOf, Lookups
  <1>3. CASE entries[x] > 0 /\ Acquired(t, x) /\ Return(t) /\ lock' = Nobody
    BY <1>1, <1>2, <1>3, ReturnMoves, FoundKeeps DEF Counted
  <1>4. CASE /\ entries[x] = 0 /\ UNCHANGED <<ref, entries, held>> /\ Goto(t, "create")
             /\ UNCHANGED lock
    <2>1. Moved(t, "create", x, at[t].then, at[t].env)
      BY <1>1, <1>2, <1>4, GotoMoves DEF Lookups
    <2>2. PlaceOf(t)' /\ LockOf(t)'
      BY <1>1, <1>2, <1>4, <2>1 DEF Moved, PlaceOf, LockOf, Lookups, Wraps
    <2>3. lock' \in Threads \cup {Nobody}
      BY <1>1, <1>4
    <2> QED BY <1>1, <1>4, <2>1, <2>2, <2>3, MoveKeeps DEF Lookups
  <1> QED BY <1>2, <1>3, <1>4 DEF FindAgain, Lookup

\* release(), of a thread that then goes on to map the object then.
LEMMA DropKeeps ==
    ASSUME IInv, NEW t \in Threads, NEW x \in Counted, held[t][x] > 0, at[t] = Idle,
           NEW then \in Objects \cup {Nobody}, then # Nobody => held[t][then] <= MaxHeld,
           Drop(t, x, then),
           entries' = entries, keys' = keys, lock' = lock, env' = env, monitor' = monitor,
           several' = several, freed' = freed, thrown' = thrown
    PROVE  IInv'
  <1>1. TypeOK /\ Counts
    BY DEF IInv
  <1>2. /\ Counts'
        /\ ref' \in [Counted -> Nat]
        /\ held' \in [Threads -> [Counted -> HeldRange]]
        /\ \A s \in Threads, y \in Counted :
              held'[s][y] = IF s = t /\ y = x THEN held[t][x] - 1 ELSE held[s][y]
    BY <1>1, DropCounts
  <1>3. \A s \in Threads, y \in Counted : held'[s][y] <= held[s][y]
    <2>1. \A s \in Threads, y \in Counted : held[s][y] \in Int
      BY <1>1 DEF TypeOK, HeldRange
    <2> QED BY <1>2, <2>1
  <1>8. then # Nobody => held'[t][then] <= MaxHeld
    <2>1. \A s \in Threads, y \in Counted : held[s][y] \in Int
      BY <1>1 DEF TypeOK, HeldRange
    <2> QED BY <1>2, <2>1, MonoAssumption DEF Counted
  <1>4. PICK pc \in {"idle", "lookup", "revoke"}, obj \in Counted \cup {Nobody},
             o \in Objects \cup {Nobody} :
           /\ Moved(t, pc, obj, o, 0)
           /\ pc = "revoke" => obj = x /\ o = then
           /\ pc = "lookup" => obj = then /\ then # Nobody
    <2>1. CASE ref[x] = 1
      BY <1>1, <2>1, BeginRevokeMoves DEF Drop
    <2>2. CASE ref[x] # 1
      BY <1>1, <2>2, ThenMoves DEF Drop, Counted
    <2> QED BY <2>1, <2>2
  <1>5. TypeOK'
    BY <1>1, <1>2, <1>4 DEF TypeOK, Moved
  <1>6. PlaceOf(t)' /\ LockOf(t)'
    BY <1>8, <1>4 DEF Moved, PlaceOf, LockOf, Lookups, Wraps
  <1>7. env = 0 => entries'[TheBridge] = 0
    BY DEF IInv, BridgeOK
  <1> QED BY <1>2, <1>3, <1>4, <1>5, <1>6, <1>7, IdleIsPlace, PlainKeeps DEF Wraps

LEMMA ReleaseKeeps ==
    ASSUME IInv, NEW t \in Threads, NEW x \in Counted, Release(t, x)
    PROVE  IInv'
  BY DropKeeps DEF Release

LEMMA MapToUnoKeeps ==
    ASSUME IInv, NEW t \in Threads, NEW o \in Objects, NEW slot \in Objects \cup {Nobody},
           MapToUno(t, o, slot)
    PROVE  IInv'
  <1>1. /\ TypeOK /\ at[t] = Idle /\ held[t][o] <= MaxHeld /\ o # Nobody
        /\ entries' = entries /\ keys' = keys /\ lock' = lock /\ env' = env
        /\ monitor' = monitor /\ several' = several /\ freed' = freed /\ thrown' = thrown
    BY MonoAssumption DEF IInv, MapToUno, TypeOK, HeldRange, Counted
  <1>2. CASE slot \in Objects /\ held[t][slot] > 0 /\ Drop(t, slot, o)
    BY <1>1, <1>2, DropKeeps DEF Counted
  <1>3. CASE /\ at' = [at EXCEPT ![t] = [Idle EXCEPT !.pc = "lookup", !.obj = o]]
             /\ UNCHANGED <<ref, held>>
    <2>3. Moved(t, "lookup", o, Nobody, 0)
      BY <1>1, <1>3, BeginMoves DEF Lookups, Counted
    <2>4. PlaceOf(t)' /\ LockOf(t)'
      BY <1>1, <1>3, <2>3 DEF Moved, PlaceOf, LockOf, Lookups, Wraps
    <2>5. lock' \in Threads \cup {Nobody}
      BY <1>1 DEF TypeOK
    <2> QED BY <1>1, <1>3, <2>3, <2>4, <2>5, IdleIsPlace, MoveKeeps DEF Lookups
  <1> QED BY <1>2, <1>3 DEF MapToUno

LEMMA PassKeeps ==
    ASSUME IInv, NEW t \in Threads, NEW s \in Threads, NEW x \in Counted, Pass(t, s, x)
    PROVE  IInv'
  <1>1. /\ TypeOK /\ Counts /\ PlaceOK /\ s # t
        /\ ref' = ref /\ entries' = entries /\ at' = at /\ keys' = keys /\ lock' = lock
        /\ env' = env /\ monitor' = monitor /\ several' = several /\ freed' = freed
        /\ thrown' = thrown
        /\ held' = [held EXCEPT ![t][x] = @ - 1, ![s][x] = @ + 1]
    BY DEF IInv, Pass
  <1>2. PICK n \in HeldRange, m \in HeldRange :
           n = held[t][x] /\ m = held[s][x] /\ n > 0 /\ m < MaxHeld
    BY DEF IInv, TypeOK, Pass
  <1>3. n - 1 \in HeldRange /\ m + 1 \in HeldRange /\ n \in Nat /\ m \in Nat
    BY <1>2, MonoAssumption DEF HeldRange
  <1>4. /\ held' \in [Threads -> [Counted -> HeldRange]]
        /\ held'[t][x] = n - 1 /\ held'[s][x] = m + 1
        /\ \A r \in Threads, y \in Counted :
              r \notin {s, t} \/ y # x => held'[r][y] = held[r][y]
    BY <1>1, <1>2, <1>3 DEF TypeOK
  <1>5. TypeOK'
    BY <1>1, <1>4 DEF TypeOK
  <1>6. Referring(x)' = Referring(x)
    <2>1. References(x)' = (References(x) \ {<<t, n>>}) \cup {<<s, m + 1>>}
      <3>1. ASSUME NEW r \in Threads, NEW i \in HeldRange
            PROVE  i <= held'[r][x] <=> \/ i <= held[r][x] /\ <<r, i>> # <<t, n>>
                                        \/ <<r, i>> = <<s, m + 1>>
        <4>1. held[r][x] \in Nat /\ i \in Nat
          BY <1>1 DEF TypeOK, HeldRange
        <4>2. CASE r = t
          <5>1. held'[r][x] = n - 1 /\ held[r][x] = n /\ <<r, i>> # <<s, m + 1>>
            BY <1>1, <1>2, <1>4, <4>2
          <5>2. i <= n - 1 <=> i <= n /\ i # n
            BY <1>3, <4>1
          <5> QED BY <4>2, <5>1, <5>2
        <4>3. CASE r = s
          BY <1>1, <1>2, <1>3, <1>4, <4>1, <4>3
        <4>4. CASE r \notin {s, t}
          BY <1>4, <4>4
        <4> QED BY <4>2, <4>3, <4>4
      <3>2. <<s, m + 1>> \in References(x)'
        BY <1>3, <1>4 DEF References
      <3>3. \A r \in Threads, i \in HeldRange :
               <<r, i>> \in References(x)'
                 <=> <<r, i>> \in (References(x) \ {<<t, n>>}) \cup {<<s, m + 1>>}
        <4> SUFFICES ASSUME NEW r \in Threads, NEW i \in HeldRange
                     PROVE  <<r, i>> \in References(x)'
                              <=> <<r, i>> \in (References(x) \ {<<t, n>>}) \cup {<<s, m + 1>>}
          OBVIOUS
        <4>1. /\ <<r, i>> \in References(x) <=> 1 <= i /\ i <= held[r][x]
              /\ <<r, i>> \in References(x)' <=> 1 <= i /\ i <= held'[r][x]
          BY DEF References
        <4>2. i <= held'[r][x] <=> \/ i <= held[r][x] /\ <<r, i>> # <<t, n>>
                                   \/ <<r, i>> = <<s, m + 1>>
          BY <3>1
        <4>3. <<r, i>> = <<s, m + 1>> => 1 <= i
          BY <1>3
        <4> QED BY <4>1, <4>2, <4>3
      <3>4. /\ References(x)' \subseteq Threads \X HeldRange
            /\ (References(x) \ {<<t, n>>}) \cup {<<s, m + 1>>} \subseteq Threads \X HeldRange
        BY <1>3 DEF References
      <3> QED BY <3>3, <3>4
    <2>2. <<t, n>> \in References(x) /\ <<s, m + 1>> \notin References(x) \ {<<t, n>>}
      BY <1>2, <1>3 DEF References
    <2>3. IsFiniteSet(References(x)) /\ Referring(x) \in Nat
      BY Finite
    <2>4. /\ IsFiniteSet(References(x) \ {<<t, n>>})
          /\ Cardinality(References(x) \ {<<t, n>>}) = Cardinality(References(x)) - 1
      BY <2>2, <2>3, FS_RemoveElement
    <2>5. Cardinality((References(x) \ {<<t, n>>}) \cup {<<s, m + 1>>})
            = Cardinality(References(x) \ {<<t, n>>}) + 1
      BY <2>2, <2>4, FS_AddElement
    <2> QED BY <2>1, <2>3, <2>4, <2>5 DEF Referring
  <1>7. ASSUME NEW y \in Counted \ {x}
        PROVE  Referring(y)' = Referring(y)
    <2>1. References(y)' = References(y)
      BY <1>4 DEF References
    <2> QED BY <2>1 DEF Referring
  <1>8. \A y \in Counted : Revoking(y)' = Revoking(y)
    BY <1>1 DEF Revoking, At
  <1>9. Counts'
    BY <1>1, <1>6, <1>7, <1>8, CountsIsCountOK DEF Counts, CountOK
  <1>10. ASSUME NEW r \in Threads, NEW y \in Counted, held[r][y] <= MaxHeld
         PROVE  held'[r][y] <= MaxHeld
    <2>1. n - 1 <= MaxHeld /\ m + 1 <= MaxHeld
      BY <1>2, <1>3, MonoAssumption DEF HeldRange
    <2>2. CASE y # x \/ r \notin {s, t}
      BY <1>4, <1>10, <2>2
    <2>3. CASE y = x /\ r \in {s, t}
      BY <1>4, <2>1, <2>3
    <2> QED BY <2>2, <2>3
  <1>11. ASSUME NEW r \in Threads
         PROVE  PlaceOf(r)'
    <2>1. PlaceOf(r) /\ at[r].then \in Objects \cup {Nobody}
      BY <1>1 DEF PlaceOK, TypeOK, Place
    <2> QED BY <1>1, <1>10, <2>1 DEF PlaceOf, Counted
  <1>12. LockOK' /\ KeysOK' /\ BridgeOK' /\ MonitorOK'
    BY <1>1 DEF IInv, LockOK, LockOf, KeysOK, BridgeOK, MonitorOK, At
  <1>13. FailsOnlyAfterFree' /\ FailsOnlyWithTwoBridges'
    BY <1>1 DEF IInv, FailsOnlyAfterFree, FailsOnlyWithTwoBridges
  <1> QED BY <1>5, <1>9, <1>11, <1>12, <1>13 DEF IInv, PlaceOK

LEMMA RevokeKeeps ==
    ASSUME IInv, NEW t \in Threads, Revoke(t)
    PROVE  IInv'
  <1>1. /\ TypeOK /\ Counts /\ PlaceOK /\ at[t].pc = "revoke"
        /\ ref' = ref /\ held' = held /\ keys' = keys /\ lock' = lock /\ env' = env
        /\ monitor' = monitor /\ several' = several /\ thrown' = thrown
    BY DEF IInv, Revoke
  <1>2. PICK x \in Counted, then \in Objects \cup {Nobody} :
           x = at[t].obj /\ then = at[t].then
    BY <1>1 DEF PlaceOK, PlaceOf, TypeOK, Place
  <1>3. /\ freed' = IF entries[x] = 1 THEN freed \cup ({x} \cap Objects) ELSE freed
        /\ Then(t, then)
    BY <1>2 DEF Revoke
  <1>4. /\ Counts' /\ entries' \in [Counted -> Nat] /\ entries[x] > 0
        /\ entries'[x] = entries[x] - 1
        /\ \A y \in Counted \ {x} : entries'[y] = entries[y]
    BY <1>1, <1>2, RevokeCounts
  <1>5. PICK pc \in {"idle", "lookup"} :
           Moved(t, pc, then, Nobody, 0) /\ (pc = "lookup" <=> then # Nobody)
    BY <1>1, <1>3, ThenMoves
  <1>6. TypeOK'
    BY <1>1, <1>3, <1>4, <1>5 DEF TypeOK, Moved
  <1>7. PlaceOf(t)' /\ LockOf(t)'
    <2>1. PlaceOf(t)
      BY <1>1 DEF PlaceOK
    <2> QED BY <1>1, <1>2, <1>5, <2>1 DEF Moved, PlaceOf, LockOf, Lookups, Wraps
  <1>8. \A s \in Threads \ {t}, y \in Counted : held'[s][y] <= held[s][y]
    BY <1>1 DEF TypeOK, HeldRange
  <1>9. /\ \A y \in Counted : entries[y] = 0 => entries'[y] = 0
        /\ \A o \in Objects : entries[o] > 0 => entries'[o] > 0 \/ o \in freed'
    BY <1>1, <1>3, <1>4 DEF TypeOK, Counted
  <1>10. env = 0 => entries'[TheBridge] = 0
    BY <1>9 DEF IInv, BridgeOK, Counted
  <1>11. freed \subseteq freed' /\ \A y \in Objects : entries[y] = 0 => entries'[y] = 0
    BY <1>3, <1>9 DEF Counted
  <1> QED BY <1>1, <1>4, <1>5, <1>6, <1>7, <1>8, <1>9, <1>10, <1>11, PlainKeeps DEF Wraps

LEMMA GetMappingKeeps ==
    ASSUME IInv, NEW t \in Threads, GetMapping(t)
    PROVE  IInv'
  <1>1. /\ TypeOK /\ at[t] = Idle /\ held[t][TheBridge] <= MaxHeld /\ TheBridge \in Counted
        /\ keys' = keys /\ lock' = lock /\ env' = env
        /\ monitor' = monitor /\ several' = several /\ freed' = freed /\ thrown' = thrown
    BY MonoAssumption DEF IInv, GetMapping, TypeOK, HeldRange, Counted
  <1>2. CASE entries[TheBridge] > 0 /\ Acquired(t, TheBridge) /\ at' = at
    <2>1. Moved(t, "idle", Nobody, Nobody, 0)
      BY <1>1, <1>2, StayMoves, IdleIsPlace
    <2> QED BY <1>1, <1>2, <2>1, IdleIsPlace, FoundKeeps
  <1>3. CASE /\ UNCHANGED <<ref, entries, held>>
             /\ at' = [at EXCEPT ![t] = [Idle EXCEPT !.pc = "bridge", !.obj = TheBridge]]
    <2>1. Moved(t, "bridge", TheBridge, Nobody, 0)
      BY <1>1, <1>3, BeginMoves
    <2>2. PlaceOf(t)' /\ LockOf(t)'
      BY <1>1, <1>3, <2>1 DEF Moved, PlaceOf, LockOf, Lookups, Wraps
    <2>3. lock' \in Threads \cup {Nobody}
      BY <1>1 DEF TypeOK
    <2> QED BY <1>1, <1>3, <2>1, <2>2, <2>3, IdleIsPlace, MoveKeeps DEF Lookups
  <1> QED BY <1>2, <1>3 DEF GetMapping, Lookup

LEMMA RegisterMappingKeeps ==
    ASSUME IInv, NEW t \in Threads, RegisterMapping(t)
    PROVE  IInv'
  <1>1. /\ TypeOK /\ Counts /\ at[t].pc = "mapping" /\ PlaceOf(t) /\ Return(t)
        /\ TheBridge \in Counted
        /\ keys' = keys /\ lock' = lock /\ env' = env
        /\ monitor' = monitor /\ several' = several /\ freed' = freed /\ thrown' = thrown
    BY DEF IInv, RegisterMapping, PlaceOK, Counted
  <1>2. held[t][TheBridge] <= MaxHeld
    BY <1>1 DEF PlaceOf
  <1>3. Moved(t, "idle", Nobody, Nobody, 0)
    BY <1>1, ReturnMoves
  <1>4. CASE entries[TheBridge] > 0 /\ Acquired(t, TheBridge)
    BY <1>1, <1>2, <1>3, <1>4, FoundKeeps
  <1>5. CASE entries[TheBridge] = 0 /\ Made(t, TheBridge)
    <2>1. \A y \in Counted : Revoking(y)' = Revoking(y)
      BY <1>1, <1>3, MovedCounts
    <2>2. /\ Counts'
          /\ ref' \in [Counted -> Nat] /\ entries' \in [Counted -> Nat]
          /\ held' \in [Threads -> [Counted -> HeldRange]]
          /\ \A y \in Counted : entries'[y] = 0 <=> y # TheBridge /\ entries[y] = 0
          /\ \A s \in Threads, y \in Counted :
                held'[s][y] = IF s = t /\ y = TheBridge THEN held[t][TheBridge] + 1
                                                        ELSE held[s][y]
      BY <1>1, <1>2, <1>5, <2>1, MadeCounts
    <2>3. TypeOK'
      BY <1>1, <1>3, <2>2 DEF TypeOK, Moved
    <2>4. PlaceOf(t)' /\ LockOf(t)'
      BY <1>3 DEF Moved, PlaceOf, LockOf, Lookups, Wraps
    <2>5. \A s \in Threads \ {t}, y \in Counted : held'[s][y] <= held[s][y]
      BY <1>1, <2>2 DEF TypeOK, HeldRange
    <2>6. /\ \A y \in Objects : entries[y] = 0 => entries'[y] = 0
          /\ \A y \in Objects : entries[y] > 0 => entries'[y] > 0
      BY <1>1, <2>2, MonoAssumption DEF TypeOK, Counted
    <2>7. env # 0
      BY <1>1 DEF IInv, BridgeOK
    <2> QED BY <1>1, <1>3, <2>2, <2>3, <2>4, <2>5, <2>6, <2>7, PlainKeeps DEF Wraps
  <1> QED BY <1>4, <1>5 DEF RegisterMapping

\* A step of t that only adds keys and failures of managed objects.
LEMMA StepKeeps ==
    ASSUME IInv, NEW t \in Threads, NEW pc, NEW obj, NEW then, NEW e,
           Moved(t, pc, obj, then, e), pc \notin Wraps,
           TypeOK', Counts', PlaceOf(t)', LockOf(t)', KeysOK', FailsOnlyAfterFree',
           \A s \in Threads \ {t}, y \in Counted : held'[s][y] <= held[s][y],
           \A s \in Threads \ {t} : lock = s => lock' = s,
           \A y \in Objects : entries[y] = 0 => entries'[y] = 0 \/ lock = t,
           entries'[TheBridge] = entries[TheBridge], pc # "mapping",
           keys' \cap UnoObjects = keys \cap UnoObjects,
           thrown' \cap UnoObjects = thrown \cap UnoObjects,
           env' = env, several' = several, monitor' = monitor
    PROVE  IInv'
  <1>1. held' \in [Threads -> [Counted -> HeldRange]]
    BY DEF TypeOK
  <1>2. \A s \in Threads \ {t} : PlaceOf(s)' /\ LockOf(s)'
    BY <1>1, OthersKeep
  <1>3. PlaceOK' /\ LockOK'
    BY <1>2 DEF PlaceOK, LockOK
  <1>4. MonitorOK'
    BY MonitorKeeps
  <1>5. BridgeOK'
    BY DEF IInv, BridgeOK, Moved
  <1>6. FailsOnlyWithTwoBridges'
    BY DEF IInv, FailsOnlyWithTwoBridges
  <1> QED BY <1>3, <1>4, <1>5, <1>6 DEF IInv

LEMMA CreateManagedProxyKeeps ==
    ASSUME IInv, NEW t \in Threads, CreateManagedProxy(t)
    PROVE  IInv'
  <1>1. /\ TypeOK /\ Counts /\ KeysOK /\ FailsOnlyAfterFree
        /\ PlaceOf(t) /\ LockOf(t) /\ at[t].pc = "create" /\ lock = t
        /\ ref' = ref /\ entries' = entries /\ held' = held /\ env' = env
        /\ monitor' = monitor /\ several' = several /\ freed' = freed
    BY DEF IInv, CreateManagedProxy, PlaceOK, LockOK, LockOf
  <1>2. PICK o \in Objects :
           o = at[t].obj /\ held[t][o] <= MaxHeld /\ entries[o] = 0 /\ o \notin UnoObjects
    BY <1>1, MonoAssumption DEF PlaceOf, LockOf, Lookups, Counted
  <1>3. \A s \in Threads \ {t}, y \in Counted : held'[s][y] <= held[s][y]
    BY <1>1 DEF TypeOK, HeldRange
  <1>4. \A s \in Threads \ {t} : lock # s /\ at[s].pc # "register"
    BY <1>1 DEF IInv, LockOK, LockOf
  <1>5. CASE /\ o \in keys /\ thrown' = thrown \cup {o} /\ Return(t)
             /\ lock' = Nobody /\ keys' = keys
    <2>1. Moved(t, "idle", Nobody, Nobody, 0)
      BY <1>1, <1>5, ReturnMoves
    <2>2. \A y \in Counted : Revoking(y)' = Revoking(y)
      BY <1>1, <2>1, MovedCounts
    <2>3. Counts'
      BY <1>1, <2>2, SameCounts
    <2>4. TypeOK'
      BY <1>1, <1>5, <2>1 DEF TypeOK, Moved
    <2>5. PlaceOf(t)' /\ LockOf(t)'
      BY <2>1 DEF Moved, PlaceOf, LockOf, Lookups, Wraps
    <2>6. KeysOK'
      BY <1>1, <1>5, <2>1, KeysKeep
    <2>7. o \in freed
      BY <1>1, <1>2, <1>4, <1>5 DEF KeysOK, At
    <2>8. FailsOnlyAfterFree'
      BY <1>1, <1>5, <2>7 DEF FailsOnlyAfterFree
    <2>9. thrown' \cap UnoObjects = thrown \cap UnoObjects
      BY <1>2, <1>5
    <2> QED BY <1>1, <1>3, <1>4, <1>5, <2>1, <2>3, <2>4, <2>5, <2>6, <2>8, <2>9,
               StepKeeps DEF Wraps
  <1>6. CASE /\ o \notin keys /\ keys' = keys \cup {o} /\ Goto(t, "register")
             /\ lock' = lock /\ thrown' = thrown
    <2>1. Moved(t, "register", o, at[t].then, at[t].env)
      BY <1>1, <1>2, <1>6, GotoMoves DEF Lookups
    <2>2. \A y \in Counted : Revoking(y)' = Revoking(y)
      BY <1>1, <2>1, MovedCounts
    <2>3. Counts'
      BY <1>1, <2>2, SameCounts
    <2>4. TypeOK'
      BY <1>1, <1>6, <2>1 DEF TypeOK, Moved
    <2>5. PlaceOf(t)' /\ LockOf(t)'
      BY <1>1, <1>2, <1>6, <2>1 DEF Moved, PlaceOf, LockOf, Lookups, Wraps
    <2>6. KeysOK'
      BY <1>1, <1>4, <1>6, <2>1 DEF KeysOK, At, Moved
    <2>7. FailsOnlyAfterFree' /\ keys' \cap UnoObjects = keys \cap UnoObjects
      BY <1>1, <1>2, <1>6 DEF FailsOnlyAfterFree
    <2> QED BY <1>1, <1>3, <1>4, <1>6, <2>1, <2>3, <2>4, <2>5, <2>6, <2>7,
               StepKeeps DEF Wraps
  <1> QED BY <1>2, <1>5, <1>6 DEF CreateManagedProxy

LEMMA RegisterProxyKeeps ==
    ASSUME IInv, NEW t \in Threads, RegisterProxy(t)
    PROVE  IInv'
  <1>1. /\ TypeOK /\ Counts /\ KeysOK /\ FailsOnlyAfterFree
        /\ PlaceOf(t) /\ LockOf(t) /\ at[t].pc = "register" /\ lock = t /\ lock' = Nobody
        /\ Return(t) /\ Made(t, at[t].obj)
        /\ keys' = keys /\ env' = env /\ monitor' = monitor
        /\ several' = several /\ freed' = freed /\ thrown' = thrown
    BY DEF IInv, RegisterProxy, PlaceOK, LockOK, LockOf
  <1>2. PICK o \in Objects :
           o = at[t].obj /\ held[t][o] <= MaxHeld /\ entries[o] = 0 /\ o \in Counted
    BY <1>1 DEF PlaceOf, LockOf, Lookups, Counted
  <1>3. Moved(t, "idle", Nobody, Nobody, 0)
    BY <1>1, ReturnMoves
  <1>4. \A y \in Counted : Revoking(y)' = Revoking(y)
    BY <1>1, <1>3, MovedCounts
  <1>5. /\ Counts'
        /\ ref' \in [Counted -> Nat] /\ entries' \in [Counted -> Nat]
        /\ held' \in [Threads -> [Counted -> HeldRange]]
        /\ \A y \in Counted : entries'[y] = 0 <=> y # o /\ entries[y] = 0
        /\ \A s \in Threads, y \in Counted :
              held'[s][y] = IF s = t /\ y = o THEN held[t][o] + 1 ELSE held[s][y]
    BY <1>1, <1>2, <1>4, MadeCounts
  <1>6. TypeOK'
    BY <1>1, <1>3, <1>5 DEF TypeOK, Moved
  <1>7. PlaceOf(t)' /\ LockOf(t)'
    BY <1>3 DEF Moved, PlaceOf, LockOf, Lookups, Wraps
  <1>8. \A s \in Threads \ {t}, y \in Counted : held'[s][y] <= held[s][y]
    BY <1>1, <1>5 DEF TypeOK, HeldRange
  <1>9. KeysOK'
    <2>1. \A y \in Objects : entries[y] > 0 => entries'[y] > 0
      BY <1>1, <1>5 DEF TypeOK, Counted
    <2>2. entries'[o] > 0
      BY <1>2, <1>5
    <2> QED BY <1>1, <1>2, <1>3, <2>1, <2>2 DEF KeysOK, At, Moved
  <1>10. entries'[TheBridge] = entries[TheBridge]
    BY <1>1, <1>2, MonoAssumption DEF Made, TypeOK, Counted
  <1>11. FailsOnlyAfterFree'
    BY <1>1 DEF FailsOnlyAfterFree
  <1>12. \A s \in Threads \ {t} : lock # s
    BY <1>1
  <1> QED BY <1>1, <1>3, <1>5, <1>6, <1>7, <1>8, <1>9, <1>10, <1>11, <1>12, StepKeeps DEF Wraps

(***************************************************************************)
(* Steps inside the managed environment.                                   *)
(***************************************************************************)
Registries == <<ref, entries, held, lock, freed>>

LEMMA ManagedKeeps ==
    ASSUME IInv, NEW t \in Threads, NEW pc, NEW obj, NEW then, NEW e,
           Moved(t, pc, obj, then, e), UNCHANGED Registries,
           at[t].pc # "revoke", at[t].pc \notin Lookups,
           pc # "revoke", pc \notin Lookups,
           keys' \cap Objects = keys \cap Objects,
           thrown' \cap Objects = thrown \cap Objects,
           TypeOK', PlaceOf(t)', BridgeOK', MonitorOK', FailsOnlyWithTwoBridges'
    PROVE  IInv'
  <1>1. /\ TypeOK /\ Counts
        /\ ref' = ref /\ entries' = entries /\ held' = held /\ lock' = lock /\ freed' = freed
    BY DEF IInv, Registries
  <1>2. /\ held' \in [Threads -> [Counted -> HeldRange]]
        /\ \A s \in Threads \ {t}, y \in Counted : held'[s][y] <= held[s][y]
    BY <1>1 DEF TypeOK, HeldRange
  <1>3. \A s \in Threads \ {t} : PlaceOf(s)' /\ LockOf(s)'
    BY <1>1, <1>2, OthersKeep
  <1>4. LockOf(t)'
    BY DEF Moved, LockOf, Lookups
  <1>5. PlaceOK' /\ LockOK'
    BY <1>3, <1>4 DEF PlaceOK, LockOK
  <1>6. \A y \in Counted : Revoking(y)' = Revoking(y)
    BY <1>1, MovedCounts
  <1>7. Counts'
    BY <1>1, <1>6, SameCounts
  <1>8. KeysOK'
    BY <1>1 DEF IInv, KeysOK, Moved, At, Lookups
  <1>9. FailsOnlyAfterFree'
    BY <1>1 DEF IInv, FailsOnlyAfterFree
  <1> QED BY <1>5, <1>7, <1>8, <1>9 DEF IInv

LEMMA MapToMonoKeeps ==
    ASSUME IInv, NEW t \in Threads, NEW u \in UnoObjects, MapToMono(t, u)
    PROVE  IInv'
  <1>1. /\ TypeOK /\ Counts /\ BridgeOK /\ MonitorOK /\ at[t].pc = "idle"
        /\ held[t][TheBridge] > 0 /\ UNCHANGED Registries
        /\ entries' = entries /\ held' = held
        /\ keys' = keys /\ env' = env /\ monitor' = monitor /\ several' = several
        /\ thrown' = thrown
    BY IdleIsPlace DEF IInv, MapToMono, Registries
  <1>2. Moved(t, "wait", u, Nobody, env)
    BY BeginWaitMoves DEF IInv, TypeOK, MapToMono
  <1>3. env # 0
    BY <1>1, HeldIsRegistered DEF BridgeOK, Counted
  <1>4. TypeOK'
    BY <1>1, <1>2 DEF TypeOK, Moved, Registries
  <1>5. PlaceOf(t)'
    BY <1>2 DEF Moved, PlaceOf, Lookups, Wraps
  <1>6. BridgeOK' /\ MonitorOK'
    BY <1>1, <1>2, <1>3 DEF BridgeOK, MonitorOK, Moved
  <1>7. FailsOnlyWithTwoBridges'
    BY <1>1 DEF IInv, FailsOnlyWithTwoBridges
  <1> QED BY <1>1, <1>2, <1>4, <1>5, <1>6, <1>7, ManagedKeeps DEF Lookups

LEMMA EnterManagedKeeps ==
    ASSUME IInv, NEW t \in Threads, EnterManaged(t)
    PROVE  IInv'
  <1>1. /\ TypeOK /\ PlaceOf(t) /\ BridgeOK /\ MonitorOK /\ at[t].pc = "wait"
        /\ UNCHANGED Registries /\ entries' = entries /\ held' = held
        /\ monitor[at[t].env] = Nobody
        /\ monitor' = [monitor EXCEPT ![at[t].env] = t]
        /\ keys' = keys /\ env' = env /\ several' = several /\ thrown' = thrown
        /\ at[t].env \in Environments
    BY DEF IInv, EnterManaged, Registries, PlaceOK, TypeOK, Place
  <1>2. Moved(t, "find", at[t].obj, at[t].then, at[t].env)
    BY <1>1, GotoMoves DEF EnterManaged, Wraps
  <1>3. TypeOK'
    BY <1>1, <1>2 DEF TypeOK, Moved, Registries
  <1>4. PlaceOf(t)'
    BY <1>1, <1>2 DEF Moved, PlaceOf, Lookups, Wraps
  <1>5. BridgeOK'
    BY <1>1, <1>2 DEF BridgeOK, Moved
  <1>6. MonitorOK'
    <2>1. monitor'[at[t].env] = t /\ \A e \in Environments \ {at[t].env} : monitor'[e] = monitor[e]
      BY <1>1 DEF TypeOK
    <2>2. ASSUME NEW s \in Threads, at'[s].pc \in {"find", "wrap"}
          PROVE  monitor'[at'[s].env] = s
      <3>1. CASE s = t
        BY <1>2, <2>1, <3>1 DEF Moved
      <3>2. CASE s # t
        <4>1. at'[s] = at[s] /\ monitor[at[s].env] = s /\ at[s].env \in Environments
          BY <1>1, <1>2, <2>2, <3>2 DEF Moved, MonitorOK, TypeOK, Place
        <4> QED BY <1>1, <2>1, <4>1, MonoAssumption
      <3> QED BY <3>1, <3>2
    <2>3. ASSUME ~several, NEW s \in Threads
          PROVE  /\ at'[s].pc \in Wraps => at'[s].env = env' /\ env' # 0
                 /\ at'[s].pc = "wrap" => at'[s].obj \notin keys'
      BY <1>1, <1>2, <2>3 DEF Moved, MonitorOK, Wraps
    <2> QED BY <1>1, <2>2, <2>3 DEF MonitorOK
  <1>7. FailsOnlyWithTwoBridges'
    BY <1>1 DEF IInv, FailsOnlyWithTwoBridges
  <1> QED BY <1>1, <1>2, <1>3, <1>4, <1>5, <1>6, <1>7, ManagedKeeps DEF Lookups

\* A thread that leaves its environment.
LEMMA ExitKeeps ==
    ASSUME IInv, NEW t \in Threads, at[t].pc \in {"find", "wrap"}, Return(t), Exit(t),
           UNCHANGED Registries, env' = env, several' = several,
           keys' \in {keys, keys \cup {at[t].obj}},
           keys' = keys \/ at[t].pc = "wrap",
           thrown' \in SUBSET (Objects \cup UnoObjects),
           thrown' = thrown \/ (several /\ thrown' \cap Objects = thrown \cap Objects)
    PROVE  IInv'
  <1>1. /\ TypeOK /\ PlaceOf(t) /\ BridgeOK /\ MonitorOK
        /\ entries' = entries /\ held' = held
        /\ monitor' = [monitor EXCEPT ![at[t].env] = Nobody]
        /\ at[t].env \in Environments /\ monitor[at[t].env] = t
    BY DEF IInv, Exit, Registries, PlaceOK, TypeOK, Place, MonitorOK
  <1>2. at[t].obj \in UnoObjects /\ at[t].obj \notin Objects
    BY <1>1, MonoAssumption DEF PlaceOf, Wraps, Counted
  <1>3. Moved(t, "idle", Nobody, Nobody, 0)
    BY <1>1, ReturnMoves
  <1>4. TypeOK'
    BY <1>1, <1>2, <1>3 DEF TypeOK, Moved, Registries
  <1>5. PlaceOf(t)' /\ BridgeOK'
    BY <1>1, <1>3 DEF Moved, PlaceOf, Lookups, Wraps, BridgeOK
  <1>6. MonitorOK'
    <2>1. \A s \in Threads \ {t} :
             at[s].pc \in {"find", "wrap"} => at[s].env # at[t].env
      BY <1>1 DEF MonitorOK
    <2>2. \A e \in Environments \ {at[t].env} : monitor'[e] = monitor[e]
      BY <1>1 DEF TypeOK
    <2>3. ASSUME NEW s \in Threads, at'[s].pc \in {"find", "wrap"}
          PROVE  monitor'[at'[s].env] = s
      <3>1. s # t /\ at'[s] = at[s] /\ at[s].env \in Environments
        BY <1>1, <1>3, <2>3 DEF Moved, TypeOK, Place
      <3> QED BY <1>1, <2>1, <2>2, <2>3, <3>1 DEF MonitorOK
    <2>4. ASSUME ~several, NEW s \in Threads
          PROVE  /\ at'[s].pc \in Wraps => at'[s].env = env' /\ env' # 0
                 /\ at'[s].pc = "wrap" => at'[s].obj \notin keys'
      <3>1. CASE s = t
        BY <1>3, <3>1 DEF Moved, Wraps
      <3>2. CASE s # t
        <4>1. at'[s] = at[s]
          BY <1>3, <3>2 DEF Moved
        <4>2. at[s].pc \in Wraps => at[s].env = env /\ env # 0
          BY <1>1, <2>4 DEF MonitorOK
        <4>3. at[t].env = env
          BY <1>1, <2>4 DEF MonitorOK, Wraps
        <4>4. at[s].pc # "wrap"
          BY <2>1, <3>2, <4>2, <4>3 DEF Wraps
        <4> QED BY <4>1, <4>2, <4>4
      <3> QED BY <3>1, <3>2
    <2> QED BY <2>3, <2>4 DEF MonitorOK
  <1>7. FailsOnlyWithTwoBridges'
    BY DEF IInv, FailsOnlyWithTwoBridges
  <1>8. keys' \cap Objects = keys \cap Objects /\ thrown' \cap Objects = thrown \cap Objects
    BY <1>2
  <1> QED BY <1>3, <1>4, <1>5, <1>6, <1>7, <1>8, ManagedKeeps DEF Lookups

LEMMA FindManagedKeeps ==
    ASSUME IInv, NEW t \in Threads, FindManaged(t)
    PROVE  IInv'
  <1>1. /\ TypeOK /\ PlaceOf(t) /\ BridgeOK /\ MonitorOK /\ at[t].pc = "find"
        /\ UNCHANGED Registries /\ entries' = entries /\ held' = held
        /\ keys' = keys /\ env' = env /\ several' = several /\ thrown' = thrown
    BY DEF IInv, FindManaged, Registries, PlaceOK
  <1>2. CASE Return(t) /\ Exit(t)
    <2>1. thrown \in SUBSET (Objects \cup UnoObjects)
      BY <1>1 DEF TypeOK
    <2> QED BY <1>1, <1>2, <2>1, ExitKeeps
  <1>3. CASE at[t].obj \notin keys /\ Goto(t, "wrap") /\ monitor' = monitor
    <2>1. Moved(t, "wrap", at[t].obj, at[t].then, at[t].env)
      BY <1>1, <1>3, GotoMoves DEF Wraps
    <2>2. TypeOK'
      BY <1>1, <1>3, <2>1 DEF TypeOK, Moved, Registries
    <2>3. PlaceOf(t)' /\ BridgeOK'
      BY <1>1, <2>1 DEF Moved, PlaceOf, Lookups, Wraps, BridgeOK
    <2>4. MonitorOK'
      BY <1>1, <1>3, <2>1 DEF Moved, MonitorOK, Wraps
    <2>5. FailsOnlyWithTwoBridges'
      BY <1>1 DEF IInv, FailsOnlyWithTwoBridges
    <2> QED BY <1>1, <2>1, <2>2, <2>3, <2>4, <2>5, ManagedKeeps DEF Lookups
  <1> QED BY <1>2, <1>3 DEF FindManaged

LEMMA WrapKeeps ==
    ASSUME IInv, NEW t \in Threads, Wrap(t)
    PROVE  IInv'
  <1>1. /\ TypeOK /\ PlaceOf(t) /\ MonitorOK /\ at[t].pc = "wrap"
        /\ Return(t) /\ Exit(t) /\ UNCHANGED Registries
        /\ env' = env /\ several' = several
        /\ keys' = keys \cup {at[t].obj}
        /\ thrown' = IF at[t].obj \in keys THEN thrown \cup {at[t].obj} ELSE thrown
    BY DEF IInv, Wrap, Registries, PlaceOK
  <1>2. at[t].obj \in UnoObjects /\ at[t].obj \notin Objects
    BY <1>1, MonoAssumption DEF PlaceOf, Wraps, Counted
  <1>3. thrown' \in SUBSET (Objects \cup UnoObjects)
    BY <1>1, <1>2 DEF TypeOK
  <1>4. thrown' = thrown \/ (several /\ thrown' \cap Objects = thrown \cap Objects)
    BY <1>1, <1>2 DEF MonitorOK
  <1> QED BY <1>1, <1>3, <1>4, ExitKeeps

\* There are more environments than the other threads and the newest bridge use.
LEMMA FreshEnvironment ==
    ASSUME TypeOK, NEW t \in Threads, at[t].env = 0
    PROVE  \E e \in Environments \ {0} : e # env /\ \A s \in Threads : at[s].env # e
  <1> DEFINE f == [s \in Threads |-> at[s].env]
             S == {f[s] : s \in Threads}
  <1>1. IsFiniteSet(Threads) /\ Cardinality(Threads) \in Nat
    BY MonoAssumption, FS_CardinalityType
  <1>2. f \in Surjection(Threads, S)
    BY DEF Surjection
  <1>3. IsFiniteSet(S) /\ Cardinality(S) <= Cardinality(Threads)
    <2> HIDE DEF f, S
    <2> QED BY <1>1, <1>2, FS_Surjection
  <1>4. IsFiniteSet(S \cup {env}) /\ Cardinality(S \cup {env}) <= Cardinality(Threads) + 1
    <2>1. Cardinality(S) \in Nat
      BY <1>3, FS_CardinalityType
    <2>2. /\ IsFiniteSet(S \cup {env})
          /\ Cardinality(S \cup {env})
               = IF env \in S THEN Cardinality(S) ELSE Cardinality(S) + 1
      <3> HIDE DEF f, S
      <3> QED BY <1>3, FS_AddElement
    <2> HIDE DEF f, S
    <2> QED BY <1>1, <1>3, <2>1, <2>2
  <1>5. Cardinality(Environments) = Cardinality(Threads) + 2
    BY <1>1, FS_Interval DEF Environments
  <1>6. ~(Environments \subseteq S \cup {env})
    <2> HIDE DEF f, S
    <2> SUFFICES ASSUME Environments \subseteq S \cup {env} PROVE FALSE
      OBVIOUS
    <2>1. Cardinality(Environments) <= Cardinality(S \cup {env})
      BY <1>4, FS_Subset
    <2>2. Cardinality(S \cup {env}) \in Nat
      BY <1>4, FS_CardinalityType
    <2> QED BY <1>1, <1>4, <1>5, <2>1, <2>2
  <1>7. PICK e \in Environments : e \notin S \cup {env}
    BY <1>6
  <1>8. \A s \in Threads : at[s].env \in S
    OBVIOUS
  <1>9. 0 \in S
    BY <1>8
  <1> HIDE DEF f, S
  <1> QED BY <1>7, <1>8, <1>9

LEMMA NewBridgeKeeps ==
    ASSUME IInv, NEW t \in Threads, NewBridge(t)
    PROVE  IInv'
  <1>1. /\ TypeOK /\ PlaceOf(t) /\ MonitorOK /\ at[t].pc = "bridge"
        /\ UNCHANGED Registries /\ entries' = entries /\ held' = held
        /\ keys' = keys /\ monitor' = monitor /\ thrown' = thrown
        /\ several' = (several \/ env # 0)
    BY DEF IInv, NewBridge, Registries, PlaceOK
  <1>2. at[t].env = 0
    BY <1>1 DEF PlaceOf
  <1>3. env' \in Environments \ {0}
    BY <1>1, <1>2, FreshEnvironment DEF NewBridge
  <1>4. Moved(t, "mapping", at[t].obj, at[t].then, at[t].env)
    BY <1>1, GotoMoves DEF NewBridge
  <1>5. several' \in BOOLEAN
    BY <1>1
  <1>6. TypeOK'
    BY <1>1, <1>3, <1>4, <1>5 DEF TypeOK, Moved, Registries
  <1>7. PlaceOf(t)'
    BY <1>1, <1>4 DEF Moved, PlaceOf, Lookups, Wraps
  <1>8. BridgeOK'
    BY <1>3 DEF BridgeOK
  <1>9. MonitorOK'
    <2>1. \A s \in Threads : at'[s].pc \in {"find", "wrap"} => monitor'[at'[s].env] = s
      BY <1>1, <1>4 DEF MonitorOK, Moved
    <2>2. ASSUME ~several'
          PROVE  \A s \in Threads : at'[s].pc \notin Wraps
      <3>1. ~several /\ env = 0
        BY <1>1, <2>2
      <3>2. \A s \in Threads : at[s].pc \notin Wraps
        BY <1>1, <3>1 DEF MonitorOK
      <3> QED BY <1>4, <3>2 DEF Moved, Wraps
    <2> QED BY <2>1, <2>2 DEF MonitorOK, Wraps
  <1>10. FailsOnlyWithTwoBridges'
    BY <1>1 DEF IInv, FailsOnlyWithTwoBridges
  <1> QED BY <1>1, <1>4, <1>6, <1>7, <1>8, <1>9, <1>10, ManagedKeeps DEF Lookups

(***************************************************************************)
(* The theorems.                                                           *)
(***************************************************************************)

\* Before the first bridge nothing is registered, and the invariant holds.
THEOREM InitOK == Init => IInv
  <1> SUFFICES ASSUME Init PROVE IInv
    OBVIOUS
  <1>1. 0 \in HeldRange
    BY MonoAssumption DEF HeldRange
  <1>2. TypeOK
    <2>1. 0 \in Environments /\ Idle \in Place
      BY IdleIsPlace DEF Place
    <2> QED BY <1>1, <2>1 DEF Init, TypeOK
  <1>3. \A x \in Counted : References(x) = {} /\ Revoking(x) = {}
    BY IdleIsPlace DEF Init, References, Revoking, At, HeldRange
  <1>4. Counts
    BY <1>3, FS_EmptySet DEF Counts, Referring, Init
  <1>5. \A t \in Threads : at[t].pc = "idle"
    BY IdleIsPlace DEF Init
  <1>6. PlaceOK /\ LockOK
    BY <1>5 DEF PlaceOK, PlaceOf, LockOK, LockOf, Lookups, Wraps
  <1>7. KeysOK /\ BridgeOK
    BY <1>5 DEF Init, KeysOK, BridgeOK, Counted
  <1>8. MonitorOK
    BY <1>5 DEF MonitorOK, Wraps
  <1>9. FailsOnlyAfterFree /\ FailsOnlyWithTwoBridges
    BY DEF Init, FailsOnlyAfterFree, FailsOnlyWithTwoBridges
  <1> QED BY <1>2, <1>4, <1>6, <1>7, <1>8, <1>9 DEF IInv

LEMMA NextKeeps == IInv /\ [Next]_vars => IInv'
  <1> SUFFICES ASSUME IInv, [Next]_vars PROVE IInv'
    OBVIOUS
  <1>1. CASE UNCHANGED vars
    <2>1. /\ ref' = ref /\ entries' = entries /\ held' = held /\ at' = at /\ keys' = keys
          /\ lock' = lock /\ env' = env /\ monitor' = monitor /\ several' = several
          /\ freed' = freed /\ thrown' = thrown
      BY <1>1 DEF vars
    <2>2. TypeOK'
      BY <2>1 DEF IInv, TypeOK
    <2>3. \A y \in Counted : Revoking(y)' = Revoking(y)
      BY <2>1 DEF Revoking, At
    <2>4. Counts'
      BY <2>1, <2>3, SameCounts DEF IInv
    <2>5. PlaceOK' /\ LockOK'
      BY <2>1 DEF IInv, PlaceOK, PlaceOf, LockOK, LockOf
    <2>6. KeysOK' /\ BridgeOK' /\ MonitorOK'
      BY <2>1 DEF IInv, KeysOK, BridgeOK, MonitorOK, At
    <2>7. FailsOnlyAfterFree' /\ FailsOnlyWithTwoBridges'
      BY <2>1 DEF IInv, FailsOnlyAfterFree, FailsOnlyWithTwoBridges
    <2> QED BY <2>2, <2>4, <2>5, <2>6, <2>7 DEF IInv
  <1>2. ASSUME NEW t \in Threads, Start(t)
        PROVE  IInv'
    BY <1>2, CopyKeeps, ReleaseKeeps, PassKeeps, MapToUnoKeeps, MapToMonoKeeps,
       GetMappingKeeps DEF Start
  <1>3. ASSUME NEW t \in Threads, Continue(t)
        PROVE  IInv'
    BY <1>3, RevokeKeeps, FindProxyKeeps, EnterKeeps, FindAgainKeeps,
       CreateManagedProxyKeeps, RegisterProxyKeeps, EnterManagedKeeps, FindManagedKeeps,
       WrapKeeps, NewBridgeKeeps, RegisterMappingKeeps DEF Continue
  <1> QED BY <1>1, <1>2, <1>3 DEF Next

THEOREM InductiveInvariant == Spec => []IInv
  <1>1. Init => IInv
    BY InitOK
  <1>2. IInv /\ [Next]_vars => IInv'
    BY NextKeeps
  <1> QED BY <1>1, <1>2, PTL DEF Spec

\* acquire() and release() of MonoProxy and of Bridge count what the threads hold
\* and keep one registration, whatever lookups bring back in between.
THEOREM CountsAlways == Spec => []Counts
  <1>1. IInv => Counts
    BY DEF IInv
  <1> QED BY <1>1, InductiveInvariant, PTL

\* Threads that map one managed object at a time get one proxy; the mapping throws
\* only when the object's proxy has been deleted and its key was left behind.
THEOREM FailsOnlyAfterFreeAlways == Spec => []FailsOnlyAfterFree
  <1>1. IInv => FailsOnlyAfterFree
    BY DEF IInv
  <1> QED BY <1>1, InductiveInvariant, PTL

\* Threads that map one UNO object at a time wrap it once, as long as the bridge is
\* the first one.
THEOREM FailsOnlyWithTwoBridgesAlways == Spec => []FailsOnlyWithTwoBridges
  <1>1. IInv => FailsOnlyWithTwoBridges
    BY DEF IInv
  <1> QED BY <1>1, InductiveInvariant, PTL
=============================================================================
