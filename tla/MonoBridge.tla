----------------------------- MODULE MonoBridge -----------------------------
(***************************************************************************)
(* scratch/mono-uno-bridge: objects of a managed runtime are handed to     *)
(* UNO, and UNO objects to the runtime, from any thread.                   *)
(*                                                                         *)
(* Two kinds of C++ objects are counted: the proxy of a managed object     *)
(* (MonoProxy) and the bridge (Bridge).  Both are registered without being *)
(* counted by the registry, which frees them when the last registration is *)
(* revoked; a lookup may find an object that is about to be revoked, and   *)
(* then brings it back.                                                    *)
(*                                                                         *)
(* A call, a lock, an interlocked operation and a call of a registry are   *)
(* one step each.  One interface type per object; values are left out.     *)
(***************************************************************************)
EXTENDS Integers, FiniteSets

CONSTANTS
    Threads,
    Objects,        \* managed objects
    UnoObjects,     \* objects of the office
    TheBridge,      \* the mapping between the two environments
    Nobody,
    MaxHeld         \* bound: references a thread has to one object

Counted == Objects \cup {TheBridge}

ASSUME MonoAssumption ==
    /\ IsFiniteSet(Threads)
    /\ TheBridge \notin Objects
    /\ Nobody \notin Threads
    /\ Nobody \notin Counted
    /\ UnoObjects \cap Counted = {}
    /\ MaxHeld \in Nat \ {0}

VARIABLES
    ref,        \* m_ref of a counted object
    entries,    \* registrations of it, 0 when it does not exist
    keys,       \* what m_objects has: managed objects, UNO objects
    held,       \* references that each thread has
    at,         \* what each thread is doing, and with which object
    lock,       \* owner of the monitor of typeof(Cli_environment)
    env,        \* the Cli_environment of the newest bridge
    monitor,    \* owner of the monitor of each Cli_environment
    several,    \* observation: a second bridge has been made
    freed,      \* observation: proxies that have been deleted
    thrown      \* observation: objects whose mapping has thrown

vars == <<ref, entries, keys, held, at, lock, env, monitor, several, freed, thrown>>

\* Enough to have one that nobody uses.
Environments == 0..(Cardinality(Threads) + 1)

\* A thread that begins a mapping with the most references may be passed one
\* before the mapping returns another.
HeldRange == 0..(MaxHeld + 1)

Idle == [pc |-> "idle", obj |-> Nobody, then |-> Nobody, env |-> 0]

At(t, pc, x) == at[t].pc = pc /\ at[t].obj = x

Goto(t, pc)  == at' = [at EXCEPT ![t].pc = pc]
Return(t)    == at' = [at EXCEPT ![t] = Idle]

Init ==
    /\ ref = [x \in Counted |-> 0]
    /\ entries = [x \in Counted |-> 0]
    /\ keys = {}
    /\ held = [t \in Threads |-> [x \in Counted |-> 0]]
    /\ at = [t \in Threads |-> Idle]
    /\ lock = Nobody
    /\ env = 0
    /\ monitor = [e \in Environments |-> Nobody]
    /\ several = FALSE
    /\ freed = {}
    /\ thrown = {}

(***************************************************************************)
(* The registries: the UNO environment for proxies, cppu's mappings for    *)
(* the bridge.                                                             *)
(***************************************************************************)

\* acquire() of MonoProxy and of Bridge: what was at zero registers again.
\* A registry calls it with its mutex locked.
Acquired(t, x) ==
    /\ ref' = [ref EXCEPT ![x] = @ + 1]
    /\ entries' = [entries EXCEPT ![x] = IF ref[x] = 0 THEN @ + 1 ELSE @]
    /\ held' = [held EXCEPT ![t][x] = @ + 1]

Made(t, x) ==
    /\ ref' = [ref EXCEPT ![x] = 1]
    /\ entries' = [entries EXCEPT ![x] = 1]
    /\ held' = [held EXCEPT ![t][x] = @ + 1]

\* A mapping that finds something to return, or goes on.
Lookup(t, x, found, missing) ==
    \/ entries[x] > 0 /\ Acquired(t, x) /\ found
    \/ entries[x] = 0 /\ UNCHANGED <<ref, entries, held>> /\ missing

(***************************************************************************)
(* References.                                                             *)
(***************************************************************************)
Copy(t, x) ==
    /\ at[t] = Idle
    /\ held[t][x] \in 1..(MaxHeld - 1)
    /\ Acquired(t, x)
    /\ UNCHANGED <<keys, at, lock, env, monitor, several, freed, thrown>>

\* Passing a reference to another thread; the receiver's own acquire is Copy.
Pass(t, s, x) ==
    /\ at[t] = Idle
    /\ s # t
    /\ held[t][x] > 0
    /\ held[s][x] < MaxHeld
    /\ held' = [held EXCEPT ![t][x] = @ - 1, ![s][x] = @ + 1]
    /\ UNCHANGED <<ref, entries, keys, at, lock, env, monitor, several, freed, thrown>>

\* After a release: the call has ended, or a mapping goes on.
Then(t, o) ==
    at' = [at EXCEPT ![t] = IF o = Nobody THEN Idle
                            ELSE [Idle EXCEPT !.pc = "lookup", !.obj = o]]

\* Mutant: every release revokes.
DropAlways(t, x, then) ==
    /\ ref' = [ref EXCEPT ![x] = @ - 1]
    /\ held' = [held EXCEPT ![t][x] = @ - 1]
    /\ at' = [at EXCEPT ![t] = [Idle EXCEPT !.pc = "revoke", !.obj = x, !.then = then]]

\* release(): who brings the count to zero has to revoke.
Drop(t, x, then) ==
    /\ ref' = [ref EXCEPT ![x] = @ - 1]
    /\ held' = [held EXCEPT ![t][x] = @ - 1]
    /\ IF ref[x] = 1
       THEN at' = [at EXCEPT ![t] = [Idle EXCEPT !.pc = "revoke", !.obj = x, !.then = then]]
       ELSE Then(t, then)

Release(t, x) ==
    /\ at[t] = Idle
    /\ held[t][x] > 0
    /\ Drop(t, x, Nobody)
    /\ UNCHANGED <<entries, keys, lock, env, monitor, several, freed, thrown>>

\* revokeInterface, uno_revokeMapping; the last one frees (mono_proxy_free,
\* Bridge_free).  What the managed environment has is not revoked.
Revoke(t) ==
    /\ at[t].pc = "revoke"
    /\ LET x == at[t].obj
       IN  /\ entries' = [entries EXCEPT ![x] = @ - 1]
           /\ freed' = IF entries[x] = 1 THEN freed \cup ({x} \cap Objects) ELSE freed
           /\ Then(t, at[t].then)
    /\ UNCHANGED <<ref, keys, held, lock, env, monitor, several, thrown>>

(***************************************************************************)
(* A managed object is mapped to UNO: Mapping_map_to_uno, MapManagedToUno. *)
(***************************************************************************)

\* The reference that was in the variable is released before.
MapToUno(t, o, slot) ==
    /\ at[t] = Idle
    /\ held[t][TheBridge] > 0
    /\ held[t][o] < MaxHeld
    /\ \/ /\ slot = Nobody
          /\ at' = [at EXCEPT ![t] = [Idle EXCEPT !.pc = "lookup", !.obj = o]]
          /\ UNCHANGED <<ref, held>>
       \/ /\ slot \in Objects
          /\ held[t][slot] > 0
          /\ Drop(t, slot, o)
    /\ UNCHANGED <<entries, keys, lock, env, monitor, several, freed, thrown>>

FindProxy(t) ==
    /\ at[t].pc = "lookup"
    /\ Lookup(t, at[t].obj, Return(t), Goto(t, "enter"))
    /\ UNCHANGED <<keys, lock, env, monitor, several, freed, thrown>>

Enter(t) ==
    /\ at[t].pc = "enter"
    /\ lock = Nobody
    /\ lock' = t
    /\ Goto(t, "again")
    /\ UNCHANGED <<ref, entries, keys, held, env, monitor, several, freed, thrown>>

\* Mutant: whether another thread has made the proxy meanwhile is not asked.
FindAgainNot(t) ==
    /\ at[t].pc = "again"
    /\ Goto(t, "create")
    /\ UNCHANGED <<ref, entries, keys, held, lock, env, monitor, several, freed, thrown>>

FindAgain(t) ==
    /\ at[t].pc = "again"
    /\ Lookup(t, at[t].obj, Return(t) /\ lock' = Nobody,
                            Goto(t, "create") /\ UNCHANGED lock)
    /\ UNCHANGED <<keys, env, monitor, several, freed, thrown>>

\* Mutant: what throws is tried again.
CreateManagedProxyRetries(t) ==
    /\ at[t].pc = "create"
    /\ LET o == at[t].obj
       IN  \/ /\ o \in keys
              /\ thrown' = thrown \cup {o}
              /\ UNCHANGED <<at, keys, lock>>
           \/ /\ o \notin keys
              /\ keys' = keys \cup {o}
              /\ Goto(t, "register")
              /\ UNCHANGED <<lock, thrown>>
    /\ UNCHANGED <<ref, entries, held, env, monitor, several, freed>>

\* CreateManagedProxy: the key of an object that was mapped before is still
\* there, and adding it again throws.
CreateManagedProxy(t) ==
    /\ at[t].pc = "create"
    /\ LET o == at[t].obj
       IN  \/ /\ o \in keys
              /\ thrown' = thrown \cup {o}
              /\ Return(t)
              /\ lock' = Nobody
              /\ UNCHANGED keys
           \/ /\ o \notin keys
              /\ keys' = keys \cup {o}
              /\ Goto(t, "register")
              /\ UNCHANGED <<lock, thrown>>
    /\ UNCHANGED <<ref, entries, held, env, monitor, several, freed>>

\* cli_uno_environment_createMonoProxyAndRegister
RegisterProxy(t) ==
    /\ at[t].pc = "register"
    /\ Made(t, at[t].obj)
    /\ Return(t)
    /\ lock' = Nobody
    /\ UNCHANGED <<keys, env, monitor, several, freed, thrown>>

(***************************************************************************)
(* A UNO object is mapped to the runtime: Mapping_map_to_mono,             *)
(* MapUnoToManaged.  It is in the environment of the newest bridge.        *)
(***************************************************************************)
MapToMono(t, u) ==
    /\ at[t] = Idle
    /\ held[t][TheBridge] > 0
    /\ at' = [at EXCEPT ![t] = [Idle EXCEPT !.pc = "wait", !.obj = u, !.env = env]]
    /\ UNCHANGED <<ref, entries, keys, held, lock, env, monitor, several, freed, thrown>>

\* Mutant: nobody waits.
EnterManagedAnyway(t) ==
    /\ at[t].pc = "wait"
    /\ monitor' = [monitor EXCEPT ![at[t].env] = t]
    /\ Goto(t, "find")
    /\ UNCHANGED <<ref, entries, keys, held, lock, env, several, freed, thrown>>

EnterManaged(t) ==
    /\ at[t].pc = "wait"
    /\ monitor[at[t].env] = Nobody
    /\ monitor' = [monitor EXCEPT ![at[t].env] = t]
    /\ Goto(t, "find")
    /\ UNCHANGED <<ref, entries, keys, held, lock, env, several, freed, thrown>>

Exit(t) == monitor' = [monitor EXCEPT ![at[t].env] = Nobody]

FindManaged(t) ==
    /\ at[t].pc = "find"
    /\ \/ at[t].obj \in keys /\ Return(t) /\ Exit(t)
       \/ at[t].obj \notin keys /\ Goto(t, "wrap") /\ UNCHANGED monitor
    /\ UNCHANGED <<ref, entries, keys, held, lock, env, several, freed, thrown>>

\* UnoInterfaceProxy.Create
Wrap(t) ==
    /\ at[t].pc = "wrap"
    /\ LET u == at[t].obj
       IN  /\ keys' = keys \cup {u}
           /\ thrown' = IF u \in keys THEN thrown \cup {u} ELSE thrown
    /\ Return(t)
    /\ Exit(t)
    /\ UNCHANGED <<ref, entries, held, lock, env, several, freed>>

(***************************************************************************)
(* uno_ext_getMapping, when cppu has no mapping of the two environments.   *)
(* The new Bridge replaces the environments that the others use.           *)
(***************************************************************************)
GetMapping(t) ==
    /\ at[t] = Idle
    /\ held[t][TheBridge] < MaxHeld
    /\ Lookup(t, TheBridge, UNCHANGED at,
              at' = [at EXCEPT ![t] = [Idle EXCEPT !.pc = "bridge", !.obj = TheBridge]])
    /\ UNCHANGED <<keys, lock, env, monitor, several, freed, thrown>>

NewBridge(t) ==
    /\ at[t].pc = "bridge"
    /\ env' = CHOOSE e \in Environments \ {0} :
                 e # env /\ \A s \in Threads : at[s].env # e
    /\ several' = (several \/ env # 0)
    /\ Goto(t, "mapping")
    /\ UNCHANGED <<ref, entries, keys, held, lock, monitor, freed, thrown>>

\* uno_registerMapping returns the mapping that another thread has registered
\* meanwhile, and frees the new one.
RegisterMapping(t) ==
    /\ at[t].pc = "mapping"
    /\ \/ entries[TheBridge] > 0 /\ Acquired(t, TheBridge)
       \/ entries[TheBridge] = 0 /\ Made(t, TheBridge)
    /\ Return(t)
    /\ UNCHANGED <<keys, lock, env, monitor, several, freed, thrown>>

Start(t) ==
    \/ \E x \in Counted : Copy(t, x) \/ Release(t, x) \/ \E s \in Threads : Pass(t, s, x)
    \/ \E o \in Objects, slot \in Objects \cup {Nobody} : MapToUno(t, o, slot)
    \/ \E u \in UnoObjects : MapToMono(t, u)
    \/ GetMapping(t)

Continue(t) ==
    \/ Revoke(t)
    \/ FindProxy(t) \/ Enter(t) \/ FindAgain(t) \/ CreateManagedProxy(t) \/ RegisterProxy(t)
    \/ EnterManaged(t) \/ FindManaged(t) \/ Wrap(t)
    \/ NewBridge(t) \/ RegisterMapping(t)

Next == \E t \in Threads : Start(t) \/ Continue(t)

Spec     == Init /\ [][Next]_vars
FairSpec == Spec /\ \A t \in Threads : WF_vars(Continue(t))

(***************************************************************************)
(* Properties.                                                             *)
(***************************************************************************)
Lookups == {"lookup", "enter", "again", "create", "register"}   \* of a proxy
Wraps   == {"wait", "find", "wrap"}

Place ==
    [pc   : {"idle", "revoke", "bridge", "mapping"} \cup Lookups \cup Wraps,
     obj  : Counted \cup UnoObjects \cup {Nobody},
     then : Objects \cup {Nobody},
     env  : Environments]

TypeOK ==
    /\ ref \in [Counted -> Nat]
    /\ entries \in [Counted -> Nat]
    /\ keys \subseteq Objects \cup UnoObjects
    /\ held \in [Threads -> [Counted -> HeldRange]]
    /\ at \in [Threads -> Place]
    /\ lock \in Threads \cup {Nobody}
    /\ env \in Environments
    /\ monitor \in [Environments -> Threads \cup {Nobody}]
    /\ several \in BOOLEAN
    /\ freed \subseteq Objects
    /\ thrown \subseteq Objects \cup UnoObjects

\* The references to x, those of a thread numbered from 1.
References(x) == {r \in Threads \X HeldRange : 1 <= r[2] /\ r[2] <= held[r[1]][x]}
Referring(x)  == Cardinality(References(x))
Revoking(x)   == {t \in Threads : At(t, "revoke", x)}

\* The protocol of MonoProxy::acquire and release, and of Bridge's: an object
\* that anybody has a reference to is registered, once; and once more for
\* every thread that has brought the count to zero and is about to revoke.  So
\* no object is freed while it is in use, freed twice, or forgotten.
Counts ==
    \A x \in Counted :
        /\ ref[x] = Referring(x)
        /\ entries[x] = (IF ref[x] > 0 THEN 1 ELSE 0)
                         + Cardinality(Revoking(x))

\* Mapping a managed object to UNO fails only when it had been mapped before
\* and its proxy has gone: threads that map it at the same time get one proxy.
FailsOnlyAfterFree == thrown \cap Objects \subseteq freed

\* Mapping a UNO object to the runtime fails only when a second bridge has put
\* another environment, with a monitor of its own, in the place of the first.
FailsOnlyWithTwoBridges == thrown \cap UnoObjects # {} => several

\* A thread that has locked typeof(Cli_environment) gives it back, also when
\* making the proxy throws.
LockIsReturned == \A t \in Threads : lock = t ~> lock # t
=============================================================================
