------------------------------- MODULE VbaCalls -------------------------------
(***************************************************************************)
(* scratch/sc-vba: what the calls of a macro have in common.  A call runs  *)
(* to its end, answers or throws; a macro that handles the error goes on.  *)
(* Values are strings, "on" and "off" for booleans, "null" for a null      *)
(* result.                                                                 *)
(***************************************************************************)
EXTENDS Integers, Sequences, FiniteSets

CONSTANT Calls      \* bound: calls of a macro

ASSUME CallsAssumption == Calls \in Nat

VARIABLES
    got,        \* how the last call ended
    asked,      \* observation: what has been set, but for what a call has changed since
    calls

callVars == <<got, asked, calls>>

OnOff == {"on", "off"}

\* The elements of a sequence that are not in a set, in their order.
Dropping(s, out) ==
    LET rest == {i \in DOMAIN s : s[i] \notin out}
    IN  [n \in 1..Cardinality(rest) |->
            s[CHOOSE i \in rest : Cardinality({k \in rest : k <= i}) = n]]

Ready == calls < Calls /\ calls' = calls + 1

CallsInit == got = "ok" /\ asked = {} /\ calls = 0

Answers == got' = "ok" /\ UNCHANGED asked
Throws  == got' = "threw" /\ UNCHANGED asked

Except(whats) == {a \in asked : a.what \notin whats}

\* A call that has set an attribute, perhaps with others that it is called to set
\* too; a call that is called for such effects only.
WroteOver(what, value, others) ==
    /\ got' = "ok"
    /\ asked' = Except({what} \cup others) \cup {[what |-> what, value |-> value]}
Wrote(what, value) == WroteOver(what, value, {})
Changes(whats)     == got' = "ok" /\ asked' = Except(whats)

\* The same of attributes that the call is not called for, or does not set to what it
\* is called for; a call that throws when it has changed some.  These are the calls by
\* which a macro loses what it has set, and they are marked so that they can be found.
WroteAtCost(what, value, others) == WroteOver(what, value, others)
Clobbers(whats) == Changes(whats)
Spoils(whats)   == got' = "threw" /\ asked' = Except(whats)
=============================================================================
