--------------------------- MODULE MCBuildStamps ---------------------------
(* The goals for which TLC checks the rules of Makefile.shared. *)
EXTENDS BuildStamps

AllGoals == {"unpack", "patch.apply", "build", "patch.unapply", "clean"}
\* "make unpack" and "make patch.apply" are a "make build" that is killed after the
\* unpacking or after the patches.
DailyGoals == AllGoals \ {"unpack", "patch.apply"}

\* Bound: what comes after an edit that a recipe has missed and an accident that
\* nobody has noticed, both in one tree, is not followed.
OneTrouble == missed = {} \/ damage = {}
=============================================================================
