-------------------------- MODULE MCFirstReflection --------------------------
(***************************************************************************)
(* Whether a reflection has happened since the process started, kept beside *)
(* Reflection, to compare with the flag that says so.                      *)
(***************************************************************************)
EXTENDS Reflection

VARIABLE happened   \* a reflection of every database has ended since the last restart

\* The last database is done, or was found deleted.
LastDatabaseIsDone == todo = {} /\ (ReflectConstraintsFromDatabase \/ DropSchemasOfDeletedDatabase)

HistoryInit == Init /\ happened = TRUE
HistoryNext == /\ Next
               /\ happened' = (reflected' /\ (happened \/ LastDatabaseIsDone))
HistorySpec == HistoryInit /\ [][HistoryNext]_<<vars, happened>>

\* What the docstring of set_initial_reflection_happened (mathesar/state/base.py) says
\* of its flag: once it is set and no reflection is under way, one has happened.
AtLeastOneReflection == reflected /\ at = "idle" => happened
=============================================================================
