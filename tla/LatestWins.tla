----------------------------- MODULE LatestWins -----------------------------
(***************************************************************************)
(* What a store that shows the answer to "the current question" promises,  *)
(* however many requests it has sent: once it shows an answer as final,    *)
(* the answer is to the question asked last.  An answer to an older        *)
(* question is never shown as the current one.                             *)
(*                                                                         *)
(* The table-data stores of the Mathesar client are meant to implement     *)
(* this; RecordsData does so with one cancellable promise.                 *)
(***************************************************************************)

CONSTANT Questions    \* what may be asked for: page, sorting, filters, ...

VARIABLES
    asked,            \* the question asked last
    answered,         \* the question whose answer is on screen
    phase             \* "loading", "done" or "error"

Phases == {"loading", "done", "error"}

\* A store is built with a first question and nothing to show.
Init == /\ asked \in Questions
        /\ answered = asked
        /\ phase = "loading"

\* A question is asked, new or again; the old answer stays on screen.
Ask == /\ asked' \in Questions
       /\ phase' = "loading"
       /\ UNCHANGED answered

\* The answer to the last question is shown; it may also be refreshed silently.
Answer == /\ answered' = asked
          /\ phase' = "done"
          /\ UNCHANGED asked

\* The last question could not be answered.
Fail == /\ phase' = "error"
        /\ UNCHANGED <<asked, answered>>

Next == Ask \/ Answer \/ Fail

Spec == Init /\ [][Next]_<<asked, answered, phase>>

(***************************************************************************)
(* What is shown as final answers what was asked last.                     *)
(***************************************************************************)
Current == phase = "done" => answered = asked
=============================================================================
