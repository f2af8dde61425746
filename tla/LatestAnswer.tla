---------------------------- MODULE LatestAnswer ----------------------------
(***************************************************************************)
(* What a view of remote data promises.  It asks one question at a time; a  *)
(* new question takes the place of the last one, answered or not.  What the *)
(* view shows is nothing, or the answer to a question it asked; and it      *)
(* changes to an answer only while that answer's question is the one asked. *)
(***************************************************************************)
CONSTANTS Questions,    \* what can be asked
          Nothing       \* what a view shows before an answer

VARIABLES asked,        \* the question of now
          shown,        \* the question whose answer is shown
          settled       \* the question of now was answered, or given up

vars == <<asked, shown, settled>>

Init ==
  /\ asked \in Questions
  /\ shown = Nothing /\ settled = FALSE

\* The last answer stays until the next one, or is taken away at once.
Ask(question) ==
  /\ asked' = question /\ settled' = FALSE
  /\ shown' \in {shown, Nothing}

Answer ==
  /\ ~settled /\ settled' = TRUE
  /\ shown' = asked /\ UNCHANGED asked

Fail ==
  /\ ~settled /\ settled' = TRUE
  /\ UNCHANGED <<asked, shown>>

Next == (\E question \in Questions : Ask(question)) \/ Answer \/ Fail

Spec == Init /\ [][Next]_vars
=============================================================================
