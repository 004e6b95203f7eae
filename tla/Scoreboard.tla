------------------------------ MODULE Scoreboard ------------------------------
(***************************************************************************)
(* What a panel of models and ordered tasks promises: a model's tasks are  *)
(* scored one after the other, a verdict is given once and for all, and    *)
(* the panel is announced only when every task of every model has one.     *)
(***************************************************************************)
EXTENDS Naturals

CONSTANTS
  Model,    \* the models on the panel
  Task,     \* the tasks, 1 .. n in the order of the panel
  Verdict   \* the verdicts a task may get

VARIABLES
  score,     \* the verdict of each model's tasks, or "none"
  announced  \* whether the panel has been announced as complete

Unscored(m) == {t \in Task : score[m][t] = "none"}

\* The task of model m that is scored next.
IsNext(m, t) == t \in Unscored(m) /\ \A u \in Unscored(m) : t <= u

Init ==
  /\ score = [m \in Model |-> [t \in Task |-> "none"]]
  /\ announced = FALSE

\* Some models get the verdict of their next task, the others keep their score.
Score ==
  /\ \A m \in Model :
       \/ score'[m] = score[m]
       \/ \E t \in Task, v \in Verdict :
            IsNext(m, t) /\ score'[m] = [score[m] EXCEPT ![t] = v]
  /\ score' = [m \in Model |-> score'[m]]
  /\ announced = FALSE
  /\ UNCHANGED announced

Announce ==
  /\ \A m \in Model : Unscored(m) = {}
  /\ announced' = TRUE
  /\ UNCHANGED score

\* The panel is run again: it finds everything scored.
Reopen ==
  /\ announced' = FALSE
  /\ UNCHANGED score

Next == Score \/ Announce \/ Reopen

Spec == Init /\ [][Next]_<<score, announced>>
=============================================================================
