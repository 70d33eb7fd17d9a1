------------------------------ MODULE JobQueue ------------------------------
(***************************************************************************)
(* What the server's worker promises (the module comment of                *)
(* rocml-serve/src/worker.rs): jobs are drained strictly one after another *)
(* in the order they were sent, each one is answered once, and a job is    *)
(* lost only with the worker itself.                                       *)
(***************************************************************************)
EXTENDS Sequences

CONSTANT Requests

VARIABLES
  waiting,  \* jobs sent and not answered, oldest first
  outcome,  \* how each request's job ended
  alive     \* the worker runs

vars == <<waiting, outcome, alive>>

Init ==
  /\ waiting = <<>> /\ alive = TRUE
  /\ outcome = [r \in Requests |-> "none"]

Submit(r) ==
  /\ outcome[r] = "none"
  /\ IF alive
     THEN waiting' = Append(waiting, r) /\ outcome' = [outcome EXCEPT ![r] = "waiting"]
     ELSE outcome' = [outcome EXCEPT ![r] = "lost"] /\ UNCHANGED waiting
  /\ UNCHANGED alive

Answer ==
  /\ alive /\ waiting # <<>>
  /\ \E o \in {"done", "error"} : outcome' = [outcome EXCEPT ![Head(waiting)] = o]
  /\ waiting' = Tail(waiting)
  /\ UNCHANGED alive

Die ==
  /\ alive /\ alive' = FALSE
  /\ waiting' = <<>>
  /\ outcome' = [r \in Requests |-> IF outcome[r] = "waiting" THEN "lost" ELSE outcome[r]]

Next == (\E r \in Requests : Submit(r)) \/ Answer \/ Die

Spec == Init /\ [][Next]_vars /\ WF_vars(Answer)
=============================================================================
