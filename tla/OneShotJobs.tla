---------------------------- MODULE OneShotJobs ----------------------------
(***************************************************************************)
(* What the callers of the LLM work queue rely on, without its queue, its  *)
(* workers or its shutdown: every submitted job is refused, or admitted    *)
(* and then executed at most once; at most Limit jobs execute at the same  *)
(* time; an outcome is fixed once and for all, and only by an execution or *)
(* by the caller's own cancellation.                                       *)
(***************************************************************************)
EXTENDS Naturals, FiniteSets

CONSTANTS
  Jobs,    \* The calls of submit(), one job each.
  Limit    \* worker_count: the number of HTTP conversations allowed at once.

VARIABLES
  stage,   \* Where each job is in its life.
  outcome  \* "pending", or how the job ended for its caller.

vars == <<stage, outcome>>

Executing == {j \in Jobs : stage[j] = "executing"}

Init ==
  /\ stage = [j \in Jobs |-> "unsent"]
  /\ outcome = [j \in Jobs |-> "pending"]

\* The queue is full, closed, or the caller left before the job was admitted.
Refuse(j) ==
  /\ stage[j] = "unsent"
  /\ stage' = [stage EXCEPT ![j] = "refused"]
  /\ UNCHANGED outcome

Admit(j) ==
  /\ stage[j] = "unsent"
  /\ stage' = [stage EXCEPT ![j] = "queued"]
  /\ UNCHANGED outcome

\* The caller of an admitted job leaves; an execution under way goes on.
Abandon(j) ==
  /\ stage[j] \in {"queued", "executing"}
  /\ outcome[j] = "pending"
  /\ outcome' = [outcome EXCEPT ![j] = "cancelled"]
  /\ UNCHANGED stage

Execute(j) ==
  /\ stage[j] = "queued"
  /\ outcome[j] = "pending"
  /\ Cardinality(Executing) < Limit
  /\ stage' = [stage EXCEPT ![j] = "executing"]
  /\ UNCHANGED outcome

\* An abandoned job that no worker had started is thrown away.
Drop(j) ==
  /\ stage[j] = "queued"
  /\ outcome[j] = "cancelled"
  /\ stage' = [stage EXCEPT ![j] = "over"]
  /\ UNCHANGED outcome

Complete(j) ==
  /\ stage[j] = "executing"
  /\ stage' = [stage EXCEPT ![j] = "over"]
  /\ \/ outcome[j] = "pending" /\ \E o \in {"value", "error"} : outcome' = [outcome EXCEPT ![j] = o]
     \/ outcome[j] = "cancelled" /\ UNCHANGED outcome

Next ==
  \E j \in Jobs :
    Refuse(j) \/ Admit(j) \/ Abandon(j) \/ Execute(j) \/ Drop(j) \/ Complete(j)

Spec == Init /\ [][Next]_vars

-----------------------------------------------------------------------------
(* What the promise comes to *)

\* A job only goes forward: it is executed at most once, and one that was refused, or is
\* over, never.
AtMostOnce ==
  [][\A j \in Jobs : stage'[j] # stage[j] =>
       <<stage[j], stage'[j]>> \in
         {<<"unsent", "refused">>, <<"unsent", "queued">>, <<"queued", "executing">>,
          <<"queued", "over">>, <<"executing", "over">>}]_vars

\* A caller is told one thing: an answer comes out of an execution, and no answer and no
\* cancellation is replaced.
OutcomeStands ==
  [][\A j \in Jobs : outcome'[j] # outcome[j] =>
       /\ outcome[j] = "pending"
       /\ outcome'[j] \in {"value", "error"} => stage[j] = "executing"]_vars
=============================================================================
