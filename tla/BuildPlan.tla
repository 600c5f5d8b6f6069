------------------------------ MODULE BuildPlan ------------------------------
(***************************************************************************)
(* What an executor of a run queue promises, whatever processes, stamps    *)
(* and idle functions it is made of: every task goes once from waiting to  *)
(* complete or failed, after what it depends on, a bounded number at a     *)
(* time, and the verdict at the end is about what became of the tasks.     *)
(***************************************************************************)
EXTENDS Naturals, FiniteSets

CONSTANTS Task, RunQueues

VARIABLES
  plan,     \* the run queue: of it depends, stampfile and number_tasks matter
  status,   \* task -> what became of it
  opened,   \* whether the tasks that need not run have been taken out
  verdict   \* what the command reports

vars == << plan, status, opened, verdict >>

Status   == {"waiting", "running", "complete", "failed"}
Verdicts == {"none", "complete", "failed", "fatal"}

With(s) == { t \in Task : status[t] = s }

Becomes(t, s) == status' = [status EXCEPT ![t] = s]

Open == opened /\ verdict = "none" /\ UNCHANGED << plan, opened, verdict >>

Init ==
  /\ plan \in RunQueues
  /\ status = [t \in Task |-> "waiting"]
  /\ opened = FALSE
  /\ verdict = "none"

(* Setscene output stands for the tasks of S; they are not looked at again. *)
TakeOut(S) ==
  /\ ~opened /\ opened' = TRUE
  /\ status' = [t \in Task |-> IF t \in S THEN "complete" ELSE "waiting"]
  /\ UNCHANGED << plan, verdict >>

Ready(t) == status[t] = "waiting" /\ plan.depends[t] \subseteq With("complete")

PassOver(t) == Open /\ Ready(t) /\ Becomes(t, "complete")

Start(t) ==
  /\ Open /\ Ready(t)
  /\ Cardinality(With("running")) < plan.number_tasks
  /\ \A u \in With("running") : plan.stampfile[u] # plan.stampfile[t]
  /\ Becomes(t, "running")

Succeed(t) == Open /\ status[t] = "running" /\ Becomes(t, "complete")
Fail(t)    == Open /\ status[t] = "running" /\ Becomes(t, "failed")

(* The command reports once nothing runs any more; only a fatal error of    *)
(* the executor itself ends it earlier.                                     *)
Close(v) ==
  /\ opened /\ verdict = "none" /\ verdict' = v
  /\ v # "fatal" => With("running") = {}
  /\ v = "complete" => With("failed") = {}
  /\ v = "failed" => With("failed") # {}
  /\ UNCHANGED << plan, status, opened >>

Next ==
  \/ \E S \in SUBSET Task : TakeOut(S)
  \/ \E t \in Task : PassOver(t) \/ Start(t) \/ Succeed(t) \/ Fail(t)
  \/ \E v \in Verdicts \ {"none"} : Close(v)

Spec == Init /\ [][Next]_vars
=============================================================================
