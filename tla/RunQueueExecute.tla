--------------------------- MODULE RunQueueExecute ---------------------------
(***************************************************************************)
(* What the executors of the run queue share (class RunQueueExecute of     *)
(* bitbake/lib/bb/runqueue.py): the worker processes they fork and the     *)
(* server's record of them.                                                *)
(***************************************************************************)
EXTENDS RunQueueData

VARIABLES
  build_pids,  \* the tasks whose process is in build_pids
  active,      \* stats.active
  proc         \* task -> state of the process forked for it

Working == {"working",   \* leader of its group, runs the task's functions
            "restamp",   \* make_stamp has removed the old stamp
            "stamped"}   \* make_stamp is done, not yet exited
Alive   == {"forked"} \cup Working   \* "forked": has not called setpgid yet
Zombie  == {"ok", "bad"}             \* exit status zero, or any other
ProcStates == {"none", "reaped"} \cup Alive \cup Zombie

(* The children waitpid can return.                                         *)
Reapable == { t \in build_pids : proc[t] \in Zombie }

(* SIGTERM to the process group of every child.  A child that has not       *)
(* called setpgid leads no group, and the error is ignored.                 *)
Terminated(p) ==
  [ t \in Task |-> IF t \in build_pids /\ p[t] \in Working THEN "bad" ELSE p[t] ]

WorkerMoves(t, from, to) == proc[t] = from /\ proc' = [proc EXCEPT ![t] = to]
=============================================================================
