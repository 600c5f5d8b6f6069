------------------------ MODULE RunQueueTasksProofs ------------------------
(***************************************************************************)
(* Proofs about the task executor for every prepared run queue: any finite *)
(* set of tasks, any acyclic graph, any number of workers.                 *)
(***************************************************************************)
EXTENDS RunQueueTasks, TLAPS, FiniteSetTheorems

TypeInv == rqdata \in RunQueues /\ TypeOK

(* Every step keeps the types (the stamps' and the clock's included).       *)
LEMMA TypeStep == TypeInv /\ [Next]_vars => TypeInv'
<1> SUFFICES ASSUME TypeInv, [Next]_vars PROVE TypeInv'
  OBVIOUS
<1> USE RunQueuesAssumption, ClockAssumption DEF TypeInv, TypeOK, DataTypeOK, IsRunQueue, RunQueueRecord
<1> USE DEF RqStates, Phases, Outcomes, ProcStates, Alive, Zombie, Working, Absent
<1>1. CASE RunInit
  BY <1>1 DEF RunInit, CoverClosure, childVars
<1>2. CASE CallBegin
  BY <1>2 DEF CallBegin, FinishNow, Terminated, Finish, Reap, NoneToReap, Reapable, NextBlock, fileVars,
     childVars, TaskCompleteOutright, NewlyBuildable, RevDeps
<1>3. CASE NothingToStart
  BY <1>3 DEF NothingToStart, fileVars, queueVars, childVars
<1>4. CASE WaitChild
  BY <1>4 DEF WaitChild, Reap, AfterReap, NoneToReap, Reapable, NextBlock, fileVars,
     TaskCompleteOutright, NewlyBuildable, RevDeps
<1>5. CASE RunDry
  BY <1>5 DEF RunDry, fileVars, queueVars, childVars
<1>6. CASE CleanUpBlock
  BY <1>6 DEF CleanUpBlock, Finish, Reap, NoneToReap, Reapable, fileVars, childVars,
     TaskCompleteOutright, NewlyBuildable, RevDeps
<1>7. CASE EndBlock
  BY <1>7 DEF EndBlock, fileVars, queueVars, childVars
<1>8. ASSUME NEW t \in Task, SkipTask(t) PROVE TypeInv'
  BY <1>8 DEF SkipTask, fileVars, childVars, TaskCompleteOutright, NewlyBuildable, RevDeps
<1>9. ASSUME NEW t \in Task, FinishInline(t) PROVE TypeInv'
  BY <1>9 DEF FinishInline, childVars, TaskCompleteOutright, NewlyBuildable, RevDeps
<1>10. ASSUME NEW t \in Task, ForkOffTask(t) PROVE TypeInv'
  BY <1>10 DEF ForkOffTask, fileVars
<1>11. ASSUME NEW t \in Task, ForkFails(t) PROVE TypeInv'
  BY <1>11 DEF ForkFails, fileVars, queueVars, childVars
<1>12. ASSUME NEW t \in Task, Worker(t) PROVE TypeInv'
  BY <1>12 DEF Worker, WorkerStart, WorkerUnstamp, WorkerStamp, WorkerSucceeds, WorkerFails,
     WorkerMoves, serverVars, fileVars, queueVars, childVars
<1>13. CASE StateShutdown \/ StateStop
  BY <1>13 DEF StateShutdown, StateStop, CookerCommand, fileVars, queueVars, childVars
<1>14. CASE Tick
  BY <1>14 DEF Tick, serverVars, queueVars, childVars
<1>15. CASE Ended \/ UNCHANGED vars
  BY <1>15 DEF Ended, vars, fileVars, queueVars, childVars
<1> QED
  BY <1>1, <1>2, <1>3, <1>4, <1>5, <1>6, <1>7, <1>8, <1>9, <1>10, <1>11, <1>12, <1>13,
     <1>14, <1>15 DEF Next, Server

LEMMA TypeInit == Init => TypeInv
BY RunQueuesAssumption, ClockAssumption
DEF Init, TypeInv, TypeOK, DataTypeOK, IsRunQueue, RunQueueRecord, RqStates, Phases,
    Outcomes, ProcStates

(* The type invariant, for every value of the constants.                    *)
THEOREM TypeCorrect == Spec => []TypeOK
<1>1. Spec => []TypeInv
  BY TypeInit, TypeStep, PTL DEF Spec
<1>2. TypeInv => TypeOK
  BY DEF TypeInv
<1> QED
  BY <1>1, <1>2, PTL

-----------------------------------------------------------------------------
(* The inductive invariant.                                                 *)

LEMMA PidsFinite == TypeInv => IsFiniteSet(build_pids)
BY TaskAssumption, FS_Subset DEF TypeInv, TypeOK

LEMMA RecordFields ==
  ASSUME TypeInv
  PROVE  /\ rqdata.depends \in [Task -> SUBSET Task]
         /\ rqdata.number_tasks \in Nat
         /\ rqdata.abort \in BOOLEAN
         /\ Acyclic(rqdata.depends)
BY RunQueuesAssumption DEF TypeInv, IsRunQueue, RunQueueRecord

(* runqueue_process_waitpid takes exactly one child out of the count, the   *)
(* set and the stamp exclusion.                                             *)
LEMMA ReapChildren ==
  ASSUME TypeInv, TypeInv', ChildrenInv, NEW t \in Task, Reap(t),
         runq_running' = runq_running, rqdata' = rqdata
  PROVE  ChildrenInv'
<1>1. Cardinality(build_pids \ {t}) = Cardinality(build_pids) - 1
  BY PidsFinite, FS_RemoveElement DEF Reap, Reapable
<1>2. active' = Cardinality(build_pids') /\ active' <= rqdata'.number_tasks
  <2>1. build_pids' = build_pids \ {t} /\ active' = active - 1
    BY DEF Reap
  <2>2. active \in Nat /\ active = Cardinality(build_pids) /\ active <= rqdata.number_tasks
    BY DEF ChildrenInv, TypeInv, TypeOK
  <2>3. rqdata.number_tasks \in Nat
    BY RecordFields
  <2>4. active' = Cardinality(build_pids')
    BY <1>1, <2>1, <2>2, Zenon
  <2> QED
    BY <2>1, <2>2, <2>3, <2>4
<1>3. build_pids' = { u \in Task : proc'[u] \in Alive \cup Zombie }
  BY DEF Reap, ChildrenInv, TypeInv, TypeOK, Alive, Zombie, Working
<1>4. build_pids' \subseteq runq_running' \ runq_complete'
  BY DEF Reap, ChildrenInv, TaskCompleteOutright
<1>5. \A u, v \in build_pids' : u # v => rqdata'.stampfile[u] # rqdata'.stampfile[v]
  BY DEF Reap, ChildrenInv
<1> QED
  BY <1>2, <1>3, <1>4, <1>5 DEF ChildrenInv

(* task_completeoutright keeps the queue in order: it marks every task      *)
(* whose last dependency completes, and no other.                           *)
LEMMA CompleteOutrightQueue ==
  ASSUME TypeInv, QueueInv, rq_state # "RunInit", NEW t \in Task, TaskCompleteOutright(t),
         rqdata' = rqdata, covered' = covered,
         t \in runq_running \/ t \in runq_buildable
  PROVE  /\ \A u \in runq_buildable' \ covered' : rqdata'.depends[u] \subseteq runq_complete'
         /\ \A u \in Task : rqdata'.depends[u] \subseteq runq_complete' => u \in runq_buildable'
<1>1. ASSUME NEW u \in runq_buildable' \ covered'
      PROVE  rqdata'.depends[u] \subseteq runq_complete'
  BY <1>1 DEF QueueInv, TaskCompleteOutright, NewlyBuildable
<1>2. ASSUME NEW u \in Task, rqdata'.depends[u] \subseteq runq_complete'
      PROVE  u \in runq_buildable'
  <2>1. CASE t \in rqdata.depends[u]
    BY <1>2, <2>1 DEF QueueInv, TaskCompleteOutright, NewlyBuildable, RevDeps
  <2>2. CASE t \notin rqdata.depends[u]
    BY <1>2, <2>2 DEF QueueInv, TaskCompleteOutright
  <2> QED
    BY <2>1, <2>2
<1> QED
  BY <1>1, <1>2

LEMMA ReapQueue ==
  ASSUME TypeInv, TypeInv', QueueInv, ChildrenInv, rq_state # "RunInit",
         NEW t \in Task, Reap(t),
         runq_running' = runq_running, rqdata' = rqdata, covered' = covered
  PROVE  QueueInv'
<1>1. t \in build_pids /\ t \in runq_running
  BY DEF Reap, Reapable, ChildrenInv
<1>2. \A u \in Task : proc'[u] = "reaped" => u = t \/ proc[u] = "reaped"
  BY DEF Reap, TypeInv, TypeOK
<1>3. CASE proc[t] = "ok"
  <2>1. TaskCompleteOutright(t) /\ failed' = failed
    BY <1>3 DEF Reap
  <2>2. runq_complete' \subseteq runq_running' /\ runq_running' \subseteq runq_buildable'
    BY <1>1, <2>1 DEF TaskCompleteOutright, QueueInv
  <2>3. runq_running' \subseteq runq_complete' \cup failed' \cup build_pids'
    BY <2>1 DEF TaskCompleteOutright, QueueInv, Reap
  <2>4. \A u \in Task : proc'[u] = "reaped" => u \in runq_complete' \cup failed'
    BY <1>2, <2>1 DEF TaskCompleteOutright, QueueInv
  <2>5. failed' \subseteq runq_running' \ (runq_complete' \cup build_pids')
    BY <1>1, <2>1 DEF TaskCompleteOutright, QueueInv, Reap
  <2>6. covered' \subseteq runq_complete'
    BY <2>1 DEF TaskCompleteOutright, QueueInv
  <2> QED
    BY <1>1, <2>1, <2>2, <2>3, <2>4, <2>5, <2>6, CompleteOutrightQueue DEF QueueInv
<1>4. CASE proc[t] # "ok"
  <2>1. /\ failed' = failed \cup {t} /\ build_pids' = build_pids \ {t}
        /\ UNCHANGED << runq_buildable, runq_complete >>
    BY <1>4 DEF Reap
  <2>2. failed' \subseteq runq_running' \ (runq_complete' \cup build_pids')
    BY <1>1, <2>1 DEF QueueInv, ChildrenInv
  <2>3. runq_running' \subseteq runq_complete' \cup failed' \cup build_pids'
    BY <2>1 DEF QueueInv
  <2>4. \A u \in Task : proc'[u] = "reaped" => u \in runq_complete' \cup failed'
    BY <1>2, <2>1 DEF QueueInv
  <2> QED
    BY <2>1, <2>2, <2>3, <2>4 DEF QueueInv
<1> QED
  BY <1>3, <1>4

(* A step that touches none of what the children part speaks of.            *)
LEMMA ChildrenFrame ==
  ASSUME ChildrenInv, rqdata' = rqdata, active' = active, build_pids' = build_pids,
         runq_running' = runq_running, runq_complete' = runq_complete,
         \A u \in Task : proc'[u] \in Alive \cup Zombie <=> proc[u] \in Alive \cup Zombie
  PROVE  ChildrenInv'
BY DEF ChildrenInv

LEMMA QueueFrame ==
  ASSUME QueueInv, rqdata' = rqdata, build_pids' = build_pids, failed' = failed,
         covered' = covered, UNCHANGED queueVars,
         rq_state # "RunInit" \/ rq_state' = "RunInit",
         \A u \in Task : proc'[u] = "reaped" <=> proc[u] = "reaped"
  PROVE  QueueInv'
BY DEF QueueInv, queueVars

(* finish(), wherever it is called from.                                    *)
LEMMA FinishStep ==
  ASSUME IInv, TypeInv', Finish, rq_state # "RunInit",
         rqdata' = rqdata, covered' = covered, runq_running' = runq_running
  PROVE  /\ ChildrenInv' /\ QueueInv'
         /\ rq_state' \in {"CleanUp", "Failed", "Complete"}
         /\ rq_state' \in {"Failed", "Complete"} => active' = 0
         /\ rq_state' = "Complete" => failed' = {}
         /\ rq_state' = "Failed" => failed' # {}
<1> USE DEF IInv, TypeInv
<1>1. CASE active > 0 /\ rq_state' = "CleanUp" /\ NoneToReap
  BY <1>1, ChildrenFrame, QueueFrame DEF NoneToReap, queueVars
<1>2. ASSUME active > 0, rq_state' = "CleanUp", NEW t \in Task, Reap(t)
      PROVE  ChildrenInv' /\ QueueInv'
  BY <1>2, ReapChildren, ReapQueue
<1>3. CASE /\ active = 0
           /\ rq_state' = IF failed # {} THEN "Failed" ELSE "Complete"
           /\ UNCHANGED << proc, childVars, runq_buildable, runq_complete >>
  <2>1. ChildrenInv' /\ QueueInv'
    BY <1>3, ChildrenFrame, QueueFrame DEF childVars, queueVars
  <2> QED
    BY <1>3, <2>1 DEF childVars
<1> QED
  BY <1>1, <1>2, <1>3 DEF Finish

LEMMA RunInitStep == IInv /\ TypeInv' /\ RunInit => IInv'
<1> SUFFICES ASSUME IInv, TypeInv', RunInit PROVE IInv'
  OBVIOUS
<1> USE DEF IInv, TypeInv
<1>1. runq_running = {} /\ failed = {} /\ build_pids = {} /\ runq_complete = {}
  BY DEF RunInit, ControlInv, ChildrenInv, QueueInv
<1>2. UNCHANGED << rqdata, build_pids, active, failed, proc, cooker, phase, outcome >>
  BY DEF RunInit, childVars
<1>3. /\ runq_running' = covered' /\ runq_complete' = covered'
      /\ runq_buildable' = covered' \cup { t \in Task : rqdata.depends[t] \subseteq covered' }
      /\ rq_state' = "Running" /\ phase = "execute" /\ rq_state = "RunInit"
  BY DEF RunInit
<1>4. ChildrenInv'
  BY <1>1, <1>2, <1>3 DEF ChildrenInv
<1>5. QueueInv'
  BY <1>1, <1>2, <1>3 DEF QueueInv, TypeOK
<1>6. ControlInv'
  BY <1>1, <1>2, <1>3 DEF ControlInv
<1> QED
  BY <1>4, <1>5, <1>6

LEMMA CallBeginStep == IInv /\ TypeInv' /\ CallBegin => IInv'
<1> SUFFICES ASSUME IInv, TypeInv', CallBegin PROVE IInv'
  OBVIOUS
<1> USE DEF IInv, TypeInv
<1>1. /\ phase = "idle" /\ rq_state \in {"Running", "CleanUp"} /\ outcome = "none"
      /\ UNCHANGED << rqdata, covered, runq_running, cooker, outcome >>
      /\ phase' = IF rq_state' = "Running" THEN "execute" ELSE NextBlock(rq_state')
  BY DEF CallBegin, ControlInv, TypeOK, Outcomes
<1>2. CASE cooker = "stop" /\ FinishNow
  <2>1. UNCHANGED << rq_state, build_pids, active, failed, runq_buildable, runq_complete >>
    BY <1>2 DEF FinishNow, Terminated, childVars
  <2>2. \A u \in Task :
          /\ proc'[u] \in Alive \cup Zombie <=> proc[u] \in Alive \cup Zombie
          /\ proc'[u] = "reaped" <=> proc[u] = "reaped"
    BY <1>2 DEF FinishNow, Terminated, TypeOK, Alive, Working, Zombie
  <2>3. ChildrenInv' /\ QueueInv'
    BY <1>1, <2>1, <2>2, ChildrenFrame, QueueFrame DEF queueVars
  <2>4. ControlInv'
    BY <1>1, <1>2, <2>1 DEF ControlInv, NextBlock
  <2> QED
    BY <2>3, <2>4
<1>3. CASE cooker = "shutdown" /\ Finish
  <2>1. /\ ChildrenInv' /\ QueueInv'
        /\ rq_state' \in {"CleanUp", "Failed", "Complete"}
        /\ rq_state' \in {"Failed", "Complete"} => active' = 0
        /\ rq_state' = "Complete" => failed' = {}
        /\ rq_state' = "Failed" => failed' # {}
    BY <1>1, <1>3, FinishStep
  <2>2. ControlInv'
    BY <1>1, <1>3, <2>1 DEF ControlInv, NextBlock
  <2> QED
    BY <2>1, <2>2
<1>4. CASE /\ cooker = "running"
           /\ UNCHANGED << rq_state, proc, childVars, runq_buildable, runq_complete >>
  <2>1. ChildrenInv' /\ QueueInv'
    BY <1>1, <1>4, ChildrenFrame, QueueFrame DEF childVars, queueVars
  <2>2. ControlInv'
    BY <1>1, <1>4 DEF ControlInv, NextBlock, childVars
  <2> QED
    BY <2>1, <2>2
<1> QED
  BY <1>2, <1>3, <1>4 DEF CallBegin

(* Steps that change nothing but where the server is.                       *)
LEMMA NothingToStartStep == IInv /\ TypeInv' /\ NothingToStart => IInv'
<1> SUFFICES ASSUME IInv, TypeInv', NothingToStart PROVE IInv'
  OBVIOUS
<1> USE DEF IInv, TypeInv
<1>1. ChildrenInv' /\ QueueInv'
  BY ChildrenFrame, QueueFrame DEF NothingToStart, childVars, queueVars
<1>2. active = 0 /\ rqdata.number_tasks > 0 => Candidates = {}
  BY RecordFields DEF NothingToStart, SchedNone
<1>3. Candidates' = Candidates
  BY DEF NothingToStart, childVars, queueVars, Candidates
<1>4. ControlInv'
  BY <1>2, <1>3 DEF NothingToStart, InExecute, childVars, queueVars, ControlInv
<1> QED
  BY <1>1, <1>4

LEMMA RunDryStep == IInv /\ TypeInv' /\ RunDry => IInv'
<1> SUFFICES ASSUME IInv, TypeInv', RunDry PROVE IInv'
  OBVIOUS
<1> USE DEF IInv, TypeInv
<1>1. rq_state = "Running"
  BY DEF RunDry, ControlInv
<1>2. ChildrenInv' /\ QueueInv'
  BY <1>1, ChildrenFrame, QueueFrame DEF RunDry, childVars, queueVars
<1>3. ControlInv'
  BY <1>1 DEF RunDry, childVars, queueVars, ControlInv
<1> QED
  BY <1>2, <1>3

LEMMA EndStep == IInv /\ TypeInv' /\ EndBlock => IInv'
<1> SUFFICES ASSUME IInv, TypeInv', EndBlock PROVE IInv'
  OBVIOUS
<1> USE DEF IInv, TypeInv
<1>1. ChildrenInv' /\ QueueInv'
  BY ChildrenFrame, QueueFrame DEF EndBlock, childVars, queueVars
<1>2. ControlInv'
  BY DEF EndBlock, childVars, queueVars, ControlInv
<1> QED
  BY <1>1, <1>2

LEMMA ForkFailsStep ==
  ASSUME IInv, TypeInv', NEW t \in Task, ForkFails(t)
  PROVE  IInv'
<1> USE DEF IInv, TypeInv
<1>1. ChildrenInv' /\ QueueInv'
  BY ChildrenFrame, QueueFrame DEF ForkFails, childVars, queueVars
<1>2. ControlInv'
  BY DEF ForkFails, MustFork, InExecute, childVars, queueVars, ControlInv
<1> QED
  BY <1>1, <1>2

LEMMA CommandStep == IInv /\ TypeInv' /\ (StateShutdown \/ StateStop) => IInv'
<1> SUFFICES ASSUME IInv, TypeInv', NEW s \in {"shutdown", "stop"}, CookerCommand(s)
             PROVE  IInv'
  BY DEF StateShutdown, StateStop
<1> USE DEF IInv, TypeInv
<1>1. ChildrenInv' /\ QueueInv'
  BY ChildrenFrame, QueueFrame DEF CookerCommand, childVars, queueVars
<1>2. ControlInv'
  BY DEF CookerCommand, childVars, queueVars, ControlInv
<1> QED
  BY <1>1, <1>2

(* Steps of the executor that wait for a child.                             *)
LEMMA WaitStep == IInv /\ TypeInv' /\ WaitChild => IInv'
<1> SUFFICES ASSUME IInv, TypeInv', WaitChild PROVE IInv'
  OBVIOUS
<1> USE DEF IInv, TypeInv
<1>1. /\ phase = "wait" /\ rq_state = "Running" /\ outcome = "none"
      /\ UNCHANGED << rqdata, covered, runq_running, cooker, outcome >>
      /\ phase' = NextBlock(rq_state')
  BY DEF WaitChild, ControlInv, TypeOK, Outcomes
<1>2. ASSUME NEW t \in Task, Reap(t), AfterReap(t)
      PROVE  IInv'
  <2>1. ChildrenInv' /\ QueueInv'
    BY <1>1, <1>2, ReapChildren, ReapQueue
  <2>2. rq_state' \in {"Running", "CleanUp"}
    BY <1>1, <1>2 DEF AfterReap
  <2>3. proc[t] \in Zombie
    BY <1>2 DEF Reap, Reapable
  <2>4. rq_state' = "Running" /\ rqdata.abort => failed' = {}
    BY <1>1, <1>2, <2>3 DEF AfterReap, Reap, Zombie, ControlInv
  <2>5. ControlInv'
    BY <1>1, <2>2, <2>4 DEF ControlInv, NextBlock
  <2> QED
    BY <2>1, <2>5
<1>3. CASE NoneToReap /\ UNCHANGED rq_state
  <2>1. ChildrenInv' /\ QueueInv'
    BY <1>1, <1>3, ChildrenFrame, QueueFrame DEF NoneToReap, queueVars
  <2>2. ControlInv'
    BY <1>1, <1>3 DEF ControlInv, NextBlock, NoneToReap
  <2> QED
    BY <2>1, <2>2
<1> QED
  BY <1>2, <1>3 DEF WaitChild

LEMMA CleanUpStep == IInv /\ TypeInv' /\ CleanUpBlock => IInv'
<1> SUFFICES ASSUME IInv, TypeInv', CleanUpBlock PROVE IInv'
  OBVIOUS
<1> USE DEF IInv, TypeInv
<1>1. /\ rq_state = "CleanUp" /\ outcome = "none" /\ phase = "cleanup"
      /\ UNCHANGED << rqdata, covered, runq_running, cooker, outcome >>
      /\ phase' = IF rq_state' = "CleanUp" THEN "idle" ELSE "end"
  BY DEF CleanUpBlock, ControlInv, TypeOK, Outcomes
<1>2. /\ ChildrenInv' /\ QueueInv'
      /\ rq_state' \in {"CleanUp", "Failed", "Complete"}
      /\ rq_state' \in {"Failed", "Complete"} => active' = 0
      /\ rq_state' = "Complete" => failed' = {}
      /\ rq_state' = "Failed" => failed' # {}
  BY <1>1, FinishStep DEF CleanUpBlock
<1>3. ControlInv'
  BY <1>1, <1>2 DEF ControlInv
<1> QED
  BY <1>2, <1>3

(* Steps that take a task from the scheduler.                               *)
LEMMA CompletedAtOnce ==
  ASSUME IInv, TypeInv', NEW t \in Task, InExecute, SchedNext(t), TaskCompleteOutright(t),
         runq_running' = runq_running \cup {t}, phase' = "idle",
         UNCHANGED << rqdata, covered, rq_state, childVars, proc, cooker, outcome >>
  PROVE  IInv'
<1> USE DEF IInv, TypeInv
<1>1. t \in runq_buildable /\ t \notin runq_running /\ rq_state = "Running"
  BY DEF SchedNext, Candidates, InExecute
<1>2. ChildrenInv'
  BY <1>1 DEF ChildrenInv, TaskCompleteOutright, childVars
<1>3. QueueInv'
  <2>1. runq_complete' \subseteq runq_running' /\ runq_running' \subseteq runq_buildable'
    BY DEF QueueInv, TaskCompleteOutright
  <2>2. runq_running' \subseteq runq_complete' \cup failed' \cup build_pids'
    BY DEF QueueInv, TaskCompleteOutright, childVars
  <2>3. \A u \in Task : proc'[u] = "reaped" => u \in runq_complete' \cup failed'
    BY DEF QueueInv, TaskCompleteOutright, childVars
  <2>4. failed' \subseteq runq_running' \ (runq_complete' \cup build_pids')
    BY <1>1 DEF QueueInv, TaskCompleteOutright, childVars
  <2>5. covered' \subseteq runq_complete'
    BY <1>1 DEF QueueInv, TaskCompleteOutright
  <2> QED
    BY <1>1, <2>1, <2>2, <2>3, <2>4, <2>5, CompleteOutrightQueue DEF QueueInv
<1>4. ControlInv'
  BY DEF ControlInv, InExecute, childVars, TypeOK, Outcomes
<1> QED
  BY <1>2, <1>3, <1>4

LEMMA SkipStep ==
  ASSUME IInv, TypeInv', NEW t \in Task, SkipTask(t) \/ FinishInline(t)
  PROVE  IInv'
BY CompletedAtOnce DEF SkipTask, FinishInline

LEMMA ForkStep ==
  ASSUME IInv, TypeInv', NEW t \in Task, ForkOffTask(t)
  PROVE  IInv'
<1> USE DEF IInv, TypeInv
<1>1. /\ t \in Candidates /\ active < rqdata.number_tasks
      /\ phase = "execute" /\ rq_state = "Running"
  BY DEF ForkOffTask, MustFork, SchedNext, InExecute
<1>2. t \in runq_buildable /\ t \notin runq_running /\ t \notin build_pids
  BY <1>1 DEF Candidates, ChildrenInv
<1>3. /\ UNCHANGED << rqdata, covered, rq_state, runq_buildable, runq_complete,
                      failed, cooker, outcome >>
      /\ proc' = [proc EXCEPT ![t] = "forked"]
      /\ build_pids' = build_pids \cup {t} /\ active' = active + 1
      /\ runq_running' = runq_running \cup {t}
      /\ phase' \in {"idle", "wait"}
  BY DEF ForkOffTask
<1>4. ChildrenInv'
  <2>1. active' = Cardinality(build_pids')
    BY <1>2, <1>3, PidsFinite, FS_AddElement DEF ChildrenInv
  <2>2. active' <= rqdata'.number_tasks
    BY <1>1, <1>3, RecordFields DEF TypeOK
  <2>3. build_pids' = { u \in Task : proc'[u] \in Alive \cup Zombie }
    BY <1>3 DEF ChildrenInv, TypeOK, Alive
  <2>4. build_pids' \subseteq runq_running' \ runq_complete'
    BY <1>2, <1>3 DEF ChildrenInv, QueueInv
  <2>5. \A u, v \in build_pids' : u # v => rqdata'.stampfile[u] # rqdata'.stampfile[v]
    BY <1>1, <1>3 DEF ChildrenInv, Candidates
  <2> QED
    BY <2>1, <2>2, <2>3, <2>4, <2>5 DEF ChildrenInv
<1>5. QueueInv'
  <2>1. \A u \in Task : proc'[u] = "reaped" => proc[u] = "reaped"
    BY <1>3 DEF TypeOK
  <2> QED
    BY <1>2, <1>3, <2>1 DEF QueueInv
<1>6. ControlInv'
  BY <1>1, <1>3 DEF ControlInv, TypeOK, Outcomes
<1> QED
  BY <1>4, <1>5, <1>6

(* The workers, the clock and stuttering.                                   *)
LEMMA WorkerStep ==
  ASSUME IInv, TypeInv', NEW t \in Task, Worker(t)
  PROVE  IInv'
<1> USE DEF IInv, TypeInv
<1>1. UNCHANGED serverVars
  BY DEF Worker, WorkerStart, WorkerUnstamp, WorkerStamp, WorkerSucceeds, WorkerFails
<1>2. \E from \in Alive, to \in Alive \cup Zombie : WorkerMoves(t, from, to)
  BY DEF Worker, WorkerStart, WorkerUnstamp, WorkerStamp, WorkerSucceeds, WorkerFails,
     Alive, Working, Zombie
<1>3. \A u \in Task :
        /\ proc'[u] \in Alive \cup Zombie <=> proc[u] \in Alive \cup Zombie
        /\ proc'[u] = "reaped" <=> proc[u] = "reaped"
  BY <1>2 DEF WorkerMoves, TypeOK, Alive, Working, Zombie
<1>4. ChildrenInv' /\ QueueInv'
  BY <1>1, <1>3, ChildrenFrame, QueueFrame DEF serverVars, queueVars, childVars
<1>5. Candidates' = Candidates
  BY <1>1 DEF serverVars, queueVars, childVars, Candidates
<1>6. ControlInv'
  BY <1>1, <1>5 DEF ControlInv, serverVars, queueVars, childVars
<1> QED
  BY <1>1, <1>4, <1>6 DEF serverVars

LEMMA FrameStep == IInv /\ TypeInv' /\ (Tick \/ Ended \/ UNCHANGED vars) => IInv'
<1> SUFFICES ASSUME IInv, TypeInv', UNCHANGED serverVars, UNCHANGED proc PROVE IInv'
  BY DEF Tick, Ended, vars, serverVars, queueVars, childVars
<1> USE DEF IInv, TypeInv
<1>1. ChildrenInv' /\ QueueInv'
  BY ChildrenFrame, QueueFrame DEF serverVars, queueVars, childVars
<1>2. Candidates' = Candidates
  BY DEF serverVars, queueVars, childVars, Candidates
<1>3. ControlInv'
  BY <1>2 DEF ControlInv, serverVars, queueVars, childVars
<1> QED
  BY <1>1, <1>3

LEMMA InvInit == Init => IInv
<1> SUFFICES ASSUME Init PROVE IInv
  OBVIOUS
<1>1. TypeInv
  BY TypeInit
<1>2. ChildrenInv
  BY <1>1, RecordFields, FS_EmptySet DEF Init, ChildrenInv, Alive, Working, Zombie
<1>3. QueueInv
  BY DEF Init, QueueInv
<1>4. ControlInv
  BY DEF Init, ControlInv
<1> QED
  BY <1>1, <1>2, <1>3, <1>4 DEF IInv, TypeInv

LEMMA InvStep == IInv /\ [Next]_vars => IInv'
<1> SUFFICES ASSUME IInv, [Next]_vars PROVE IInv'
  OBVIOUS
<1>1. TypeInv'
  BY TypeStep DEF IInv, TypeInv
<1> QED
  BY <1>1, RunInitStep, CallBeginStep, NothingToStartStep, RunDryStep, EndStep, ForkFailsStep,
     CommandStep, WaitStep, CleanUpStep, SkipStep, ForkStep, WorkerStep, FrameStep
  DEF Next, Server

THEOREM Invariance == Spec => []IInv
BY InvInit, InvStep, PTL DEF Spec

-----------------------------------------------------------------------------
(* What the invariant gives.                                                *)

(* A task is started or passed over only after everything it depends on.    *)
THEOREM DependencyOrderHolds == Spec => []DependencyOrder
<1>1. IInv => DependencyOrder
  BY DEF IInv, QueueInv, DependencyOrder
<1> QED
  BY <1>1, Invariance, PTL

(* stats.active counts the children, never more than BB_NUMBER_THREADS.     *)
THEOREM ConcurrencyLimitHolds == Spec => []ConcurrencyLimit
<1>1. IInv => ConcurrencyLimit
  BY DEF IInv, ChildrenInv, ConcurrencyLimit
<1> QED
  BY <1>1, Invariance, PTL

(* No two workers with one stamp file exist at the same time.               *)
THEOREM SharedStampExclusionHolds == Spec => []SharedStampExclusion
<1>1. IInv => SharedStampExclusion
  BY DEF IInv, ChildrenInv, SharedStampExclusion
<1> QED
  BY <1>1, Invariance, PTL

(* A command that ends with success or failure leaves no worker behind.     *)
THEOREM NoWorkerLeftHolds == Spec => []NoWorkerLeft
<1>1. IInv => NoWorkerLeft
  <2> SUFFICES ASSUME IInv, outcome \in {"complete", "failed"}, NEW t \in Task
               PROVE  proc[t] \in {"none", "reaped"}
    BY DEF NoWorkerLeft
  <2>1. build_pids = {}
    BY PidsFinite, FS_EmptySet DEF IInv, TypeInv, ControlInv, ChildrenInv
  <2> QED
    BY <2>1 DEF IInv, TypeOK, ChildrenInv, ProcStates
<1> QED
  BY <1>1, Invariance, PTL

(* Success is reported only when no task failed.                            *)
THEOREM FailureReportedHolds == Spec => []FailureReported
<1>1. IInv => FailureReported
  BY DEF IInv, QueueInv, ControlInv, FailureReported
<1> QED
  BY <1>1, Invariance, PTL

(* With at least one worker allowed, a queue that runs dry leaves only      *)
(* failed tasks and tasks behind an incomplete one.                         *)
LEMMA RunsDry ==
  ASSUME IInv, rqdata.number_tasks > 0, phase = "wait", active = 0,
         NEW t \in Task \ runq_complete, rqdata.depends[t] \subseteq runq_complete
  PROVE  t \in failed
<1>1. build_pids = {}
  BY PidsFinite, FS_EmptySet DEF IInv, TypeInv, ChildrenInv
<1>2. Candidates = {}
  BY DEF IInv, ControlInv
<1>3. t \in runq_buildable
  BY DEF IInv, QueueInv, ControlInv
<1>4. t \in runq_running
  BY <1>1, <1>2, <1>3 DEF Candidates
<1> QED
  BY <1>1, <1>4 DEF IInv, QueueInv

THEOREM ContinueBuildsTheRestHolds ==
  Spec => [](rqdata.number_tasks > 0 => ContinueBuildsTheRest)
<1>1. IInv => (rqdata.number_tasks > 0 => ContinueBuildsTheRest)
  BY RunsDry DEF ContinueBuildsTheRest
<1> QED
  BY <1>1, Invariance, PTL

(* The sanity checks at the end of execute() never log an error: in an      *)
(* acyclic graph, a task left behind would have one left behind before it,  *)
(* and so on down to one with nothing left behind before it.                *)
THEOREM SanityChecksHold ==
  Spec => [](rqdata.number_tasks > 0 => SanityChecks)
<1>1. IInv => (rqdata.number_tasks > 0 => SanityChecks)
  <2> SUFFICES ASSUME IInv, rqdata.number_tasks > 0, AtSanityChecks
               PROVE  runq_buildable = Task /\ runq_running = Task /\ runq_complete = Task
    BY DEF SanityChecks
  <2>1. runq_complete = Task
    <3>1. SUFFICES ASSUME Task \ runq_complete # {} PROVE FALSE
      BY DEF IInv, TypeOK
    <3>2. PICK t \in Task \ runq_complete :
             rqdata.depends[t] \cap (Task \ runq_complete) = {}
      BY <3>1, RecordFields DEF IInv, TypeInv, Acyclic
    <3>3. rqdata.depends[t] \subseteq runq_complete
      BY <3>2, RecordFields DEF IInv, TypeInv
    <3> QED
      BY <3>2, <3>3, RunsDry DEF AtSanityChecks
  <2> QED
    BY <2>1 DEF IInv, TypeOK, QueueInv
<1> QED
  BY <1>1, Invariance, PTL

(* Order, limit and exclusion of the tasks that run.                        *)
THEOREM SchedulingHolds == Spec => []Scheduling
<1>1. DependencyOrder /\ ConcurrencyLimit /\ SharedStampExclusion => Scheduling
  BY DEF Scheduling
<1> QED
  BY <1>1, DependencyOrderHolds, ConcurrencyLimitHolds, SharedStampExclusionHolds, PTL

(* The end of a queue and of its command, with at least one worker allowed. *)
THEOREM EndingHolds == Spec => [](rqdata.number_tasks > 0 => Ending)
<1>1. /\ rqdata.number_tasks > 0 => SanityChecks
      /\ rqdata.number_tasks > 0 => ContinueBuildsTheRest
      /\ NoWorkerLeft /\ FailureReported
      => (rqdata.number_tasks > 0 => Ending)
  BY DEF Ending
<1> QED
  BY <1>1, SanityChecksHold, ContinueBuildsTheRestHolds, NoWorkerLeftHolds, FailureReportedHolds, PTL

(* A fork is the only way to start a task.                                  *)
LEMMA StartsByFork ==
  ASSUME IInv, TypeInv', [Next]_vars, NEW t \in Task, Starts(t)
  PROVE  ForkOffTask(t)
<1> USE DEF IInv, TypeInv, TypeOK, Starts, ProcStates, Alive, Working, Zombie
<1>1. CASE \E u \in Task : Worker(u)
  BY <1>1 DEF Worker, WorkerStart, WorkerUnstamp, WorkerStamp, WorkerSucceeds,
     WorkerFails, WorkerMoves
<1>2. CASE \E u \in Task : ForkOffTask(u)
  BY <1>2 DEF ForkOffTask
<1>3. CASE CallBegin \/ WaitChild \/ CleanUpBlock
  BY <1>3 DEF CallBegin, WaitChild, CleanUpBlock, FinishNow, Terminated, Finish, Reap, NoneToReap
<1>4. CASE \/ RunInit \/ NothingToStart \/ RunDry \/ EndBlock
           \/ StateShutdown \/ StateStop \/ Tick \/ Ended \/ UNCHANGED vars
           \/ \E u \in Task : SkipTask(u) \/ FinishInline(u) \/ ForkFails(u)
  BY <1>4 DEF RunInit, NothingToStart, RunDry, EndBlock, StateShutdown, StateStop,
     CookerCommand, Tick, Ended, vars, SkipTask, FinishInline, ForkFails
<1> QED
  BY <1>1, <1>2, <1>3, <1>4 DEF Next, Server

(* Nothing is started after a shutdown was asked for, nor after a failure   *)
(* without --continue.                                                      *)
THEOREM ShutdownStartsNothingHolds == Spec => ShutdownStartsNothing
<1>1. IInv /\ TypeInv' /\ [Next]_vars =>
        [ \A t \in Task : Starts(t) => cooker # "shutdown" /\ (failed = {} \/ ~rqdata.abort) ]_vars
  BY StartsByFork DEF ForkOffTask, MustFork, InExecute, IInv, ControlInv
<1>2. IInv => TypeInv
  BY DEF IInv, TypeInv
<1> QED
  BY <1>1, <1>2, Invariance, PTL DEF Spec, ShutdownStartsNothing

-----------------------------------------------------------------------------
(* Stamps.                                                                  *)

(* The worker of t has written the stamp of t.                              *)
HasRun(t) ==
  \/ proc[t] \in {"stamped", "ok"}
  \/ proc[t] = "reaped" /\ t \in runq_complete

(* The stamp of t is of this build and not older than those it compares to. *)
Stamped(t) ==
  /\ StampOf(t) >= BuildStart
  /\ \A d \in rqdata.depends[t] : OwnStamp(d) => StampOf(t) >= StampOf(d)

(* What the properties about stamps need beside IInv: no stamp is from the  *)
(* future, no setscene stamp from this build; a task that ran has its stamp *)
(* unless another writer of it was started.                                 *)
StampInv ==
  /\ clock >= BuildStart
  /\ \A s \in Stamp : stamps[s] <= clock /\ scstamps[s] <= BuildStart
  /\ \A t \in covered : proc[t] = "none"
  /\ \A t \in Task \ rqdata.nostamp : HasRun(t) /\ Alone(t) => Stamped(t)
  /\ StampsConsistent

(* What StampsConsistent says of one task.                                  *)
Current(t) ==
  /\ StampOf(t) # Absent
  /\ \A d \in rqdata.depends[t] \ covered :
       OwnStamp(d) /\ InStampTree(t, d) => \/ StampOf(t) >= StampOf(d)
                                           \/ SceneStampOf(d) > StampOf(d)

LEMMA StampTypes ==
  ASSUME TypeInv
  PROVE  /\ rqdata.stampfile \in [Task -> Stamp] /\ rqdata.depends \in [Task -> SUBSET Task]
         /\ stamps \in [Stamp -> Nat] /\ scstamps \in [Stamp -> Nat] /\ clock \in Nat
         /\ BuildStart \in Nat \ {0}
         /\ \A t \in Task : StampOf(t) \in Nat /\ SceneStampOf(t) \in Nat
BY ClockAssumption DEF TypeInv, TypeOK, DataTypeOK, IsRunQueue, RunQueueRecord, StampOf, SceneStampOf

(* A task that ran was not covered, and what it depends on is complete.     *)
LEMMA DependenciesDone ==
  ASSUME IInv, StampInv, NEW t \in Task, HasRun(t) \/ t \in runq_complete \ covered
  PROVE  t \in runq_running \ covered /\ rqdata.depends[t] \subseteq runq_complete
<1>1. t \in runq_running \ covered
  BY DEF HasRun, StampInv, IInv, ChildrenInv, QueueInv, Alive, Working, Zombie
<1> QED
  BY <1>1 DEF IInv, QueueInv

(* check_stamp_task and the worker leave a current stamp.                   *)
LEMMA CurrentWhenChecked ==
  ASSUME NEW t, CheckStamp(t)
  PROVE  Current(t)
BY DEF CheckStamp, Current

LEMMA CurrentWhenRun ==
  ASSUME IInv, StampInv, NEW t \in Task \ rqdata.nostamp, HasRun(t), OwnStamp(t)
  PROVE  Current(t)
<1>1. Alone(t)
  BY DEF Alone, OwnStamp
<1>2. Stamped(t)
  BY <1>1 DEF StampInv
<1>3. StampOf(t) \in Nat /\ BuildStart \in Nat \ {0}
  BY StampTypes DEF IInv, TypeInv
<1> QED
  BY <1>2, <1>3 DEF Stamped, Current, Absent

(* A step that writes no stamp.                                             *)
LEMMA StampsKept ==
  ASSUME IInv, StampInv,
         UNCHANGED << rqdata, stamps, scstamps, covered >>,
         clock' \in Nat, clock' >= clock,
         \A u \in Task : proc'[u] = "none" => proc[u] = "none",
         \A u \in covered : proc'[u] = "none",
         \A u \in Task \ rqdata.nostamp : HasRun(u)' => HasRun(u),
         \A u \in (runq_complete' \ runq_complete) \ rqdata.nostamp :
           u \in Task /\ (CheckStamp(u) \/ HasRun(u) \/ rqdata.dry_run)
  PROVE  StampInv'
<1>1. stamps \in [Stamp -> Nat] /\ clock \in Nat /\ BuildStart \in Nat
  BY StampTypes DEF IInv, TypeInv
<1>2. clock' >= BuildStart /\ \A s \in Stamp : stamps'[s] <= clock' /\ scstamps'[s] <= BuildStart
  BY <1>1 DEF StampInv
<1>3. ASSUME NEW u \in Task \ rqdata.nostamp, HasRun(u)', Alone(u)'
      PROVE  Stamped(u)'
  <2>1. HasRun(u) /\ Alone(u)
    BY <1>3 DEF Alone
  <2>2. Stamped(u)
    BY <2>1 DEF StampInv
  <2> QED
    BY <2>2 DEF Stamped, StampOf, OwnStamp
<1>4. StampsConsistent'
  <2> SUFFICES ASSUME NEW u \in runq_complete' \ (covered \cup rqdata.nostamp),
                      OwnStamp(u), ~rqdata.dry_run
               PROVE  Current(u)
    BY DEF StampsConsistent, Current, OwnStamp, StampOf, SceneStampOf, InStampTree
  <2>1. CASE u \in runq_complete
    BY <2>1 DEF StampInv, StampsConsistent, Current
  <2>2. CASE u \notin runq_complete
    BY <2>2, CurrentWhenChecked, CurrentWhenRun
  <2> QED
    BY <2>1, <2>2
<1> QED
  BY <1>2, <1>3, <1>4 DEF StampInv

(* A step in which the writer t of a stamp removes it, or puts down a new   *)
(* one.                                                                     *)
LEMMA StampWritten ==
  ASSUME IInv, TypeInv', StampInv, NEW t \in Task, t \notin runq_complete, NEW m \in {Absent, clock},
         stamps' = [stamps EXCEPT ![rqdata.stampfile[t]] = m],
         UNCHANGED << rqdata, scstamps, clock, covered >>,
         m = clock \/ (proc'[t] # "none" /\ ~HasRun(t)'),
         \A u \in Task : proc'[u] = "none" => proc[u] = "none",
         \A u \in covered : proc'[u] = "none",
         \A u \in (Task \ rqdata.nostamp) \ {t} : HasRun(u)' => HasRun(u),
         runq_complete' = runq_complete \/ (runq_complete' = runq_complete \cup {t} /\ m = clock)
  PROVE  StampInv'
<1>1. /\ rqdata.stampfile \in [Task -> Stamp] /\ rqdata.depends \in [Task -> SUBSET Task]
      /\ stamps \in [Stamp -> Nat] /\ clock \in Nat /\ BuildStart \in Nat \ {0}
      /\ runq_complete \subseteq Task
  BY StampTypes DEF IInv, TypeInv, TypeOK
<1>2. clock >= BuildStart /\ \A s \in Stamp : stamps'[s] \in Nat /\ stamps'[s] <= clock
  BY <1>1 DEF StampInv, Absent
<1>3. m = clock => \A u \in Task : rqdata.stampfile[u] = rqdata.stampfile[t] => StampOf(u)' = clock
  BY <1>1 DEF StampOf
<1>4. \A u \in Task : rqdata.stampfile[u] # rqdata.stampfile[t] => StampOf(u)' = StampOf(u)
  BY <1>1 DEF StampOf
<1>5. \A d \in runq_complete : OwnStamp(d) => StampOf(d)' = StampOf(d)
  BY <1>1, <1>4 DEF OwnStamp
<1>6. \A u \in Task : StampOf(u)' \in Nat /\ StampOf(u)' <= clock
  BY <1>1, <1>2 DEF StampOf
<1>7. \A u \in Task : OwnStamp(u)' <=> OwnStamp(u)
  BY DEF OwnStamp
<1>8. ASSUME NEW u \in Task \ rqdata.nostamp, HasRun(u)', Alone(u)'
      PROVE  Stamped(u)'
  <2>1. CASE rqdata.stampfile[u] = rqdata.stampfile[t]
    <3>1. m = clock
      BY <1>8, <2>1 DEF Alone
    <3>2. StampOf(u)' = clock
      BY <1>3, <2>1, <3>1
    <3>3. \A d \in rqdata.depends[u] : StampOf(d)' <= clock
      BY <1>1, <1>6
    <3> QED
      BY <1>2, <1>1, <3>2, <3>3 DEF Stamped
  <2>2. CASE rqdata.stampfile[u] # rqdata.stampfile[t]
    <3>1. HasRun(u) /\ Alone(u)
      BY <1>8, <2>2 DEF Alone
    <3>2. Stamped(u) /\ rqdata.depends[u] \subseteq runq_complete
      BY <3>1, DependenciesDone DEF StampInv
    <3>3. StampOf(u)' = StampOf(u)
      BY <1>4, <2>2
    <3>4. \A d \in rqdata.depends[u] : OwnStamp(d) => StampOf(d)' = StampOf(d)
      BY <1>5, <3>2
    <3> QED
      BY <1>7, <1>1, <3>2, <3>3, <3>4 DEF Stamped
  <2> QED
    BY <2>1, <2>2
<1>9. StampsConsistent'
  <2> SUFFICES ASSUME NEW u \in runq_complete' \ (covered \cup rqdata.nostamp),
                      OwnStamp(u), ~rqdata.dry_run
               PROVE  Current(u)'
    BY <1>7 DEF StampsConsistent, Current, OwnStamp
  <2>1. CASE u \in runq_complete
    <3>1. rqdata.depends[u] \subseteq runq_complete /\ u \in Task /\ Current(u)
      BY <1>1, <2>1, DependenciesDone DEF StampInv, StampsConsistent, Current
    <3>2. StampOf(u)' = StampOf(u)
      BY <1>5, <2>1
    <3>3. \A d \in rqdata.depends[u] : OwnStamp(d) => StampOf(d)' = StampOf(d)
      BY <1>5, <3>1
    <3> QED
      BY <1>7, <1>1, <3>1, <3>2, <3>3 DEF Current, SceneStampOf, InStampTree
  <2>2. CASE u \notin runq_complete
    <3>1. u = t /\ StampOf(u)' = clock
      BY <1>3, <2>2
    <3>2. \A d \in rqdata.depends[u] : StampOf(d)' \in Nat /\ StampOf(d)' <= clock
      BY <1>1, <1>6, <3>1
    <3> QED
      BY <1>1, <1>2, <3>1, <3>2 DEF Current, Absent
  <2> QED
    BY <2>1, <2>2
<1> QED
  BY <1>2, <1>8, <1>9 DEF StampInv

(* runqueue_process_waitpid completes only a task whose worker succeeded.   *)
LEMMA StampReap ==
  ASSUME IInv, StampInv, NEW t \in Task, Reap(t),
         UNCHANGED << rqdata, stamps, scstamps, clock, covered >>
  PROVE  StampInv'
<1>1. t \in build_pids /\ proc[t] \in Zombie /\ proc' = [proc EXCEPT ![t] = "reaped"]
  BY DEF Reap, Reapable
<1>2. proc \in [Task -> ProcStates] /\ clock \in Nat /\ t \notin runq_complete
  BY <1>1 DEF IInv, TypeOK, DataTypeOK, ChildrenInv
<1>3. \A u \in Task \ {t} : proc'[u] = proc[u]
  BY <1>1, <1>2
<1>4. proc'[t] = "reaped" /\ proc[t] \in {"ok", "bad"}
  BY <1>1, <1>2 DEF Zombie
<1>5. t \notin covered
  BY <1>4 DEF StampInv
<1>6. /\ runq_complete' \subseteq runq_complete \cup {t}
      /\ t \in runq_complete' => proc[t] = "ok"
  BY <1>2 DEF Reap, TaskCompleteOutright
<1>7. \A u \in Task : HasRun(u)' => HasRun(u)
  BY <1>3, <1>4, <1>6 DEF HasRun
<1>8. \A u \in runq_complete' \ runq_complete : u \in Task /\ HasRun(u)
  BY <1>6 DEF HasRun
<1>9. covered \subseteq Task
  BY DEF IInv, TypeOK
<1>10. \A u \in covered : proc'[u] = "none"
  BY <1>3, <1>5, <1>9 DEF StampInv
<1>11. \A u \in Task : proc'[u] = "none" => proc[u] = "none"
  BY <1>3, <1>4
<1> QED
  BY <1>2, <1>7, <1>8, <1>10, <1>11, StampsKept

(* Steps in which no worker moves, nothing completes and no stamp changes.  *)
LEMMA StampFrame ==
  ASSUME IInv, StampInv, UNCHANGED << rqdata, stamps, scstamps, covered, proc, runq_complete >>,
         clock' \in Nat, clock' >= clock
  PROVE  StampInv'
<1>1. \A u \in Task : HasRun(u)' => HasRun(u)
  BY DEF HasRun
<1>2. \A u \in covered : proc'[u] = "none"
  BY DEF StampInv
<1> QED
  BY <1>1, <1>2, StampsKept

LEMMA StampFinish ==
  ASSUME IInv, StampInv, Finish, UNCHANGED << rqdata, stamps, scstamps, clock, covered >>
  PROVE  StampInv'
<1>1. clock' \in Nat /\ clock' >= clock
  BY DEF IInv, TypeOK, DataTypeOK
<1> QED
  BY <1>1, StampReap, StampFrame DEF Finish, NoneToReap

LEMMA StampRunInit ==
  ASSUME IInv, TypeInv', StampInv, RunInit
  PROVE  StampInv'
<1>1. /\ UNCHANGED << rqdata, stamps, clock, proc >> /\ runq_complete' = covered'
      /\ covered' \subseteq Task
      /\ \A s \in Stamp : scstamps'[s] \in {Absent, scstamps[s]}
  BY DEF RunInit, CoverClosure
<1>2. \A u \in Task : proc[u] = "none"
  <2>1. build_pids = {} /\ runq_complete = {} /\ failed = {}
    BY DEF RunInit, IInv, ControlInv, ChildrenInv, QueueInv
  <2> QED
    BY <2>1 DEF IInv, TypeOK, ChildrenInv, QueueInv, ProcStates
<1>3. \A u \in Task : ~HasRun(u)'
  BY <1>1, <1>2 DEF HasRun
<1>4. \A s \in Stamp : scstamps'[s] <= BuildStart
  BY <1>1, StampTypes DEF StampInv, IInv, TypeInv, Absent
<1>5. StampsConsistent'
  BY <1>1 DEF StampsConsistent
<1> QED
  BY <1>1, <1>2, <1>3, <1>4, <1>5 DEF StampInv

LEMMA StampSkip ==
  ASSUME IInv, StampInv, NEW t \in Task, SkipTask(t)
  PROVE  StampInv'
<1>1. /\ CheckStamp(t) /\ runq_complete' = runq_complete \cup {t}
      /\ UNCHANGED << rqdata, stamps, scstamps, clock, covered, proc >>
  BY DEF SkipTask, TaskCompleteOutright, fileVars
<1>2. t \notin runq_running /\ clock \in Nat
  BY DEF SkipTask, SchedNext, Candidates, IInv, TypeOK, DataTypeOK
<1>3. \A u \in Task : HasRun(u)' => HasRun(u)
  BY <1>1, <1>2 DEF HasRun, IInv, QueueInv
<1>4. \A u \in covered : proc'[u] = "none"
  BY <1>1 DEF StampInv
<1> QED
  BY <1>1, <1>2, <1>3, <1>4, StampsKept

LEMMA StampFinishInline ==
  ASSUME IInv, TypeInv', StampInv, NEW t \in Task, FinishInline(t)
  PROVE  StampInv'
<1>1. /\ runq_complete' = runq_complete \cup {t}
      /\ UNCHANGED << rqdata, scstamps, clock, covered, proc >>
      /\ stamps' = IF rqdata.dry_run THEN stamps
                   ELSE [stamps EXCEPT ![rqdata.stampfile[t]] = clock]
  BY DEF FinishInline, TaskCompleteOutright
<1>2. t \notin runq_running /\ clock \in Nat
  BY DEF FinishInline, SchedNext, Candidates, IInv, TypeOK, DataTypeOK
<1>3. t \notin runq_complete
  BY <1>2 DEF IInv, QueueInv
<1>4. \A u \in Task : HasRun(u)' => HasRun(u)
  BY <1>1, <1>2 DEF HasRun, IInv, QueueInv
<1>5. \A u \in covered : proc'[u] = "none"
  BY <1>1 DEF StampInv
<1>6. CASE rqdata.dry_run
  BY <1>1, <1>2, <1>4, <1>5, <1>6, StampsKept
<1>7. CASE ~rqdata.dry_run
  BY <1>1, <1>3, <1>4, <1>5, <1>7, StampWritten
<1> QED
  BY <1>6, <1>7

LEMMA StampFork ==
  ASSUME IInv, StampInv, NEW t \in Task, ForkOffTask(t)
  PROVE  StampInv'
<1>1. /\ UNCHANGED << rqdata, stamps, scstamps, clock, covered, runq_complete >>
      /\ proc' = [proc EXCEPT ![t] = "forked"]
  BY DEF ForkOffTask, fileVars
<1>2. proc \in [Task -> ProcStates] /\ clock \in Nat /\ covered \subseteq Task
  BY DEF IInv, TypeOK, DataTypeOK
<1>3. t \notin covered
  BY DEF ForkOffTask, MustFork, InExecute, SchedNext, Candidates, IInv, QueueInv
<1>4. \A u \in Task : proc'[u] = IF u = t THEN "forked" ELSE proc[u]
  BY <1>1, <1>2
<1>5. \A u \in Task : HasRun(u)' => HasRun(u)
  BY <1>1, <1>4 DEF HasRun
<1>6. \A u \in covered : proc'[u] = "none"
  BY <1>2, <1>3, <1>4 DEF StampInv
<1> QED
  BY <1>1, <1>2, <1>4, <1>5, <1>6, StampsKept

LEMMA StampWorker ==
  ASSUME IInv, TypeInv', StampInv, NEW t \in Task, Worker(t)
  PROVE  StampInv'
<1>1. UNCHANGED << rqdata, scstamps, clock, covered, runq_complete >>
  BY DEF Worker, WorkerStart, WorkerUnstamp, WorkerStamp, WorkerSucceeds, WorkerFails,
     serverVars, queueVars, fileVars
<1>2. proc \in [Task -> ProcStates] /\ clock \in Nat /\ covered \subseteq Task
  BY DEF IInv, TypeOK, DataTypeOK
<1>3. PICK from \in Alive, to \in Alive \cup Zombie : WorkerMoves(t, from, to)
  BY DEF Worker, WorkerStart, WorkerUnstamp, WorkerStamp, WorkerSucceeds, WorkerFails,
     Alive, Working, Zombie
<1>4. proc[t] = from /\ \A u \in Task : proc'[u] = IF u = t THEN to ELSE proc[u]
  BY <1>2, <1>3 DEF WorkerMoves
<1>5. from # "none" /\ to # "none" /\ from # "reaped" /\ to # "reaped"
  BY DEF Alive, Working, Zombie
<1>6. \A u \in Task : proc'[u] = "none" => proc[u] = "none"
  BY <1>4, <1>5
<1>7. \A u \in covered : proc'[u] = "none"
  BY <1>2, <1>4, <1>5 DEF StampInv
<1>8. \A u \in Task \ {t} : HasRun(u)' => HasRun(u)
  BY <1>1, <1>4 DEF HasRun
<1>9. t \notin runq_complete
  BY <1>4 DEF IInv, ChildrenInv
<1>10. CASE WorkerUnstamp(t)
  <2>1. /\ stamps' = [stamps EXCEPT ![rqdata.stampfile[t]] = Absent] /\ proc'[t] = "restamp"
    BY <1>2, <1>10 DEF WorkerUnstamp, WorkerMoves
  <2>2. ~HasRun(t)'
    BY <2>1 DEF HasRun
  <2> QED
    BY <1>1, <1>6, <1>7, <1>8, <1>9, <2>1, <2>2, StampWritten
<1>11. CASE WorkerStamp(t)
  <2>1. stamps' = [stamps EXCEPT ![rqdata.stampfile[t]] = clock]
    BY <1>11 DEF WorkerStamp
  <2> QED
    BY <1>1, <1>6, <1>7, <1>8, <1>9, <2>1, StampWritten
<1>12. CASE WorkerStart(t) \/ WorkerSucceeds(t) \/ WorkerFails(t)
  <2>1. stamps' = stamps
    BY <1>12 DEF WorkerStart, WorkerSucceeds, WorkerFails, fileVars
  <2>2. t \notin rqdata.nostamp => (HasRun(t)' => HasRun(t))
    BY <1>2, <1>12, <1>5 DEF WorkerStart, WorkerSucceeds, WorkerFails, WorkerMoves, HasRun
  <2>3. \A u \in Task \ rqdata.nostamp : HasRun(u)' => HasRun(u)
    BY <1>8, <2>2
  <2> QED
    BY <1>1, <1>2, <1>6, <1>7, <2>1, <2>3, StampsKept
<1> QED
  BY <1>10, <1>11, <1>12 DEF Worker

LEMMA StampInit == Init => StampInv
<1> SUFFICES ASSUME Init PROVE StampInv
  OBVIOUS
<1>1. \A s \in Stamp : stamps[s] <= clock /\ scstamps[s] <= BuildStart
  BY ClockAssumption DEF Init
<1>2. clock >= BuildStart
  BY ClockAssumption DEF Init
<1>3. \A t \in Task : proc[t] = "none" /\ ~HasRun(t)
  BY DEF Init, HasRun
<1>4. covered \subseteq Task
  BY TypeInit DEF TypeInv, TypeOK
<1>5. StampsConsistent
  BY DEF Init, StampsConsistent
<1> QED
  BY <1>1, <1>2, <1>3, <1>4, <1>5 DEF StampInv

LEMMA StampStep == IInv /\ StampInv /\ [Next]_vars => StampInv'
<1> SUFFICES ASSUME IInv, StampInv, [Next]_vars PROVE StampInv'
  OBVIOUS
<1>1. TypeInv'
  BY TypeStep DEF IInv, TypeInv
<1>2. clock \in Nat /\ clock >= clock /\ clock + 1 \in Nat /\ clock + 1 >= clock
  BY DEF IInv, TypeOK, DataTypeOK
<1>3. CASE CallBegin
  <2>1. UNCHANGED << rqdata, stamps, scstamps, clock, covered >>
    BY <1>3 DEF CallBegin, fileVars
  <2>2. CASE FinishNow
    <3>1. runq_complete' = runq_complete /\ proc' = Terminated(proc)
      BY <2>2 DEF FinishNow
    <3>2. \A u \in Task : proc'[u] = "none" <=> proc[u] = "none"
      BY <3>1 DEF Terminated, Working
    <3>3. \A u \in Task : HasRun(u)' => HasRun(u)
      BY <3>1 DEF Terminated, HasRun
    <3>4. \A u \in covered : proc'[u] = "none"
      BY <3>2 DEF StampInv, IInv, TypeOK
    <3> QED
      BY <1>2, <2>1, <3>1, <3>2, <3>3, <3>4, StampsKept
  <2>3. CASE Finish
    BY <2>1, <2>3, StampFinish
  <2>4. CASE UNCHANGED << proc, runq_complete >>
    BY <1>2, <2>1, <2>4, StampFrame
  <2> QED
    BY <1>3, <2>2, <2>3, <2>4 DEF CallBegin
<1>4. CASE WaitChild
  <2>1. UNCHANGED << rqdata, stamps, scstamps, clock, covered >>
    BY <1>4 DEF WaitChild, fileVars
  <2>2. CASE NoneToReap
    BY <1>2, <2>1, <2>2, StampFrame DEF NoneToReap
  <2> QED
    BY <1>4, <2>1, <2>2, StampReap DEF WaitChild
<1>5. CASE CleanUpBlock
  BY <1>5, StampFinish DEF CleanUpBlock, fileVars
<1>6. CASE \/ NothingToStart \/ RunDry \/ EndBlock \/ StateShutdown \/ StateStop \/ Ended
           \/ UNCHANGED vars \/ \E t \in Task : ForkFails(t)
  <2>1. UNCHANGED << rqdata, stamps, scstamps, clock, covered, proc, runq_complete >>
    BY <1>6 DEF NothingToStart, RunDry, EndBlock, StateShutdown, StateStop, CookerCommand,
       Ended, vars, ForkFails, fileVars, queueVars
  <2> QED
    BY <1>2, <2>1, StampFrame
<1>7. CASE Tick
  <2>1. /\ UNCHANGED << rqdata, stamps, scstamps, covered, proc, runq_complete >>
        /\ clock' = clock + 1
    BY <1>7 DEF Tick, serverVars, queueVars
  <2> QED
    BY <1>2, <2>1, StampFrame
<1> QED
  BY <1>1, <1>3, <1>4, <1>5, <1>6, <1>7, StampRunInit, StampSkip, StampFinishInline,
     StampFork, StampWorker
  DEF Next, Server

LEMMA StampInvariance == Spec => []StampInv
BY StampInit, StampStep, Invariance, PTL DEF Spec

(* A completed task's stamp is there and not older than those of the tasks  *)
(* it depends on, whatever workers wrote or failed to write since.          *)
THEOREM StampsConsistentHolds == Spec => []StampsConsistent
<1>1. StampInv => StampsConsistent
  BY DEF StampInv
<1> QED
  BY <1>1, StampInvariance, PTL

(* A dependency that ran in this build makes its dependents run, or pass on *)
(* the strength of a stamp of this build.                                   *)
THEOREM RerunPropagatesHolds == Spec => RerunPropagates
<1>1. ASSUME IInv, StampInv, NEW t \in Task, SkipTask(t), StampOf(t) < BuildStart,
             NEW d \in rqdata.depends[t] \ rqdata.nostamp, InStampTree(t, d), Alone(d),
             proc[d] = "reaped"
      PROVE  FALSE
  <2>1. /\ d \in Task /\ StampOf(t) \in Nat /\ StampOf(d) \in Nat /\ SceneStampOf(d) \in Nat
        /\ BuildStart \in Nat
    <3>1. d \in Task
      BY <1>1, StampTypes DEF IInv, TypeInv
    <3> QED
      BY <1>1, <3>1, StampTypes DEF IInv, TypeInv
  <2>2. d \in runq_complete
    BY <1>1 DEF SkipTask, SchedNext, Candidates, InExecute, IInv, QueueInv
  <2>3. StampOf(d) >= BuildStart
    <3>1. HasRun(d)
      BY <1>1, <2>2 DEF HasRun
    <3>2. Stamped(d)
      BY <1>1, <2>1, <3>1 DEF StampInv
    <3> QED
      BY <3>2 DEF Stamped
  <2>4. SceneStampOf(d) <= BuildStart
    BY <1>1, <2>1, StampTypes DEF StampInv, SceneStampOf, IInv, TypeInv
  <2>5. SceneStampOf(d) > StampOf(d) \/ StampOf(t) >= StampOf(d)
    BY <1>1 DEF SkipTask, CheckStamp
  <2> QED
    BY <1>1, <2>1, <2>3, <2>4, <2>5
<1>2. IInv /\ StampInv /\ [Next]_vars =>
        [ \A t \in Task : SkipTask(t) /\ StampOf(t) < BuildStart =>
            \A d \in rqdata.depends[t] \ rqdata.nostamp :
              InStampTree(t, d) /\ Alone(d) => proc[d] # "reaped" ]_vars
  BY <1>1
<1> QED
  BY <1>2, Invariance, StampInvariance, PTL DEF Spec, RerunPropagates

(* The work two recipes share is done once: what the first left is current  *)
(* for the second.                                                          *)
THEOREM SharedWorkOnceHolds == Spec => SharedWorkOnce
<1>1. ASSUME IInv, StampInv, NEW t \in Task, NEW u \in Task, ForkOffTask(u),
             t # u, rqdata.stampfile[t] = rqdata.stampfile[u], Alone(t),
             rqdata.depends[u] \subseteq rqdata.depends[t] \ (covered \cup rqdata.nostamp),
             \A d \in rqdata.depends[u] : OwnStamp(d),
             proc[t] = "reaped", t \notin failed \cup rqdata.nostamp, u \notin rqdata.nostamp
      PROVE  FALSE
  <2>1. ~CheckStamp(u) /\ ~rqdata.dry_run /\ u \in runq_buildable \ covered
    BY <1>1 DEF ForkOffTask, MustFork, InExecute, SchedNext, Candidates, IInv, QueueInv
  <2>2. Stamped(t)
    BY <1>1 DEF HasRun, StampInv, IInv, QueueInv
  <2>3. StampOf(u) = StampOf(t) /\ StampOf(t) \in Nat /\ BuildStart \in Nat \ {0}
    BY <1>1, StampTypes DEF StampOf, IInv, TypeInv
  <2>4. StampOf(u) # Absent
    BY <2>2, <2>3 DEF Stamped, Absent
  <2>5. ASSUME NEW d \in rqdata.depends[u]
        PROVE  StampOf(d) # Absent /\ StampOf(u) >= StampOf(d)
    <3>1. d \in runq_complete \ (covered \cup rqdata.nostamp)
      BY <1>1, <2>1 DEF IInv, QueueInv
    <3>2. StampOf(d) # Absent
      BY <1>1, <2>1, <3>1 DEF StampInv, StampsConsistent
    <3> QED
      BY <1>1, <2>2, <2>3, <3>2 DEF Stamped
  <2>6. CheckStamp(u)
    BY <1>1, <2>4, <2>5 DEF CheckStamp
  <2> QED
    BY <2>1, <2>6
<1>2. IInv /\ TypeInv' /\ StampInv /\ [Next]_vars =>
        [ \A t, u \in Task :
            /\ Starts(u) /\ t # u /\ rqdata.stampfile[t] = rqdata.stampfile[u] /\ Alone(t)
            /\ rqdata.depends[u] \subseteq rqdata.depends[t] \ (covered \cup rqdata.nostamp)
            /\ \A d \in rqdata.depends[u] : OwnStamp(d)
            => proc[t] # "reaped" \/ t \in failed \cup rqdata.nostamp \/ u \in rqdata.nostamp
        ]_vars
  BY <1>1, StartsByFork
<1>3. IInv => TypeInv
  BY DEF IInv, TypeInv
<1> QED
  BY <1>2, <1>3, Invariance, StampInvariance, PTL DEF Spec, SharedWorkOnce

-----------------------------------------------------------------------------
(* The executor implements BuildPlan.                                       *)

(* How the status of the tasks is read off the executor's sets.             *)
LEMMA StatusSets ==
  ASSUME IInv
  PROVE  /\ Plan!With("complete") = runq_complete
         /\ Plan!With("failed") = failed
         /\ Plan!With("running") = build_pids
         /\ \A t \in Task : PlanStatus[t] = "waiting" <=> t \notin runq_running
BY DEF IInv, TypeOK, ChildrenInv, QueueInv, Plan!With, PlanStatus

LEMMA PlanInit == Init => Plan!Init
BY DEF Init, Plan!Init, PlanStatus

LEMMA PlanRunInit == IInv /\ RunInit => Plan!TakeOut(covered')
<1> SUFFICES ASSUME IInv, RunInit PROVE Plan!TakeOut(covered')
  OBVIOUS
<1>1. failed = {} /\ build_pids = {}
  BY DEF RunInit, IInv, ControlInv, ChildrenInv
<1>2. /\ UNCHANGED << rqdata, failed, build_pids, outcome >>
      /\ runq_complete' = covered' /\ rq_state' = "Running" /\ rq_state = "RunInit"
  BY DEF RunInit, childVars
<1>3. PlanStatus' = [t \in Task |-> IF t \in covered' THEN "complete" ELSE "waiting"]
  BY <1>1, <1>2 DEF PlanStatus
<1> QED
  BY <1>2, <1>3 DEF Plan!TakeOut

(* Only these variables are seen through the mapping.                       *)
LEMMA PlanStutter ==
  ASSUME UNCHANGED << rqdata, runq_complete, failed, build_pids, outcome >>,
         (rq_state # "RunInit") = (rq_state' # "RunInit")
  PROVE  UNCHANGED Plan!vars
BY DEF Plan!vars, PlanStatus

LEMMA PlanReap ==
  ASSUME IInv, rq_state # "RunInit", rq_state' # "RunInit", outcome = "none",
         UNCHANGED << rqdata, outcome >>, NEW t \in Task, Reap(t)
  PROVE  Plan!Succeed(t) \/ Plan!Fail(t)
<1>1. PlanStatus[t] = "running" /\ t \in build_pids /\ t \notin runq_complete /\ t \notin failed
  BY DEF Reap, Reapable, PlanStatus, IInv, ChildrenInv, QueueInv
<1>2. Plan!Open
  BY DEF Plan!Open
<1>3. CASE proc[t] = "ok"
  <2>1. PlanStatus' = [PlanStatus EXCEPT ![t] = "complete"]
    BY <1>1, <1>3 DEF PlanStatus, Reap, TaskCompleteOutright
  <2> QED
    BY <1>1, <1>2, <2>1 DEF Plan!Succeed, Plan!Becomes
<1>4. CASE proc[t] # "ok"
  <2>1. PlanStatus' = [PlanStatus EXCEPT ![t] = "failed"]
    BY <1>1, <1>4 DEF PlanStatus, Reap
  <2> QED
    BY <1>1, <1>2, <2>1 DEF Plan!Fail, Plan!Becomes
<1> QED
  BY <1>3, <1>4

(* What the scheduler hands out is ready in the plan.                       *)
LEMMA PlanReady ==
  ASSUME IInv, NEW t \in Task, InExecute, SchedNext(t), UNCHANGED << rqdata, rq_state, outcome >>
  PROVE  Plan!Open /\ Plan!Ready(t) /\ t \notin runq_complete \cup failed \cup build_pids
<1>1. t \in runq_buildable /\ t \notin runq_running
  BY DEF SchedNext, Candidates
<1>2. t \notin covered
  BY <1>1 DEF IInv, QueueInv, ControlInv, InExecute
<1>3. rqdata.depends[t] \subseteq runq_complete
  BY <1>1, <1>2 DEF IInv, QueueInv
<1>4. Plan!Ready(t)
  BY <1>1, <1>3, StatusSets DEF Plan!Ready
<1>5. Plan!Open
  BY DEF Plan!Open, InExecute, IInv, ControlInv, TypeOK, Outcomes
<1> QED
  BY <1>1, <1>4, <1>5 DEF IInv, QueueInv, ChildrenInv

LEMMA PlanPassOver ==
  ASSUME IInv, NEW t \in Task, SkipTask(t) \/ FinishInline(t)
  PROVE  Plan!PassOver(t)
<1>1. /\ InExecute /\ SchedNext(t) /\ TaskCompleteOutright(t)
      /\ UNCHANGED << rqdata, rq_state, childVars, outcome >>
  BY DEF SkipTask, FinishInline
<1>2. PlanStatus' = [PlanStatus EXCEPT ![t] = "complete"]
  BY <1>1, PlanReady DEF PlanStatus, TaskCompleteOutright, childVars
<1> QED
  BY <1>1, <1>2, PlanReady DEF Plan!PassOver, Plan!Becomes

LEMMA PlanStart ==
  ASSUME IInv, NEW t \in Task, ForkOffTask(t)
  PROVE  Plan!Start(t)
<1>1. /\ InExecute /\ SchedNext(t) /\ build_pids' = build_pids \cup {t}
      /\ UNCHANGED << rqdata, rq_state, runq_complete, failed, outcome >>
  BY DEF ForkOffTask, MustFork
<1>2. PlanStatus' = [PlanStatus EXCEPT ![t] = "running"]
  BY <1>1, PlanReady DEF PlanStatus
<1>3. Cardinality(build_pids) < rqdata.number_tasks
  BY <1>1 DEF SchedNext, IInv, ChildrenInv
<1>4. \A u \in build_pids : rqdata.stampfile[u] # rqdata.stampfile[t]
  BY <1>1 DEF SchedNext, Candidates
<1>5. Plan!Open /\ Plan!Ready(t)
  BY <1>1, PlanReady
<1>6. Plan!With("running") = build_pids
  BY StatusSets
<1> QED
  BY <1>2, <1>3, <1>4, <1>5, <1>6 DEF Plan!Start, Plan!Becomes, Plan!Cardinality, Cardinality

LEMMA PlanClose == IInv /\ EndBlock => Plan!Close(outcome')
<1> SUFFICES ASSUME IInv, EndBlock PROVE Plan!Close(outcome')
  OBVIOUS
<1>1. /\ rq_state \in {"Failed", "Complete"} /\ outcome = "none" /\ active = 0
      /\ outcome' = IF rq_state = "Failed" THEN "failed" ELSE "complete"
      /\ UNCHANGED << rqdata, rq_state, childVars, queueVars >>
  BY DEF EndBlock, IInv, ControlInv, TypeOK, Outcomes
<1>2. build_pids = {}
  BY <1>1, PidsFinite, FS_EmptySet DEF IInv, TypeInv, ChildrenInv
<1>3. (rq_state = "Failed" => failed # {}) /\ (rq_state = "Complete" => failed = {})
  BY DEF IInv, ControlInv
<1>4. UNCHANGED PlanStatus
  BY <1>1 DEF PlanStatus, childVars, queueVars
<1> QED
  BY <1>1, <1>2, <1>3, <1>4, StatusSets DEF Plan!Close

LEMMA PlanStep == IInv /\ [Next]_vars => [Plan!Next]_Plan!vars
<1> SUFFICES ASSUME IInv, [Next]_vars PROVE Plan!Next \/ UNCHANGED Plan!vars
  OBVIOUS
<1>1. CASE RunInit
  <2>1. covered' \in SUBSET Task
    BY <1>1 DEF RunInit, CoverClosure
  <2> QED
    BY <1>1, <2>1, PlanRunInit DEF Plan!Next
<1>2. CASE CallBegin
  <2>1. rq_state # "RunInit" /\ outcome = "none" /\ UNCHANGED << rqdata, outcome >>
    BY <1>2 DEF CallBegin, IInv, ControlInv, TypeOK, Outcomes
  <2>2. CASE \E t \in Task : Reap(t) /\ rq_state' = "CleanUp"
    BY <2>1, <2>2, PlanReap DEF Plan!Next
  <2>3. CASE UNCHANGED << runq_complete, failed, build_pids >> /\ rq_state' # "RunInit"
    BY <2>1, <2>3, PlanStutter
  <2> QED
    BY <1>2, <2>1, <2>2, <2>3 DEF CallBegin, Finish, FinishNow, Terminated, NoneToReap, childVars
<1>3. CASE WaitChild
  <2>1. /\ rq_state = "Running" /\ outcome = "none" /\ UNCHANGED << rqdata, outcome >>
        /\ rq_state' # "RunInit"
    BY <1>3 DEF WaitChild, IInv, ControlInv, TypeOK, Outcomes, AfterReap
  <2>2. CASE \E t \in Task : Reap(t)
    BY <2>1, <2>2, PlanReap DEF Plan!Next
  <2>3. CASE NoneToReap
    BY <2>1, <2>3, PlanStutter DEF NoneToReap
  <2> QED
    BY <1>3, <2>2, <2>3 DEF WaitChild
<1>4. CASE CleanUpBlock
  <2>1. /\ rq_state = "CleanUp" /\ outcome = "none" /\ UNCHANGED << rqdata, outcome >>
        /\ rq_state' # "RunInit"
    BY <1>4 DEF CleanUpBlock, IInv, ControlInv, TypeOK, Outcomes, Finish
  <2>2. CASE \E t \in Task : Reap(t)
    BY <2>1, <2>2, PlanReap DEF Plan!Next
  <2>3. CASE UNCHANGED << runq_complete, failed, build_pids >>
    BY <2>1, <2>3, PlanStutter
  <2> QED
    BY <1>4, <2>2, <2>3 DEF CleanUpBlock, Finish, NoneToReap, childVars
<1>5. CASE EndBlock
  <2>1. outcome' \in Plan!Verdicts \ {"none"}
    BY <1>5 DEF EndBlock, Plan!Verdicts
  <2> QED
    BY <1>5, <2>1, PlanClose DEF Plan!Next
<1>6. CASE \E t \in Task : SkipTask(t) \/ FinishInline(t)
  BY <1>6, PlanPassOver DEF Plan!Next
<1>7. CASE \E t \in Task : ForkOffTask(t)
  BY <1>7, PlanStart DEF Plan!Next
<1>8. ASSUME NEW t \in Task, ForkFails(t) PROVE Plan!Next
  <2>1. UNCHANGED PlanStatus /\ outcome' = "fatal" /\ UNCHANGED << rqdata, rq_state >>
    BY <1>8 DEF ForkFails, queueVars, childVars, PlanStatus
  <2>2. rq_state = "Running" /\ outcome = "none"
    BY <1>8 DEF ForkFails, MustFork, InExecute, IInv, ControlInv, TypeOK, Outcomes
  <2>3. Plan!Close("fatal")
    BY <2>1, <2>2 DEF Plan!Close
  <2> QED
    BY <2>3 DEF Plan!Next, Plan!Verdicts
<1>9. CASE \/ NothingToStart \/ StateShutdown \/ StateStop \/ Tick \/ Ended
           \/ UNCHANGED vars \/ \E t \in Task : Worker(t)
  <2>1. UNCHANGED << rqdata, runq_complete, failed, build_pids, outcome, rq_state >>
    BY <1>9 DEF NothingToStart, StateShutdown, StateStop, CookerCommand, Tick, Ended,
       Worker, WorkerStart, WorkerUnstamp, WorkerStamp, WorkerSucceeds, WorkerFails, vars,
       serverVars, queueVars, childVars
  <2> QED
    BY <2>1, PlanStutter
<1>10. CASE RunDry
  <2>1. /\ UNCHANGED << rqdata, runq_complete, failed, build_pids, outcome >>
        /\ rq_state # "RunInit" /\ rq_state' # "RunInit"
    BY <1>10 DEF RunDry, queueVars, childVars, IInv, ControlInv
  <2> QED
    BY <2>1, PlanStutter
<1> QED
  BY <1>1, <1>2, <1>3, <1>4, <1>5, <1>6, <1>7, <1>8, <1>9, <1>10 DEF Next, Server

(* Whatever workers, stamps, commands and failed forks do, the executor's   *)
(* steps are steps of the plan.                                             *)
THEOREM ImplementsBuildPlan == Spec => ImplementsPlan
<1>1. Init => Plan!Init
  BY PlanInit
<1>2. IInv /\ [Next]_vars => [Plan!Next]_Plan!vars
  BY PlanStep
<1> QED
  BY <1>1, <1>2, Invariance, PTL DEF Spec, Plan!Spec, ImplementsPlan
=============================================================================
