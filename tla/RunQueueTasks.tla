---------------------------- MODULE RunQueueTasks ----------------------------
(***************************************************************************)
(* RunQueueExecuteTasks of bitbake/lib/bb/runqueue.py: the executor of the *)
(* real tasks of a build, the worker processes it forks, and the idle      *)
(* function of cooker.py (buildTargetsIdle) that drives it.                *)
(*                                                                         *)
(* The server is one thread.  It calls the idle function again and again,  *)
(* and between two calls it may run the commands stateShutdown and         *)
(* stateStop of a client.  The workers run beside it.  One call of the     *)
(* idle function is finish_runqueue (when a stop or a shutdown was asked   *)
(* for) followed by execute_runqueue, a chain of "if self.state is ..."    *)
(* blocks; phase says which block comes next.                              *)
(***************************************************************************)
EXTENDS RunQueueExecute

CONSTANTS
  LastStamp,  \* newest mtime an earlier build can have left
  BuildStart, \* the second in which this executor starts
  MaxClock,   \* bound of this model: the last second a stamp may carry
  ForkMayFail \* whether os.fork() may fail for want of resources

ASSUME ClockAssumption ==
  /\ LastStamp \in Nat /\ BuildStart \in Nat \ {0} /\ MaxClock \in Nat
  /\ LastStamp <= BuildStart
ASSUME ForkAssumption == ForkMayFail \in BOOLEAN

VARIABLES
  covered,         \* rq.scenequeue_covered: tasks the executor will skip
  rq_state,        \* RunQueue.state
  runq_buildable,  \* the tasks whose runq_buildable is 1
  runq_running,    \* the tasks whose runq_running is 1 (started or skipped)
  runq_complete,   \* the tasks whose runq_complete is 1
  failed,          \* the tasks task_fail was called for (failed_fnids)
  cooker,          \* BBCooker.state, as far as the idle function reads it
  phase,           \* where the server is within a call of the idle function
  outcome          \* how the idle function ended

queueVars == << runq_buildable, runq_running, runq_complete >>
childVars == << build_pids, active, failed >>
fileVars  == << stamps, scstamps, clock >>
vars == << rqdata, fileVars, covered, rq_state, queueVars, childVars, proc,
           cooker, phase, outcome >>

RqStates == {"RunInit", "Running", "CleanUp", "Failed", "Complete"}
Phases   == {"idle",     \* between two calls
             "execute",  \* at "if self.state is runQueueRunning"
             "wait",     \* in execute(), at "if self.stats.active > 0"
             "cleanup",  \* at "if self.state is runQueueCleanUp"
             "end",      \* at "if self.state is runQueueFailed" or Complete
             "done"}     \* the idle function is unregistered
Outcomes == {"none", "complete", "failed", "fatal"}

-----------------------------------------------------------------------------
(* The queue's own bookkeeping.                                             *)

(* Variants named X_... are plausible bugs in X; the properties must refute *)
(* them.                                                                    *)
NewlyBuildable_AnyDep(t) == RevDeps(t) \ runq_running   \* alldeps not tested
(* The reverse dependencies task_completeoutright(t) marks as buildable.    *)
NewlyBuildable(t) ==
  { r \in RevDeps(t) \ runq_running :
      rqdata.depends[r] \subseteq runq_complete \cup {t} }

TaskCompleteOutright(t) ==
  /\ runq_complete' = runq_complete \cup {t}
  /\ runq_buildable' = runq_buildable \cup {t} \cup NewlyBuildable(t)

(* The tasks the scheduler may pick: buildable, not started, and with a     *)
(* stamp file no running task is going to write.                            *)
Candidates ==
  { t \in runq_buildable \ runq_running :
      \A u \in build_pids : rqdata.stampfile[u] # rqdata.stampfile[t] }

(* sched.next() returns t.                                                  *)
SchedNext(t) ==
  /\ active < rqdata.number_tasks
  /\ t \in Candidates
  /\ \A u \in Candidates : rqdata.prio[t] <= rqdata.prio[u]

SchedNone == active >= rqdata.number_tasks \/ Candidates = {}

(* The block of execute_runqueue that follows one that leaves the state s.  *)
NextBlock(s) == IF s = "CleanUp" THEN "cleanup"
                ELSE IF s \in {"Failed", "Complete"} THEN "end" ELSE "idle"

-----------------------------------------------------------------------------
(* RunQueueExecuteTasks.__init__                                            *)

ClosedUnderCover(S) ==
  \A t \in Task : RevDeps(t) # {} /\ RevDeps(t) \subseteq S => t \in S

(* The least set holding what the setscene tasks covered and every task all *)
(* of whose reverse dependencies are in it.                                 *)
CoverClosure ==
  { t \in Task : \A S \in SUBSET Task :
                   covered \subseteq S /\ ClosedUnderCover(S) => t \in S }

(* The covered tasks that must run anyway since a dependency in the same    *)
(* recipe will.  The loop looks at the set it is handed only once.          *)
CoveredRemove(S) ==
  { t \in S : \E d \in rqdata.depends[t] :
                rqdata.fnid[d] = rqdata.fnid[t] /\ d \notin S }

RunInit ==
  /\ phase = "execute" /\ rq_state = "RunInit"
  /\ LET full == CoverClosure
         cov  == full \ CoveredRemove(full)
     IN /\ covered' = cov
        /\ scstamps' =
             [ s \in Stamp |->
                 IF \E t \in CoveredRemove(full) : rqdata.stampfile[t] = s
                 THEN Absent ELSE scstamps[s] ]
        /\ runq_running' = cov
        /\ runq_complete' = cov
        /\ runq_buildable' =
             cov \cup { t \in Task : rqdata.depends[t] \subseteq cov }
  /\ rq_state' = "Running"
  /\ UNCHANGED << rqdata, stamps, clock, childVars, proc, cooker, phase, outcome >>

-----------------------------------------------------------------------------
(* RunQueueExecuteTasks.execute                                             *)

InExecute == phase = "execute" /\ rq_state = "Running"

SkipTask_Unbalanced(t) ==  \* taskCompleted without taskSkipped
  /\ InExecute /\ SchedNext(t) /\ CheckStamp(t)
  /\ runq_running' = runq_running \cup {t}
  /\ TaskCompleteOutright(t)
  /\ active' = active - 1
  /\ phase' = "idle"
  /\ UNCHANGED << rqdata, fileVars, covered, rq_state, build_pids, failed, proc, cooker, outcome >>

(* The scheduler's task is up to date: task_skip.                           *)
SkipTask(t) ==
  /\ InExecute /\ SchedNext(t) /\ CheckStamp(t)
  /\ runq_running' = runq_running \cup {t}
  /\ TaskCompleteOutright(t)
  /\ phase' = "idle"
  /\ UNCHANGED << rqdata, fileVars, covered, rq_state, childVars, proc, cooker, outcome >>

FinishInline_NoStamp(t) ==  \* no make_stamp for a noexec task
  /\ InExecute /\ SchedNext(t) /\ ~CheckStamp(t)
  /\ rqdata.dry_run \/ t \in rqdata.noexec
  /\ runq_running' = runq_running \cup {t}
  /\ TaskCompleteOutright(t)
  /\ phase' = "idle"
  /\ UNCHANGED << rqdata, fileVars, covered, rq_state, childVars, proc, cooker, outcome >>

(* A dry run, or a task flagged noexec (whose stamp is made at once).       *)
FinishInline(t) ==
  /\ InExecute /\ SchedNext(t) /\ ~CheckStamp(t)
  /\ rqdata.dry_run \/ t \in rqdata.noexec
  /\ stamps' = IF rqdata.dry_run THEN stamps
               ELSE [stamps EXCEPT ![rqdata.stampfile[t]] = clock]
  /\ runq_running' = runq_running \cup {t}
  /\ TaskCompleteOutright(t)
  /\ phase' = "idle"
  /\ UNCHANGED << rqdata, scstamps, clock, covered, rq_state, childVars, proc, cooker, outcome >>

MustFork(t) ==
  /\ InExecute /\ SchedNext(t) /\ ~CheckStamp(t)
  /\ ~rqdata.dry_run /\ t \notin rqdata.noexec

ForkOffTask(t) ==
  /\ MustFork(t)
  /\ proc' = [proc EXCEPT ![t] = "forked"]
  /\ build_pids' = build_pids \cup {t}
  /\ runq_running' = runq_running \cup {t}
  /\ active' = active + 1
  /\ phase' = IF active + 1 < rqdata.number_tasks THEN "idle" ELSE "wait"
  /\ UNCHANGED << rqdata, fileVars, covered, rq_state, runq_buildable,
                  runq_complete, failed, cooker, outcome >>

(* os.fork() raises OSError: bb.msg.fatal exits, and buildTargetsIdle turns *)
(* the SystemExit into the end of the command.                              *)
ForkFails(t) ==
  /\ ForkMayFail /\ MustFork(t)
  /\ phase' = "done" /\ outcome' = "fatal"
  /\ UNCHANGED << rqdata, fileVars, covered, rq_state, queueVars, childVars, proc, cooker >>

NothingToStart ==
  /\ InExecute /\ SchedNone
  /\ phase' = "wait"
  /\ UNCHANGED << rqdata, fileVars, covered, rq_state, queueVars, childVars,
                  proc, cooker, outcome >>

-----------------------------------------------------------------------------
(* runqueue_process_waitpid, when waitpid returns the child of t.           *)

Reap(t) ==
  /\ t \in Reapable
  /\ proc' = [proc EXCEPT ![t] = "reaped"]
  /\ build_pids' = build_pids \ {t}
  /\ active' = active - 1
  /\ IF proc[t] = "ok"
     THEN TaskCompleteOutright(t) /\ UNCHANGED failed
     ELSE failed' = failed \cup {t} /\ UNCHANGED << runq_buildable, runq_complete >>

NoneToReap ==
  /\ Reapable = {}
  /\ UNCHANGED << proc, build_pids, active, failed, runq_buildable, runq_complete >>

AfterReap_NoAbort(t) == UNCHANGED rq_state

(* task_fail without --continue stops the queue.                            *)
AfterReap(t) ==
  rq_state' = IF proc[t] = "bad" /\ rqdata.abort THEN "CleanUp" ELSE rq_state

(* The tail of execute(): wait for one child, or end.                       *)
WaitChild ==
  /\ phase = "wait" /\ active > 0
  /\ \/ \E t \in Task : Reap(t) /\ AfterReap(t)
     \/ NoneToReap /\ UNCHANGED rq_state
  /\ phase' = NextBlock(rq_state')
  /\ UNCHANGED << rqdata, fileVars, covered, runq_running, cooker, outcome >>

RunDry_Complete ==  \* failed_fnids not looked at
  /\ phase = "wait" /\ active = 0
  /\ rq_state' = "Complete"
  /\ phase' = "end"
  /\ UNCHANGED << rqdata, fileVars, covered, queueVars, childVars, proc, cooker, outcome >>

RunDry ==
  /\ phase = "wait" /\ active = 0
  /\ rq_state' = IF failed # {} THEN "Failed" ELSE "Complete"
  /\ phase' = "end"
  /\ UNCHANGED << rqdata, fileVars, covered, queueVars, childVars, proc, cooker, outcome >>

-----------------------------------------------------------------------------
(* finish(): wait for one child, or end.                                    *)

Finish_NoReap ==  \* returns for each child, but collects none
  /\ rq_state' = IF active > 0 THEN "CleanUp"
                 ELSE IF failed # {} THEN "Failed" ELSE "Complete"
  /\ UNCHANGED << proc, childVars, runq_buildable, runq_complete >>

Finish ==
  \/ /\ active > 0
     /\ rq_state' = "CleanUp"
     /\ NoneToReap \/ \E t \in Task : Reap(t)
  \/ /\ active = 0
     /\ rq_state' = IF failed # {} THEN "Failed" ELSE "Complete"
     /\ UNCHANGED << proc, childVars, runq_buildable, runq_complete >>

(* finish_now(): nothing but the signal.                                     *)
FinishNow ==
  /\ proc' = Terminated(proc)
  /\ UNCHANGED << rq_state, childVars, runq_buildable, runq_complete >>

(* buildTargetsIdle up to the first block of execute_runqueue.              *)
CallBegin ==
  /\ phase = "idle"
  /\ \/ cooker = "stop" /\ FinishNow
     \/ cooker = "shutdown" /\ Finish
     \/ cooker = "running" /\ UNCHANGED << rq_state, proc, childVars,
                                          runq_buildable, runq_complete >>
  /\ phase' = IF rq_state' = "Running" THEN "execute" ELSE NextBlock(rq_state')
  /\ UNCHANGED << rqdata, fileVars, covered, runq_running, cooker, outcome >>

CleanUpBlock ==
  /\ phase = "cleanup"
  /\ Finish
  /\ phase' = IF rq_state' = "CleanUp" THEN "idle" ELSE "end"
  /\ UNCHANGED << rqdata, fileVars, covered, runq_running, cooker, outcome >>

(* TaskFailure or False: BuildCompleted is fired and the command finishes.  *)
EndBlock ==
  /\ phase = "end"
  /\ phase' = "done"
  /\ outcome' = IF rq_state = "Failed" THEN "failed" ELSE "complete"
  /\ UNCHANGED << rqdata, fileVars, covered, rq_state, queueVars, childVars, proc, cooker >>

-----------------------------------------------------------------------------
(* A worker: the child of fork_off_task, up to os._exit.                    *)

serverVars == << rqdata, covered, rq_state, queueVars, childVars, cooker, phase, outcome >>

WorkerStart(t) ==   \* os.setpgid(0, 0)
  WorkerMoves(t, "forked", "working") /\ UNCHANGED << serverVars, fileVars >>

WorkerUnstamp(t) == \* make_stamp: bb.utils.remove(stamp)
  /\ t \notin rqdata.nostamp
  /\ WorkerMoves(t, "working", "restamp")
  /\ stamps' = [stamps EXCEPT ![rqdata.stampfile[t]] = Absent]
  /\ UNCHANGED << serverVars, scstamps, clock >>

WorkerStamp_Forgotten(t) ==
  WorkerMoves(t, "restamp", "stamped") /\ UNCHANGED << serverVars, fileVars >>

WorkerStamp(t) ==   \* make_stamp: open(stamp, "w")
  /\ WorkerMoves(t, "restamp", "stamped")
  /\ stamps' = [stamps EXCEPT ![rqdata.stampfile[t]] = clock]
  /\ UNCHANGED << serverVars, scstamps, clock >>

WorkerSucceeds(t) ==
  /\ \/ WorkerMoves(t, "stamped", "ok")
     \/ t \in rqdata.nostamp /\ WorkerMoves(t, "working", "ok")
  /\ UNCHANGED << serverVars, fileVars >>

(* A function of the task fails, or (after the stamp) dump_sigtask does, or *)
(* the process is killed from outside.                                      *)
WorkerFails(t) ==
  /\ \E from \in Alive : WorkerMoves(t, from, "bad")
  /\ UNCHANGED << serverVars, fileVars >>

Tick ==
  /\ clock < MaxClock
  /\ clock' = clock + 1
  /\ UNCHANGED << serverVars, stamps, scstamps, proc >>

-----------------------------------------------------------------------------
(* The commands stateShutdown and stateStop, run between two calls.         *)

CookerCommand(s) ==
  /\ phase = "idle"
  /\ cooker # s
  /\ cooker' = s
  /\ UNCHANGED << rqdata, fileVars, covered, rq_state, queueVars, childVars,
                  proc, phase, outcome >>

StateShutdown == CookerCommand("shutdown")
StateStop     == CookerCommand("stop")

Ended ==
  phase = "done" /\ (\A t \in Task : proc[t] \notin Alive) /\ UNCHANGED vars

(* Where the setscene executor leaves the queue (SceneQueue's HandOver): a   *)
(* covered task has its setscene stamp, unless the worker of another task   *)
(* could remove it.  A stop may have been asked for between two calls of    *)
(* that executor; without setscene tasks the first call comes this far, and *)
(* nothing was asked before it.                                             *)
Init ==
  /\ rqdata \in RunQueues
  /\ covered \in SUBSET rqdata.setscene
  /\ clock = BuildStart
  /\ stamps \in [Stamp -> 0 .. LastStamp]
  /\ scstamps \in [Stamp -> 0 .. BuildStart]
  /\ \A t \in covered :
       (\A u \in rqdata.setscene \ {t} : rqdata.stampfile[u] # rqdata.stampfile[t])
       => SceneStampOf(t) # Absent
  /\ \A s \in Stamp : scstamps[s] # Absent =>
                        \E t \in rqdata.setscene : rqdata.stampfile[t] = s
  /\ rq_state = "RunInit"
  /\ runq_buildable = {} /\ runq_running = {} /\ runq_complete = {}
  /\ build_pids = {} /\ active = 0 /\ failed = {}
  /\ proc = [t \in Task |-> "none"]
  /\ cooker = "running" \/ (cooker = "stop" /\ rqdata.setscene # {})
  /\ phase = "execute" /\ outcome = "none"

Server ==
  \/ RunInit \/ CallBegin \/ NothingToStart \/ WaitChild \/ RunDry
  \/ CleanUpBlock \/ EndBlock
  \/ \E t \in Task : SkipTask(t) \/ FinishInline(t) \/ ForkOffTask(t) \/ ForkFails(t)

Worker(t) == WorkerStart(t) \/ WorkerUnstamp(t) \/ WorkerStamp(t)
               \/ WorkerSucceeds(t) \/ WorkerFails(t)

Next ==
  \/ Server
  \/ \E t \in Task : Worker(t)
  \/ StateShutdown \/ StateStop
  \/ Tick
  \/ Ended

Spec == Init /\ [][Next]_vars

(* The server loop never stops calling the idle function, and the functions *)
(* of a task return (or fail) in the end.                                   *)
Fairness == WF_vars(Server) /\ \A t \in Task : WF_vars(Worker(t))

FairSpec == Spec /\ Fairness

-----------------------------------------------------------------------------
(* Properties                                                               *)

TypeOK ==
  /\ DataTypeOK
  /\ covered \subseteq Task
  /\ rq_state \in RqStates
  /\ runq_buildable \subseteq Task
  /\ runq_running \subseteq Task
  /\ runq_complete \subseteq Task
  /\ build_pids \subseteq Task
  /\ active \in Nat
  /\ failed \subseteq Task
  /\ proc \in [Task -> ProcStates]
  /\ cooker \in {"running", "shutdown", "stop"}
  /\ phase \in Phases
  /\ outcome \in Outcomes

(* No task that is not covered by setscene output is started, or passed     *)
(* over, before every task it depends on is complete: task_completeoutright *)
(* and __init__ mark a task buildable only then, in whatever order workers  *)
(* exit.                                                                    *)
DependencyOrder ==
  \A t \in runq_running \ covered : rqdata.depends[t] \subseteq runq_complete

(* Workers and accounting agree: stats.active is the number of children not *)
(* yet waited for, and no more than BB_NUMBER_THREADS of them exist, also   *)
(* when several exit between two calls.                                     *)
ConcurrencyLimit ==
  /\ active = Cardinality(build_pids)
  /\ active <= rqdata.number_tasks
  /\ { t \in Task : proc[t] \in Alive \cup Zombie } = build_pids

(* Two recipes sharing a work directory never run the tasks that write the  *)
(* same stamp at the same time (build_stamps).                              *)
SharedStampExclusion ==
  \A t, u \in Task :
    /\ t # u /\ proc[t] \in Alive \cup Zombie /\ proc[u] \in Alive \cup Zombie
    => rqdata.stampfile[t] # rqdata.stampfile[u]

(* What holds while tasks are started and waited for: order, accounting and *)
(* limit, and no two writers of one stamp.                                  *)
Scheduling == DependencyOrder /\ ConcurrencyLimit /\ SharedStampExclusion

(* The sanity checks at the end of execute(), which only log an error:      *)
(* when a queue without failures runs dry, every task was buildable, ran    *)
(* and is complete.                                                         *)
AtSanityChecks == phase = "wait" /\ active = 0 /\ failed = {}

SanityChecks ==
  AtSanityChecks => /\ runq_buildable = Task
                    /\ runq_running = Task
                    /\ runq_complete = Task

(* With --continue, "the other dependencies of these targets can be         *)
(* processed all the same": a queue that runs dry after failures leaves     *)
(* only tasks that failed or depend on a task that is not complete.         *)
ContinueBuildsTheRest ==
  phase = "wait" /\ active = 0 =>
    \A t \in Task \ runq_complete :
      t \in failed \/ \E d \in rqdata.depends[t] : d \notin runq_complete

(* When the command ends, by whatever path but a failed fork, no worker is  *)
(* left behind, running or unreaped.                                        *)
NoWorkerLeft ==
  outcome \in {"complete", "failed"} =>
    \A t \in Task : proc[t] \in {"none", "reaped"}

(* A build that reports success had no failing task.                        *)
FailureReported ==
  outcome = "complete" => \A t \in Task : proc[t] = "reaped" => t \in runq_complete

(* What holds when a queue has run dry and the command ends: every task is   *)
(* complete, or failed, or behind one that did; no child is left; and the   *)
(* success that is reported is one.                                         *)
Ending == SanityChecks /\ ContinueBuildsTheRest /\ NoWorkerLeft /\ FailureReported

(* A completed task's stamp is there and not older than the stamps of its   *)
(* dependencies: the next build will find the task current.  (Tasks sharing *)
(* a stamp file, nostamp tasks and dry runs are left out.)                  *)
OwnStamp(t) == \A u \in Task \ {t} : rqdata.stampfile[u] # rqdata.stampfile[t]

StampsConsistent ==
  \A t \in runq_complete \ (covered \cup rqdata.nostamp) :
    OwnStamp(t) /\ ~rqdata.dry_run =>
      /\ StampOf(t) # Absent
      /\ \A d \in rqdata.depends[t] \ covered :
           OwnStamp(d) /\ InStampTree(t, d) => 
             \/ StampOf(t) >= StampOf(d)
             \/ SceneStampOf(d) > StampOf(d)

(* The inductive invariant behind the properties above, in parts: the       *)
(* children, the queue, and where the server is.                            *)
ChildrenInv ==
  /\ active = Cardinality(build_pids)
  /\ active <= rqdata.number_tasks
  /\ build_pids = { t \in Task : proc[t] \in Alive \cup Zombie }
  /\ build_pids \subseteq runq_running \ runq_complete
  /\ \A t, u \in build_pids : t # u => rqdata.stampfile[t] # rqdata.stampfile[u]

QueueInv ==
  /\ runq_complete \subseteq runq_running
  /\ runq_running \subseteq runq_buildable
  /\ runq_running \subseteq runq_complete \cup failed \cup build_pids
  /\ \A t \in Task : proc[t] = "reaped" => t \in runq_complete \cup failed
  /\ failed \subseteq runq_running \ (runq_complete \cup build_pids)
  /\ \A t \in runq_buildable \ covered : rqdata.depends[t] \subseteq runq_complete
  /\ rq_state # "RunInit" => covered \subseteq runq_complete
  /\ rq_state # "RunInit" =>
       \A t \in Task : rqdata.depends[t] \subseteq runq_complete => t \in runq_buildable

ControlInv ==
  /\ rq_state = "RunInit" => phase = "execute" /\ runq_running = {} /\ failed = {}
  /\ phase \in {"execute", "wait"} => cooker # "shutdown"
  /\ phase = "execute" => rq_state \in {"RunInit", "Running"}
  /\ phase = "wait" => rq_state = "Running"
  /\ phase = "wait" /\ active = 0 /\ rqdata.number_tasks > 0 => Candidates = {}
  /\ phase = "idle" => rq_state \in {"Running", "CleanUp"}
  /\ phase = "cleanup" => rq_state = "CleanUp"
  /\ phase = "end" => rq_state \in {"Failed", "Complete"}
  /\ rq_state \in {"Failed", "Complete"} => active = 0
  /\ rq_state = "Complete" => failed = {}
  /\ rq_state = "Failed" => failed # {}
  /\ rq_state \in {"RunInit", "Running"} /\ rqdata.abort => failed = {}
  /\ outcome \in {"complete", "failed"} => rq_state \in {"Failed", "Complete"}
  /\ outcome = "complete" => rq_state = "Complete"
  /\ outcome = "failed" => rq_state = "Failed"
  /\ outcome # "none" <=> phase = "done"

IInv == rqdata \in RunQueues /\ TypeOK /\ ChildrenInv /\ QueueInv /\ ControlInv

(* The executor implements the plan: a task is running while its child has  *)
(* not been waited for, whatever the child itself is doing.                 *)
PlanStatus ==
  [ t \in Task |-> IF t \in runq_complete THEN "complete"
                   ELSE IF t \in failed THEN "failed"
                   ELSE IF t \in build_pids THEN "running" ELSE "waiting" ]

Plan == INSTANCE BuildPlan WITH plan <- rqdata, status <- PlanStatus,
                                opened <- rq_state # "RunInit", verdict <- outcome

ImplementsPlan == Plan!Spec

Starts(t) == proc[t] = "none" /\ proc'[t] = "forked"

(* Nothing is started any more once a shutdown was asked for, nor after a   *)
(* failure without --continue.                                              *)
ShutdownStartsNothing ==
  [][ \A t \in Task : Starts(t) =>
        cooker # "shutdown" /\ (failed = {} \/ ~rqdata.abort) ]_vars

(* No other task that writes the stamp of t has been started.               *)
Alone(t) ==
  \A u \in Task \ {t} : rqdata.stampfile[u] = rqdata.stampfile[t] => proc[u] = "none"

(* A task that ran is not run again for another recipe sharing its stamp:   *)
(* the second finds the stamp of the first.  (A third writer of that stamp, *)
(* or a second one of the stamp of a dependency, may spoil it.)             *)
SharedWorkOnce ==
  [][ \A t, u \in Task :
        /\ Starts(u) /\ t # u /\ rqdata.stampfile[t] = rqdata.stampfile[u] /\ Alone(t)
        /\ rqdata.depends[u] \subseteq rqdata.depends[t] \ (covered \cup rqdata.nostamp)
        /\ \A d \in rqdata.depends[u] : OwnStamp(d)
        => proc[t] # "reaped" \/ t \in failed \cup rqdata.nostamp \/ u \in rqdata.nostamp
    ]_vars

(* A task is never passed over on the strength of an earlier build's stamp  *)
(* when a dependency in its stamp tree has run in this build.               *)
RerunPropagates ==
  [][ \A t \in Task : SkipTask(t) /\ StampOf(t) < BuildStart =>
        \A d \in rqdata.depends[t] \ rqdata.nostamp :
          InStampTree(t, d) /\ Alone(d) => proc[d] # "reaped" ]_vars

(* "Force the cooker to stop as quickly as possible" (hobeventhandler.py,   *)
(* of stateStop): nothing is started any more once a stop was asked for.    *)
StopStartsNothing ==
  [][ \A t \in Task : Starts(t) => cooker # "stop" ]_vars

(* The tasks a task depends on "must have completed before that task can be *)
(* executed" (usermanual.xml): a dependency that was not run, and was not   *)
(* found current, has been restored from setscene output.                   *)
DependenciesProvided ==
  [][ \A t \in Task : Starts(t) =>
        \A d \in rqdata.depends[t] : d \in covered => SceneStampOf(d) # Absent ]_vars

(* The command ends, whatever fails and whenever it is told to shut down or *)
(* stop.                                                                    *)
Termination == <>(phase = "done")
=============================================================================
