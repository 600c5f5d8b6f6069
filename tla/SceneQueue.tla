----------------------------- MODULE SceneQueue -----------------------------
(***************************************************************************)
(* RunQueueExecuteScenequeue of bitbake/lib/bb/runqueue.py: the executor   *)
(* that runs, before the real tasks, the setscene variants that restore    *)
(* their output from prebuilt packages, and what it hands over to          *)
(* RunQueueExecuteTasks.  Dependents are decided before dependencies.      *)
(*                                                                         *)
(* The server, its idle function and its workers interleave as in          *)
(* RunQueueTasks; phase says where the server is in a call.                *)
(***************************************************************************)
EXTENDS RunQueueExecute

CONSTANTS
  TaskNumber,  \* the index of each task in the run queue
  LastStamp,   \* newest mtime an earlier build can have left
  BuildStart,  \* the second in which this executor starts
  MaxClock,    \* bound of this model: the last second a stamp may carry
  ForkMayFail  \* whether os.fork() may fail for want of resources

ASSUME TaskNumberAssumption ==
  /\ TaskNumber \in [Task -> Nat]
  /\ \A t, u \in Task : TaskNumber[t] = TaskNumber[u] => t = u
ASSUME SceneClockAssumption ==
  /\ LastStamp \in Nat /\ BuildStart \in Nat \ {0} /\ MaxClock \in Nat
  /\ LastStamp <= BuildStart
ASSUME SceneForkAssumption == ForkMayFail \in BOOLEAN

VARIABLES
  hashvalidate,   \* BB_HASHCHECK_FUNCTION is set
  forced,         \* with --force: the setscene tasks among the targets
  sq_revdeps,     \* setscene task -> the setscene tasks decided before it
  sq_revdeps2,    \* of those, the ones not decided yet
  rq_state,       \* RunQueue.state
  runq_buildable, \* the setscene tasks whose runq_buildable is 1
  runq_running,   \* the setscene tasks whose runq_running is 1
  covered,        \* scenequeue_covered
  notcovered,     \* scenequeue_notcovered
  cooker,         \* BBCooker.state, as far as the idle function reads it
  phase,          \* where the server is within a call of the idle function
  outcome         \* how the executor ended

configVars == << rqdata, hashvalidate, forced, sq_revdeps >>
queueVars  == << runq_buildable, runq_running, covered, notcovered, sq_revdeps2 >>
childVars  == << build_pids, active >>
fileVars   == << stamps, scstamps, clock >>
vars == << configVars, queueVars, childVars, fileVars, rq_state, proc, cooker,
           phase, outcome >>

setscene == rqdata.setscene
Decided  == covered \cup notcovered

(* t depends on p, over any number of tasks.                                *)
ClosedUnderDeps(S) == \A t \in S : rqdata.depends[t] \subseteq S
Reaches(t, p) ==
  \A S \in SUBSET Task :
    rqdata.depends[t] \subseteq S /\ ClosedUnderDeps(S) => p \in S

(* The collapsed graphs: the collapse may lose a dependency between         *)
(* setscene tasks, but invents none (SceneGraph's CollapseSound).           *)
CollapsedGraphs ==
  { f \in [setscene -> SUBSET setscene] :
      \A s \in setscene : \A t \in f[s] : Reaches(t, s) }

-----------------------------------------------------------------------------
(* Deciding tasks                                                           *)

UpdateCounters_AnyRevdep(D) ==  \* buildable on the first of its revdeps
  /\ sq_revdeps2' = [ t \in setscene |-> sq_revdeps2[t] \ D ]
  /\ runq_buildable' =
       runq_buildable \cup D \cup { t \in setscene : sq_revdeps2[t] \cap D # {} }

(* scenequeue_updatecounters for every task of D: what is left undecided    *)
(* before each task, and what becomes buildable.                            *)
UpdateCounters(D) ==
  /\ sq_revdeps2' = [ t \in setscene |-> sq_revdeps2[t] \ D ]
  /\ runq_buildable' =
       runq_buildable \cup D \cup
         { t \in setscene : sq_revdeps2[t] # {} /\ sq_revdeps2[t] \subseteq D }

TaskSkip(t) ==
  /\ covered' = covered \cup {t}
  /\ runq_running' = runq_running \cup {t}
  /\ UpdateCounters({t})
  /\ UNCHANGED notcovered

TaskFailOutright(t) ==
  /\ notcovered' = notcovered \cup {t}
  /\ runq_running' = runq_running \cup {t}
  /\ UpdateCounters({t})
  /\ UNCHANGED covered

-----------------------------------------------------------------------------
(* RunQueueExecuteScenequeue.__init__                                       *)

NoSetscene ==
  /\ phase = "execute" /\ rq_state = "SceneInit" /\ setscene = {}
  /\ rq_state' = "RunInit"
  /\ phase' = "done" /\ outcome' = "handover"
  /\ UNCHANGED << configVars, queueVars, childVars, fileVars, proc, cooker >>

(* The setscene tasks found finished by the loop over the hash checks: they *)
(* are in the stamp directory, or share the stamp of a noexec task the loop *)
(* has already made.                                                        *)
StampPresent ==
  { t \in setscene \ rqdata.noexec :
      \/ CheckSceneStamp(t)
      \/ \E u \in setscene \cap rqdata.noexec :
           TaskNumber[u] < TaskNumber[t] /\ rqdata.stampfile[u] = rqdata.stampfile[t] }

(* valid: the packages BB_HASHCHECK_FUNCTION finds.                         *)
HashValidate(valid) ==
  LET noexec == setscene \cap rqdata.noexec
      found  == noexec \cup StampPresent
      gone   == setscene \ (found \cup valid)
  IN /\ covered' = found
     /\ notcovered' = gone
     /\ runq_running' = found \cup gone
     /\ UpdateCounters(found \cup gone)
     /\ scstamps' = [ s \in Stamp |->
                        IF \E t \in noexec : rqdata.stampfile[t] = s
                        THEN clock ELSE scstamps[s] ]

SceneInit ==
  /\ phase = "execute" /\ rq_state = "SceneInit" /\ setscene # {}
  /\ \/ /\ hashvalidate
        /\ \E valid \in SUBSET (setscene \ (rqdata.noexec \cup StampPresent)) :
             HashValidate(valid)
     \/ /\ ~hashvalidate
        /\ UNCHANGED << queueVars, scstamps >>
  /\ rq_state' = "SceneRun"
  /\ UNCHANGED << configVars, childVars, stamps, clock, proc, cooker, phase, outcome >>

-----------------------------------------------------------------------------
(* RunQueueExecuteScenequeue.execute                                        *)

Candidates == runq_buildable \ runq_running

(* The first buildable task, in the order of their numbers.                 *)
NextTask(t) ==
  /\ phase = "execute" /\ rq_state = "SceneRun"
  /\ active < rqdata.number_tasks
  /\ t \in Candidates
  /\ \A u \in Candidates : TaskNumber[t] <= TaskNumber[u]

(* The real task is up to date, or was asked for with --force.              *)
NotWanted(t) == CheckStamp(t) \/ t \in forced

DecideOutright(t) ==
  /\ NextTask(t)
  /\ \/ NotWanted(t) /\ TaskFailOutright(t)
     \/ ~NotWanted(t) /\ CheckSceneStamp(t) /\ TaskSkip(t)
  /\ phase' = "idle"
  /\ UNCHANGED << configVars, childVars, fileVars, rq_state, proc, cooker, outcome >>

MustFork(t) == NextTask(t) /\ ~NotWanted(t) /\ ~CheckSceneStamp(t)

ForkOffTask_NotMarked(t) ==  \* runq_running not set
  /\ MustFork(t)
  /\ proc' = [proc EXCEPT ![t] = "forked"]
  /\ build_pids' = build_pids \cup {t}
  /\ active' = active + 1
  /\ phase' = IF active + 1 < rqdata.number_tasks THEN "idle" ELSE "wait"
  /\ UNCHANGED << configVars, fileVars, rq_state, queueVars, cooker, outcome >>

ForkOffTask(t) ==
  /\ MustFork(t)
  /\ proc' = [proc EXCEPT ![t] = "forked"]
  /\ build_pids' = build_pids \cup {t}
  /\ runq_running' = runq_running \cup {t}
  /\ active' = active + 1
  /\ phase' = IF active + 1 < rqdata.number_tasks THEN "idle" ELSE "wait"
  /\ UNCHANGED << configVars, fileVars, rq_state, runq_buildable, covered,
                  notcovered, sq_revdeps2, cooker, outcome >>

(* os.fork() raises OSError, and the SystemExit of bb.msg.fatal ends the    *)
(* command.                                                                 *)
ForkFails(t) ==
  /\ ForkMayFail /\ MustFork(t)
  /\ phase' = "done" /\ outcome' = "fatal"
  /\ UNCHANGED << configVars, queueVars, childVars, fileVars, rq_state, proc, cooker >>

NothingToStart ==
  /\ phase = "execute" /\ rq_state = "SceneRun"
  /\ active >= rqdata.number_tasks \/ Candidates = {}
  /\ phase' = "wait"
  /\ UNCHANGED << configVars, queueVars, childVars, fileVars, rq_state, proc,
                  cooker, outcome >>

Reap_CountedTwice(t) ==  \* stats.taskFailed called twice for a failure
  /\ t \in Reapable
  /\ proc' = [proc EXCEPT ![t] = "reaped"]
  /\ build_pids' = build_pids \ {t}
  /\ active' = IF proc[t] = "ok" THEN active - 1 ELSE active - 2
  /\ UpdateCounters({t})
  /\ IF proc[t] = "ok" THEN covered' = covered \cup {t} /\ UNCHANGED notcovered
     ELSE notcovered' = notcovered \cup {t} /\ UNCHANGED covered

(* runqueue_process_waitpid: task_complete or task_fail for the child of t. *)
Reap(t) ==
  /\ t \in Reapable
  /\ proc' = [proc EXCEPT ![t] = "reaped"]
  /\ build_pids' = build_pids \ {t}
  /\ active' = active - 1
  /\ UpdateCounters({t})
  /\ IF proc[t] = "ok" THEN covered' = covered \cup {t} /\ UNCHANGED notcovered
     ELSE notcovered' = notcovered \cup {t} /\ UNCHANGED covered

NoneToReap ==
  /\ Reapable = {}
  /\ UNCHANGED << proc, childVars, runq_buildable, covered, notcovered, sq_revdeps2 >>

WaitChild ==
  /\ phase = "wait" /\ active > 0
  /\ NoneToReap \/ \E t \in Task : Reap(t)
  /\ phase' = "idle"
  /\ UNCHANGED << configVars, fileVars, rq_state, runq_running, cooker, outcome >>

HandOver_Early ==  \* does not wait for the children
  /\ phase = "wait"
  /\ rq_state' = "RunInit"
  /\ phase' = "done" /\ outcome' = "handover"
  /\ UNCHANGED << configVars, queueVars, childVars, fileVars, proc, cooker >>

(* The queue is dry: covered becomes rq.scenequeue_covered, and the same    *)
(* call goes on with RunQueueExecuteTasks.                                  *)
HandOver ==
  /\ phase = "wait" /\ active = 0
  /\ rq_state' = "RunInit"
  /\ phase' = "done" /\ outcome' = "handover"
  /\ UNCHANGED << configVars, queueVars, childVars, fileVars, proc, cooker >>

-----------------------------------------------------------------------------
(* Shutdown and stop, as inherited from RunQueueExecute.  No setscene task  *)
(* is ever added to failed_fnids.                                           *)

Finish_NoReap ==  \* returns for each child, but collects none
  /\ rq_state' = IF active > 0 THEN "CleanUp" ELSE "Complete"
  /\ UNCHANGED << proc, childVars, runq_buildable, covered, notcovered, sq_revdeps2 >>

Finish ==
  \/ /\ active > 0
     /\ rq_state' = "CleanUp"
     /\ NoneToReap \/ \E t \in Task : Reap(t)
  \/ /\ active = 0
     /\ rq_state' = "Complete"
     /\ UNCHANGED << proc, childVars, runq_buildable, covered, notcovered, sq_revdeps2 >>

FinishNow ==
  /\ proc' = Terminated(proc)
  /\ UNCHANGED << rq_state, childVars, runq_buildable, covered, notcovered, sq_revdeps2 >>

NextBlock(s) == IF s = "SceneRun" THEN "execute"
                ELSE IF s = "CleanUp" THEN "cleanup" ELSE "end"

CallBegin_Resume ==  \* a shutdown only waits, and goes on with the queue
  /\ phase = "idle"
  /\ \/ cooker = "stop" /\ FinishNow
     \/ cooker # "stop"
        /\ UNCHANGED << rq_state, proc, childVars, runq_buildable, covered, notcovered, sq_revdeps2 >>
  /\ phase' = NextBlock(rq_state')
  /\ UNCHANGED << configVars, fileVars, runq_running, cooker, outcome >>

(* buildTargetsIdle up to the first block of execute_runqueue.              *)
CallBegin ==
  /\ phase = "idle"
  /\ \/ cooker = "stop" /\ FinishNow
     \/ cooker = "shutdown" /\ Finish
     \/ cooker = "running"
        /\ UNCHANGED << rq_state, proc, childVars, runq_buildable, covered,
                        notcovered, sq_revdeps2 >>
  /\ phase' = NextBlock(rq_state')
  /\ UNCHANGED << configVars, fileVars, runq_running, cooker, outcome >>

CleanUpBlock ==
  /\ phase = "cleanup"
  /\ Finish
  /\ phase' = IF rq_state' = "CleanUp" THEN "idle" ELSE "end"
  /\ UNCHANGED << configVars, fileVars, runq_running, cooker, outcome >>

EndBlock ==
  /\ phase = "end"
  /\ phase' = "done" /\ outcome' = "complete"
  /\ UNCHANGED << configVars, queueVars, childVars, fileVars, rq_state, proc, cooker >>

-----------------------------------------------------------------------------
(* A worker runs the setscene task, and make_stamp its "_setscene" stamp.   *)

serverVars == << configVars, queueVars, childVars, rq_state, cooker, phase, outcome >>

WorkerStart(t) ==
  WorkerMoves(t, "forked", "working") /\ UNCHANGED << serverVars, fileVars >>

WorkerUnstamp(t) ==
  /\ WorkerMoves(t, "working", "restamp")
  /\ scstamps' = [scstamps EXCEPT ![rqdata.stampfile[t]] = Absent]
  /\ UNCHANGED << serverVars, stamps, clock >>

WorkerStamp(t) ==
  /\ WorkerMoves(t, "restamp", "stamped")
  /\ scstamps' = [scstamps EXCEPT ![rqdata.stampfile[t]] = clock]
  /\ UNCHANGED << serverVars, stamps, clock >>

WorkerSucceeds(t) ==
  WorkerMoves(t, "stamped", "ok") /\ UNCHANGED << serverVars, fileVars >>

WorkerFails(t) ==
  /\ \E from \in Alive : WorkerMoves(t, from, "bad")
  /\ UNCHANGED << serverVars, fileVars >>

Tick ==
  /\ clock < MaxClock
  /\ clock' = clock + 1
  /\ UNCHANGED << serverVars, stamps, scstamps, proc >>

(* The commands stateShutdown and stateStop, run between two calls.         *)
CookerCommand(s) ==
  /\ phase = "idle" /\ cooker # s
  /\ cooker' = s
  /\ UNCHANGED << configVars, queueVars, childVars, fileVars, rq_state, proc,
                  phase, outcome >>

StateShutdown == CookerCommand("shutdown")
StateStop     == CookerCommand("stop")

Ended ==
  phase = "done" /\ (\A t \in Task : proc[t] \notin Alive) /\ UNCHANGED vars

-----------------------------------------------------------------------------

Init ==
  /\ rqdata \in RunQueues
  /\ hashvalidate \in BOOLEAN
  /\ forced \in SUBSET setscene
  /\ sq_revdeps \in CollapsedGraphs
  /\ sq_revdeps2 = sq_revdeps
  /\ clock = BuildStart
  /\ stamps \in [Stamp -> 0 .. LastStamp]
  /\ \A t \in forced : StampOf(t) = Absent   \* removed by prepare()
  /\ scstamps \in [Stamp -> 0 .. LastStamp]
  /\ \A s \in Stamp : scstamps[s] # Absent =>
                        \E t \in setscene : rqdata.stampfile[t] = s
  /\ rq_state = "SceneInit"
  /\ runq_buildable = { t \in setscene : sq_revdeps[t] = {} }
  /\ runq_running = {} /\ covered = {} /\ notcovered = {}
  /\ build_pids = {} /\ active = 0
  /\ proc = [t \in Task |-> "none"]
  /\ cooker = "running" /\ phase = "execute" /\ outcome = "none"

Server ==
  \/ NoSetscene \/ SceneInit \/ CallBegin \/ NothingToStart \/ WaitChild
  \/ HandOver \/ CleanUpBlock \/ EndBlock
  \/ \E t \in Task : DecideOutright(t) \/ ForkOffTask(t) \/ ForkFails(t)

Worker(t) == WorkerStart(t) \/ WorkerUnstamp(t) \/ WorkerStamp(t)
               \/ WorkerSucceeds(t) \/ WorkerFails(t)

Next ==
  \/ Server
  \/ \E t \in Task : Worker(t)
  \/ StateShutdown \/ StateStop
  \/ Tick
  \/ Ended

Spec == Init /\ [][Next]_vars

(* As in RunQueueTasks: the server goes on calling the idle function, and   *)
(* the functions of a task return.                                          *)
Fairness == WF_vars(Server) /\ \A t \in Task : WF_vars(Worker(t))

FairSpec == Spec /\ Fairness

-----------------------------------------------------------------------------
(* Properties                                                               *)

TypeOK ==
  /\ DataTypeOK
  /\ hashvalidate \in BOOLEAN
  /\ forced \subseteq setscene
  /\ sq_revdeps \in [setscene -> SUBSET setscene]
  /\ sq_revdeps2 \in [setscene -> SUBSET setscene]
  /\ rq_state \in {"SceneInit", "SceneRun", "RunInit", "CleanUp", "Complete"}
  /\ runq_buildable \subseteq setscene
  /\ runq_running \subseteq setscene
  /\ covered \subseteq setscene
  /\ notcovered \subseteq setscene
  /\ build_pids \subseteq setscene
  /\ active \in Nat
  /\ proc \in [Task -> ProcStates]
  /\ cooker \in {"running", "shutdown", "stop"}
  /\ phase \in {"idle", "execute", "wait", "cleanup", "end", "done"}
  /\ outcome \in {"none", "handover", "complete", "fatal"}

(* A setscene task is started only when those its output may make needless  *)
(* (its dependents in the collapsed graph) are decided, however the hash    *)
(* checks and the workers' exits mix.                                       *)
SceneOrder ==
  \A t \in build_pids : sq_revdeps[t] \subseteq Decided

(* Children and accounting agree, within BB_NUMBER_THREADS.                 *)
SceneLimit ==
  /\ active = Cardinality(build_pids)
  /\ active <= rqdata.number_tasks
  /\ { t \in Task : proc[t] \in Alive \cup Zombie } = build_pids

(* Every task is decided once, in one of two ways, and never again: a       *)
(* second decision would make sq_revdeps2[dep].remove(task) raise KeyError. *)
DecidedOnce ==
  [][ /\ covered \subseteq covered' /\ notcovered \subseteq notcovered'
      /\ covered' \cap notcovered' = {}
      /\ \A t \in Task : proc[t] \in Alive \cup Zombie \/ proc'[t] = "forked"
                           => t \notin Decided ]_vars

(* What RunQueueExecuteTasks builds on: the hand-over leaves no worker, has *)
(* decided every setscene task, and what it calls covered has its setscene  *)
(* stamp, which the stamp checks of the real tasks will look for.           *)
HandOverSound ==
  outcome = "handover" =>
    /\ \A t \in Task : proc[t] \in {"none", "reaped"}
    /\ rqdata.number_tasks > 0 => Decided = setscene
    /\ covered \cap notcovered = {}
    /\ \A t \in covered :
         (\A u \in setscene \ {t} : rqdata.stampfile[u] # rqdata.stampfile[t])
         => SceneStampOf(t) # Absent

(* "force run of specified cmd, regardless of stamp status" (bitbake -f):   *)
(* a target of a forced build is not passed over for restored output.       *)
ForcedNotCovered == outcome = "handover" => forced \cap covered = {}

(* It holds where no hash check function is set: execute() is then the only *)
(* place where a setscene task is decided.                                  *)
ForcedWithoutHashes == ~hashvalidate => ForcedNotCovered

(* What holds while setscene tasks are decided: order, limit, and no forced *)
(* target covered where execute() decides.                                  *)
SceneScheduling == SceneOrder /\ SceneLimit /\ ForcedWithoutHashes

(* Once a shutdown was asked for, no setscene task is started and the real  *)
(* tasks are never begun.                                                   *)
ShutdownEndsHere ==
  [][ cooker = "shutdown" =>
        /\ outcome' = "handover" => outcome = "handover"
        /\ \A t \in Task : proc'[t] = "forked" => proc[t] = "forked" ]_vars

(* The queue ends: with a hand-over, or with the end of the command.        *)
SceneEnds == <>(phase = "done")
=============================================================================
