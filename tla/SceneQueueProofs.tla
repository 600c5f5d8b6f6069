-------------------------- MODULE SceneQueueProofs --------------------------
(***************************************************************************)
(* Proofs about the setscene executor, for every prepared run queue, every *)
(* collapsed graph, every result of the hash checks and any number of      *)
(* workers.                                                                *)
(***************************************************************************)
EXTENDS SceneQueue, TLAPS, FiniteSetTheorems

TypeInv == rqdata \in RunQueues /\ TypeOK

(* What collecting a child, or finding none, leaves of the types.           *)
Collected ==
  /\ proc' \in [Task -> ProcStates]
  /\ build_pids' \subseteq setscene /\ active' \in Nat
  /\ runq_buildable' \subseteq setscene
  /\ covered' \subseteq setscene /\ notcovered' \subseteq setscene
  /\ sq_revdeps2' \in [setscene -> SUBSET setscene]

LEMMA ReapTypes ==
  ASSUME TypeInv, active > 0, NoneToReap \/ \E t \in Task : Reap(t)
  PROVE  Collected
<1> USE DEF TypeInv, TypeOK, DataTypeOK, setscene
<1>1. CASE NoneToReap
  BY <1>1 DEF Collected, NoneToReap, childVars
<1>2. ASSUME NEW t \in Task, Reap(t) PROVE Collected
  <2>1. t \in setscene
    BY <1>2 DEF Reap, Reapable
  <2>2. proc' \in [Task -> ProcStates]
    BY <1>2 DEF Reap, ProcStates, Alive, Zombie, Working
  <2>3. build_pids' \subseteq setscene /\ active' \in Nat
    BY <1>2 DEF Reap
  <2>4. runq_buildable' \subseteq setscene /\ sq_revdeps2' \in [setscene -> SUBSET setscene]
    BY <1>2, <2>1 DEF Reap, UpdateCounters
  <2>5. covered' \subseteq setscene /\ notcovered' \subseteq setscene
    BY <1>2, <2>1 DEF Reap
  <2> QED BY <2>2, <2>3, <2>4, <2>5 DEF Collected
<1> QED BY <1>1, <1>2

LEMMA FinishTypes ==
  ASSUME TypeInv, Finish
  PROVE  Collected /\ rq_state' \in {"CleanUp", "Complete"}
<1>1. CASE active > 0
  BY <1>1, ReapTypes DEF Finish, TypeInv, TypeOK, DataTypeOK
<1>2. CASE active = 0
  BY <1>2 DEF Finish, Collected, childVars, TypeInv, TypeOK, DataTypeOK, setscene
<1> QED BY <1>1, <1>2 DEF Finish, TypeInv, TypeOK, DataTypeOK

(* Every step keeps the types (the stamps' and the clock's included).       *)
LEMMA TypeStep == TypeInv /\ [Next]_vars => TypeInv'
<1> SUFFICES ASSUME TypeInv, [Next]_vars PROVE TypeInv'
  OBVIOUS
<1> USE RunQueuesAssumption, SceneClockAssumption
    DEF TypeInv, TypeOK, DataTypeOK, IsRunQueue, RunQueueRecord, setscene
<1> USE DEF ProcStates, Alive, Zombie, Working, Absent
<1>1. CASE NoSetscene
  BY <1>1 DEF NoSetscene, configVars, queueVars, childVars, fileVars
<1>2. CASE SceneInit
  BY <1>2 DEF SceneInit, HashValidate, StampPresent, UpdateCounters, configVars,
     queueVars, childVars
<1>3. CASE CallBegin
  <2>1. CASE Finish
    <3>1. Collected /\ rq_state' \in {"CleanUp", "Complete"}
      BY <2>1, FinishTypes
    <3> QED BY <1>3, <3>1 DEF Collected, CallBegin, NextBlock, configVars, fileVars
  <2>2. CASE FinishNow
    BY <1>3, <2>2 DEF CallBegin, FinishNow, Terminated, NextBlock, configVars, fileVars, childVars
  <2>3. CASE UNCHANGED << rq_state, proc, childVars, runq_buildable, covered, notcovered,
                          sq_revdeps2 >>
    BY <1>3, <2>3 DEF CallBegin, NextBlock, configVars, fileVars, childVars
  <2> QED BY <1>3, <2>1, <2>2, <2>3 DEF CallBegin
<1>4. CASE NothingToStart
  BY <1>4 DEF NothingToStart, configVars, queueVars, childVars, fileVars
<1>5. CASE WaitChild
  <2>1. Collected
    BY <1>5, ReapTypes DEF WaitChild
  <2> QED BY <1>5, <2>1 DEF Collected, WaitChild, configVars, fileVars
<1>6. CASE HandOver
  BY <1>6 DEF HandOver, configVars, queueVars, childVars, fileVars
<1>7. CASE CleanUpBlock
  <2>1. Collected /\ rq_state' \in {"CleanUp", "Complete"}
    BY <1>7, FinishTypes DEF CleanUpBlock
  <2> QED BY <1>7, <2>1 DEF Collected, CleanUpBlock, configVars, fileVars
<1>8. CASE EndBlock
  BY <1>8 DEF EndBlock, configVars, queueVars, childVars, fileVars
<1>9. ASSUME NEW t \in Task, DecideOutright(t) PROVE TypeInv'
  BY <1>9 DEF DecideOutright, NextTask, Candidates, TaskFailOutright, TaskSkip,
     UpdateCounters, configVars, childVars, fileVars
<1>10. ASSUME NEW t \in Task, ForkOffTask(t) PROVE TypeInv'
  BY <1>10 DEF ForkOffTask, MustFork, NextTask, Candidates, configVars, fileVars
<1>11. ASSUME NEW t \in Task, ForkFails(t) PROVE TypeInv'
  BY <1>11 DEF ForkFails, configVars, queueVars, childVars, fileVars
<1>12. ASSUME NEW t \in Task, Worker(t) PROVE TypeInv'
  BY <1>12 DEF Worker, WorkerStart, WorkerUnstamp, WorkerStamp, WorkerSucceeds, WorkerFails,
     WorkerMoves, serverVars, configVars, queueVars, childVars, fileVars
<1>13. CASE StateShutdown \/ StateStop
  BY <1>13 DEF StateShutdown, StateStop, CookerCommand, configVars, queueVars, childVars,
     fileVars
<1>14. CASE Tick
  BY <1>14 DEF Tick, serverVars, configVars, queueVars, childVars
<1>15. CASE Ended \/ UNCHANGED vars
  BY <1>15 DEF Ended, vars, configVars, queueVars, childVars, fileVars
<1> QED
  BY <1>1, <1>2, <1>3, <1>4, <1>5, <1>6, <1>7, <1>8, <1>9, <1>10, <1>11, <1>12, <1>13,
     <1>14, <1>15 DEF Next, Server

LEMMA TypeInit == Init => TypeInv
BY RunQueuesAssumption, SceneClockAssumption
DEF Init, TypeInv, TypeOK, DataTypeOK, IsRunQueue, RunQueueRecord, ProcStates, setscene,
    CollapsedGraphs

(* The type invariant, for every value of the constants.                    *)
THEOREM TypeCorrect == Spec => []TypeOK
<1>1. Spec => []TypeInv
  BY TypeInit, TypeStep, PTL DEF Spec
<1>2. TypeInv => TypeOK
  BY DEF TypeInv
<1> QED
  BY <1>1, <1>2, PTL

-----------------------------------------------------------------------------
(* The inductive invariant, in its parts.                                   *)

(* What no step changes: the collapsed graph.                               *)
ConfigInv == sq_revdeps \in CollapsedGraphs

ChildrenInv ==
  /\ SceneLimit
  /\ build_pids \cap Decided = {}
  /\ SceneOrder

(* runq_running, runq_buildable and sq_revdeps2 are three views of what is  *)
(* decided.                                                                 *)
QueueInv ==
  /\ covered \cap notcovered = {}
  /\ runq_running = Decided \cup build_pids
  /\ sq_revdeps2 = [ t \in setscene |-> sq_revdeps[t] \ Decided ]
  /\ runq_buildable = Decided \cup { t \in setscene : sq_revdeps2[t] = {} }

(* No other setscene task writes the stamp file of t.                       *)
OwnStamp(t) ==
  \A u \in setscene \ {t} : rqdata.stampfile[u] # rqdata.stampfile[t]

Stamped == covered \cup { t \in build_pids : proc[t] \in {"stamped", "ok"} }

StampInv ==
  /\ clock > 0
  /\ \A t \in Stamped : OwnStamp(t) => SceneStampOf(t) # Absent

ForcedInv ==
  /\ forced \cap build_pids = {}
  /\ ~hashvalidate => forced \cap covered = {}

(* Where the server is, and what that says of the queue.                    *)
ControlInv ==
  /\ outcome # "none" => phase = "done"
  /\ phase = "execute" => rq_state \in {"SceneInit", "SceneRun"}
  /\ phase = "wait" => rq_state = "SceneRun"
  /\ phase = "idle" => rq_state \in {"SceneRun", "CleanUp"}
  /\ rq_state = "SceneInit" => Decided = {} /\ build_pids = {} /\ phase = "execute"
  /\ cooker = "shutdown" => phase \notin {"execute", "wait"}
  /\ phase = "wait" /\ active = 0 /\ rqdata.number_tasks > 0 => Candidates = {}
  /\ outcome = "handover" =>
       build_pids = {} /\ (rqdata.number_tasks > 0 => Decided = setscene)

WorkInv == ChildrenInv /\ QueueInv /\ StampInv /\ ForcedInv

IInv == TypeInv /\ ConfigInv /\ WorkInv /\ ControlInv

-----------------------------------------------------------------------------
(* The collapsed graph has no cycle either, because the run queue has none. *)

LEMMA RecordFields ==
  ASSUME TypeInv
  PROVE  /\ rqdata.depends \in [Task -> SUBSET Task]
         /\ rqdata.stampfile \in [Task -> Stamp]
         /\ rqdata.number_tasks \in Nat
         /\ setscene \subseteq Task
         /\ Acyclic(rqdata.depends)
BY RunQueuesAssumption DEF TypeInv, IsRunQueue, RunQueueRecord, setscene

LEMMA ReachesThrough ==
  ASSUME NEW t, NEW s, NEW x, Reaches(t, s), Reaches(s, x)
  PROVE  Reaches(t, x)
BY DEF Reaches, ClosedUnderDeps

(* No task depends on itself: the tasks that do not depend on s, without s, *)
(* would be closed under dependencies and hold those of a task that does.   *)
LEMMA ReachesIrreflexive ==
  ASSUME TypeInv, NEW s \in Task
  PROVE  ~Reaches(s, s)
<1> SUFFICES ASSUME Reaches(s, s) PROVE FALSE
  OBVIOUS
<1> DEFINE Upon == { x \in Task : Reaches(x, s) }
<1>1. PICK y \in Upon : rqdata.depends[y] \cap Upon = {}
  BY RecordFields DEF Acyclic
<1>2. ASSUME NEW x \in Task \ Upon, NEW d \in rqdata.depends[x]
      PROVE  d \in Task \ Upon
  <2>1. d \in Task
    BY RecordFields
  <2>2. SUFFICES ASSUME Reaches(d, s) PROVE Reaches(x, s)
    BY <2>1
  <2>3. SUFFICES ASSUME NEW S \in SUBSET Task, rqdata.depends[x] \subseteq S, ClosedUnderDeps(S)
                 PROVE  s \in S
    BY DEF Reaches
  <2> QED
    BY <2>2, <2>3 DEF Reaches, ClosedUnderDeps
<1>3. ClosedUnderDeps(Task \ Upon)
  BY <1>2 DEF ClosedUnderDeps
<1>4. rqdata.depends[y] \subseteq Task \ Upon
  BY <1>1, RecordFields
<1>5. s \in Task \ Upon
  <2>1. Reaches(y, s)
    BY <1>1
  <2> QED
    BY <1>3, <1>4, <2>1 DEF Reaches
<1> QED
  BY <1>5

(* Every set of setscene tasks has one of which none in the set must be     *)
(* decided first: the task with the fewest below the others.                *)
LEMMA SomeTaskIsFirst ==
  ASSUME TypeInv, ConfigInv, NEW S \in SUBSET setscene, S # {}
  PROVE  \E t \in S : sq_revdeps[t] \cap S = {}
<1> DEFINE Outside(s) == { x \in Task : ~Reaches(s, x) }
           R == StrictSubsetOrdering(Task)
           C == { Outside(s) : s \in S }
<1>1. C \subseteq FiniteSubsetsOf(Task) /\ C # {}
  <2>1. ASSUME NEW N \in C PROVE N \in SUBSET Task /\ IsFiniteSet(N)
    BY TaskAssumption, FS_Subset
  <2> QED
    BY <2>1 DEF FiniteSubsetsOf
<1>2. PICK M \in C : \A N \in C : ~(<<N, M>> \in R)
  BY <1>1, FS_StrictSubsetOrderingWellFounded, WFMin
<1>3. PICK s \in S : M = Outside(s)
  BY <1>2
<1>4. SUFFICES ASSUME NEW t \in S, t \in sq_revdeps[s] PROVE FALSE
  BY <1>3
<1>5. s \in Task /\ Reaches(t, s)
  BY <1>4, RecordFields DEF ConfigInv, CollapsedGraphs
<1>6. s \in Outside(s) /\ s \notin Outside(t)
  BY <1>5, ReachesIrreflexive
<1>7. Outside(t) \subseteq Outside(s)
  BY <1>5, ReachesThrough
<1>8. << Outside(t), Outside(s) >> \in R
  BY <1>6, <1>7 DEF StrictSubsetOrdering
<1> QED
  BY <1>2, <1>3, <1>8

-----------------------------------------------------------------------------
(* What the steps have in common.                                           *)

LEMMA PidsFinite == TypeInv => IsFiniteSet(build_pids)
BY TaskAssumption, FS_Subset, RecordFields DEF TypeInv, TypeOK

LEMMA ConfigFrame == ConfigInv /\ UNCHANGED configVars => ConfigInv'
BY DEF ConfigInv, CollapsedGraphs, Reaches, ClosedUnderDeps, configVars, setscene

(* A step that decides nothing, starts nothing and touches no stamp.        *)
LEMMA WorkFrame ==
  ASSUME TypeInv, WorkInv, UNCHANGED << configVars, queueVars, childVars, fileVars >>,
         \A u \in Task : /\ proc'[u] \in Alive \cup Zombie <=> proc[u] \in Alive \cup Zombie
                         /\ proc'[u] \in {"stamped", "ok"} => proc[u] \in {"stamped", "ok"}
  PROVE  WorkInv'
<1> USE DEF configVars, queueVars, childVars, fileVars
<1>1. ChildrenInv'
  BY DEF WorkInv, ChildrenInv, SceneLimit, SceneOrder, Decided
<1>2. QueueInv'
  BY DEF WorkInv, QueueInv, Decided, setscene
<1>3. Stamped' \subseteq Stamped
  BY RecordFields DEF Stamped, TypeInv, TypeOK
<1>4. StampInv'
  BY <1>3 DEF WorkInv, StampInv, OwnStamp, SceneStampOf, setscene, Absent
<1>5. ForcedInv'
  BY DEF WorkInv, ForcedInv
<1> QED
  BY <1>1, <1>2, <1>4, <1>5 DEF WorkInv

(* scenequeue_updatecounters keeps the three views of the queue together.   *)
LEMMA CountersKeepViews ==
  ASSUME TypeInv, QueueInv, NEW D \in SUBSET setscene, UpdateCounters(D),
         rqdata' = rqdata, sq_revdeps' = sq_revdeps, Decided' = Decided \cup D
  PROVE  /\ sq_revdeps2' = [ t \in setscene' |-> sq_revdeps'[t] \ Decided' ]
         /\ runq_buildable' = Decided' \cup { t \in setscene' : sq_revdeps2'[t] = {} }
<1>1. setscene' = setscene
  BY DEF setscene
<1>2. sq_revdeps2' = [ t \in setscene |-> sq_revdeps2[t] \ D ]
  BY DEF UpdateCounters
<1>3. \A t \in setscene : sq_revdeps2[t] = sq_revdeps[t] \ Decided
  BY DEF QueueInv
<1>4. sq_revdeps2' = [ t \in setscene |-> sq_revdeps[t] \ Decided' ]
  BY <1>2, <1>3
<1>5. runq_buildable' = Decided' \cup { t \in setscene : sq_revdeps2'[t] = {} }
  <2>1. \A t \in setscene : sq_revdeps2'[t] = {} <=> sq_revdeps2[t] \subseteq D
    BY <1>2
  <2>2. runq_buildable' = runq_buildable \cup D \cup
          { t \in setscene : sq_revdeps2[t] # {} /\ sq_revdeps2[t] \subseteq D }
    BY DEF UpdateCounters
  <2>3. runq_buildable = Decided \cup { t \in setscene : sq_revdeps2[t] = {} }
    BY DEF QueueInv
  <2> QED
    BY <2>1, <2>2, <2>3
<1> QED
  BY <1>1, <1>4, <1>5

(* runqueue_process_waitpid takes one child out of the count and the set,   *)
(* and decides its task.                                                    *)
LEMMA ReapStep ==
  ASSUME IInv, TypeInv', NEW t \in Task, Reap(t), rq_state # "SceneInit",
         UNCHANGED << configVars, fileVars, runq_running >>
  PROVE  WorkInv' /\ active > 0
<1> USE DEF configVars, fileVars
<1>1. /\ t \in build_pids /\ proc[t] \in Zombie /\ t \in setscene
      /\ build_pids' = build_pids \ {t} /\ active' = active - 1
      /\ proc' = [proc EXCEPT ![t] = "reaped"]
      /\ setscene' = setscene
  BY DEF Reap, Reapable, IInv, TypeInv, TypeOK, setscene
<1>2. Decided' = Decided \cup {t} /\ UpdateCounters({t})
  BY DEF Reap, Decided
<1>3. t \notin Decided
  BY <1>1 DEF IInv, WorkInv, ChildrenInv
<1>4. ChildrenInv' /\ active > 0
  <2>1. active = Cardinality(build_pids) /\ active \in Nat /\ active <= rqdata.number_tasks
    BY DEF IInv, WorkInv, ChildrenInv, SceneLimit, TypeInv, TypeOK
  <2>2. Cardinality(build_pids \ {t}) = Cardinality(build_pids) - 1
    BY <1>1, PidsFinite, FS_RemoveElement DEF IInv
  <2>3. active > 0
    BY <1>1, <2>1, PidsFinite, FS_EmptySet DEF IInv
  <2>4. active' = Cardinality(build_pids')
    BY <1>1, <2>1, <2>2, Zenon
  <2>5. active' <= rqdata'.number_tasks
    BY <1>1, <2>1, RecordFields DEF IInv
  <2>6. { u \in Task : proc'[u] \in Alive \cup Zombie } = build_pids'
    BY <1>1 DEF IInv, WorkInv, ChildrenInv, SceneLimit, TypeInv, TypeOK, Alive, Zombie, Working
  <2>7. build_pids' \cap Decided' = {} /\ SceneOrder'
    BY <1>1, <1>2 DEF IInv, WorkInv, ChildrenInv, SceneOrder
  <2> QED
    BY <2>3, <2>4, <2>5, <2>6, <2>7 DEF ChildrenInv, SceneLimit
<1>5. QueueInv'
  <2>1. covered' \cap notcovered' = {}
    BY <1>3 DEF Reap, IInv, WorkInv, QueueInv, Decided
  <2>2. runq_running' = Decided' \cup build_pids'
    BY <1>1, <1>2 DEF IInv, WorkInv, QueueInv
  <2> QED
    BY <1>1, <1>2, <2>1, <2>2, CountersKeepViews DEF QueueInv, IInv, WorkInv
<1>6. StampInv'
  <2>1. Stamped' \subseteq Stamped
    BY <1>1 DEF Stamped, Reap, IInv, TypeInv, TypeOK
  <2> QED
    BY <1>1, <2>1 DEF IInv, WorkInv, StampInv, OwnStamp, SceneStampOf, Absent
<1>7. ForcedInv'
  BY <1>1 DEF Reap, IInv, WorkInv, ForcedInv
<1> QED
  BY <1>4, <1>5, <1>6, <1>7 DEF WorkInv

(* finish(), wherever it is called from.                                    *)
LEMMA FinishStep ==
  ASSUME IInv, TypeInv', Finish, rq_state # "SceneInit",
         UNCHANGED << configVars, fileVars, runq_running >>
  PROVE  WorkInv' /\ rq_state' \in {"CleanUp", "Complete"}
<1>1. CASE active > 0 /\ rq_state' = "CleanUp" /\ NoneToReap
  BY <1>1, WorkFrame DEF NoneToReap, IInv, queueVars
<1>2. ASSUME rq_state' = "CleanUp", NEW t \in Task, Reap(t)
      PROVE  WorkInv'
  BY <1>2, ReapStep
<1>3. CASE rq_state' = "Complete" /\
           UNCHANGED << proc, childVars, runq_buildable, covered, notcovered, sq_revdeps2 >>
  BY <1>3, WorkFrame DEF IInv, queueVars
<1> QED
  BY <1>1, <1>2, <1>3 DEF Finish

-----------------------------------------------------------------------------
(* Each step keeps the invariant.                                           *)

LEMMA NoSetsceneStep == IInv /\ TypeInv' /\ NoSetscene => IInv'
<1> SUFFICES ASSUME IInv, TypeInv', NoSetscene PROVE IInv'
  OBVIOUS
<1>1. WorkInv'
  BY WorkFrame DEF IInv, NoSetscene
<1>2. ConfigInv' /\ ControlInv'
  BY ConfigFrame DEF IInv, TypeInv, TypeOK, ControlInv, NoSetscene, configVars, queueVars,
     childVars, Decided, setscene
<1> QED
  BY <1>1, <1>2 DEF IInv

LEMMA SceneInitStep == IInv /\ TypeInv' /\ SceneInit => IInv'
<1> SUFFICES ASSUME IInv, TypeInv', SceneInit PROVE IInv'
  OBVIOUS
<1> USE DEF configVars, childVars, queueVars
<1>1. /\ Decided = {} /\ build_pids = {} /\ phase = "execute" /\ rq_state' = "SceneRun"
      /\ UNCHANGED << rqdata, hashvalidate, forced, sq_revdeps, build_pids, active, proc,
                      clock, cooker, phase, outcome, setscene >>
      /\ outcome = "none" \/ phase = "done"
  BY DEF SceneInit, IInv, ControlInv, setscene
<1>2. covered = {} /\ notcovered = {} /\ covered \subseteq setscene
  BY <1>1 DEF Decided
<1>3. ConfigInv' /\ ControlInv'
  BY <1>1, ConfigFrame DEF IInv, ControlInv
<1>4. CASE hashvalidate
  <2>1. PICK valid \in SUBSET (setscene \ (rqdata.noexec \cup StampPresent)) :
          HashValidate(valid)
    BY <1>4 DEF SceneInit
  <2> DEFINE noexec == setscene \cap rqdata.noexec
             found  == noexec \cup StampPresent
             gone   == setscene \ (found \cup valid)
  <2>2. /\ covered' = found /\ notcovered' = gone /\ runq_running' = found \cup gone
        /\ UpdateCounters(found \cup gone)
        /\ scstamps' = [ s \in Stamp |->
                           IF \E t \in noexec : rqdata.stampfile[t] = s
                           THEN clock ELSE scstamps[s] ]
    BY <2>1 DEF HashValidate
  <2>3. found \subseteq setscene /\ found \cap gone = {}
    BY DEF StampPresent
  <2>4. ChildrenInv'
    BY <1>1 DEF IInv, WorkInv, ChildrenInv, SceneLimit, SceneOrder
  <2>5. QueueInv'
    <3>1. Decided' = Decided \cup (found \cup gone)
      BY <1>1, <2>2 DEF Decided
    <3>2. runq_running' = Decided' \cup build_pids' /\ covered' \cap notcovered' = {}
      BY <1>1, <2>2, <2>3, <3>1
    <3>3. found \cup gone \in SUBSET setscene
      BY <2>3
    <3> QED
      BY <1>1, <2>2, <3>1, <3>2, <3>3, CountersKeepViews DEF QueueInv, IInv, WorkInv
  <2>6. StampInv'
    <3> SUFFICES ASSUME NEW t \in found, OwnStamp(t)
                 PROVE  scstamps'[rqdata.stampfile[t]] # Absent
      BY <1>1, <2>2 DEF StampInv, Stamped, OwnStamp, SceneStampOf, IInv, WorkInv
    <3>1. rqdata.stampfile[t] \in Stamp /\ clock > 0 /\ clock \in Nat
      BY <2>3, RecordFields DEF IInv, WorkInv, StampInv, TypeInv, TypeOK, DataTypeOK
    <3>2. CASE t \in noexec
      BY <2>2, <3>1, <3>2 DEF Absent
    <3>3. CASE t \in StampPresent /\ CheckSceneStamp(t)
      BY <2>2, <3>1, <3>3 DEF CheckSceneStamp, SceneStampOf, Absent
    <3>4. CASE t \in StampPresent /\ ~CheckSceneStamp(t)
      <4>1. PICK u \in setscene \cap rqdata.noexec : rqdata.stampfile[u] = rqdata.stampfile[t]
        BY <3>4 DEF StampPresent
      <4> QED
        BY <4>1, <3>4 DEF OwnStamp, StampPresent
    <3> QED
      BY <3>2, <3>3, <3>4
  <2>7. ForcedInv'
    BY <1>1, <1>4 DEF IInv, WorkInv, ForcedInv
  <2> QED
    BY <1>3, <2>4, <2>5, <2>6, <2>7 DEF IInv, WorkInv
<1>5. CASE ~hashvalidate
  <2>1. WorkInv'
    BY <1>1, <1>5, WorkFrame DEF SceneInit, IInv, fileVars
  <2> QED
    BY <1>3, <2>1 DEF IInv
<1> QED
  BY <1>4, <1>5

LEMMA CallBeginStep == IInv /\ TypeInv' /\ CallBegin => IInv'
<1> SUFFICES ASSUME IInv, TypeInv', CallBegin PROVE IInv'
  OBVIOUS
<1>1. /\ phase = "idle" /\ rq_state \in {"SceneRun", "CleanUp"}
      /\ phase' = NextBlock(rq_state')
      /\ UNCHANGED << configVars, fileVars, runq_running, cooker, outcome >>
      /\ outcome = "none"
  BY DEF CallBegin, IInv, ControlInv, TypeInv, TypeOK
<1>2. ConfigInv'
  BY <1>1, ConfigFrame DEF IInv
<1>3. CASE cooker = "stop" /\ FinishNow
  <2>1. WorkInv'
    BY <1>1, <1>3, WorkFrame
       DEF FinishNow, IInv, queueVars, Terminated, TypeInv, TypeOK, Alive, Working, Zombie
  <2>2. ControlInv'
    BY <1>1, <1>3 DEF ControlInv, NextBlock, FinishNow
  <2> QED
    BY <1>2, <2>1, <2>2 DEF IInv
<1>4. CASE cooker = "shutdown" /\ Finish
  <2>1. WorkInv' /\ rq_state' \in {"CleanUp", "Complete"}
    BY <1>1, <1>4, FinishStep
  <2>2. ControlInv'
    BY <1>1, <2>1 DEF ControlInv, NextBlock
  <2> QED
    BY <1>2, <2>1, <2>2 DEF IInv
<1>5. CASE /\ cooker = "running"
           /\ UNCHANGED << rq_state, proc, childVars, runq_buildable, covered,
                           notcovered, sq_revdeps2 >>
  <2>1. WorkInv'
    BY <1>1, <1>5, WorkFrame DEF IInv, queueVars
  <2>2. ControlInv'
    BY <1>1, <1>5 DEF ControlInv, NextBlock
  <2> QED
    BY <1>2, <2>1, <2>2 DEF IInv
<1> QED
  BY <1>3, <1>4, <1>5 DEF CallBegin

LEMMA NothingToStartStep == IInv /\ TypeInv' /\ NothingToStart => IInv'
<1> SUFFICES ASSUME IInv, TypeInv', NothingToStart PROVE IInv'
  OBVIOUS
<1>1. WorkInv' /\ ConfigInv'
  BY WorkFrame, ConfigFrame DEF IInv, NothingToStart
<1>2. rqdata.number_tasks \in Nat /\ active \in Nat
  BY RecordFields DEF IInv, TypeInv, TypeOK
<1>3. ControlInv'
  BY <1>2 DEF NothingToStart, IInv, ControlInv, configVars, queueVars, childVars,
     Candidates, Decided
<1> QED
  BY <1>1, <1>3 DEF IInv

LEMMA WaitChildStep == IInv /\ TypeInv' /\ WaitChild => IInv'
<1> SUFFICES ASSUME IInv, TypeInv', WaitChild PROVE IInv'
  OBVIOUS
<1>1. /\ phase = "wait" /\ rq_state = "SceneRun" /\ rq_state' = rq_state
      /\ outcome = "none" /\ UNCHANGED << cooker, outcome >> /\ phase' = "idle"
      /\ UNCHANGED << configVars, fileVars, runq_running >>
  BY DEF WaitChild, IInv, ControlInv, TypeInv, TypeOK
<1>2. ASSUME NEW t \in Task, Reap(t) PROVE WorkInv'
  BY <1>1, <1>2, ReapStep
<1>3. WorkInv'
  BY <1>1, <1>2, WorkFrame DEF WaitChild, NoneToReap, IInv, queueVars
<1>4. ControlInv' /\ ConfigInv'
  BY <1>1, ConfigFrame DEF ControlInv, IInv
<1> QED
  BY <1>3, <1>4 DEF IInv

(* At the hand-over no child is left and nothing is buildable, so every     *)
(* setscene task is decided: of the undecided ones, one would be first.     *)
LEMMA HandOverStep == IInv /\ TypeInv' /\ HandOver => IInv'
<1> SUFFICES ASSUME IInv, TypeInv', HandOver PROVE IInv'
  OBVIOUS
<1>1. WorkInv' /\ ConfigInv'
  BY WorkFrame, ConfigFrame DEF IInv, HandOver
<1>2. build_pids = {}
  BY PidsFinite, FS_EmptySet DEF HandOver, IInv, WorkInv, ChildrenInv, SceneLimit
<1>3. ASSUME rqdata.number_tasks > 0 PROVE Decided = setscene
  <2>1. Decided \subseteq setscene
    BY DEF IInv, TypeInv, TypeOK, Decided
  <2>2. runq_buildable \subseteq Decided
    BY <1>2, <1>3 DEF IInv, WorkInv, QueueInv, ControlInv, HandOver, Candidates
  <2>3. SUFFICES ASSUME setscene \ Decided # {} PROVE FALSE
    BY <2>1
  <2>4. PICK t \in setscene \ Decided : sq_revdeps[t] \cap (setscene \ Decided) = {}
    BY <2>3, SomeTaskIsFirst DEF IInv
  <2>5. sq_revdeps[t] \subseteq setscene
    BY <2>4 DEF IInv, TypeInv, TypeOK
  <2>6. sq_revdeps2[t] = {}
    BY <2>4, <2>5 DEF IInv, WorkInv, QueueInv
  <2> QED
    BY <2>2, <2>4, <2>6 DEF IInv, WorkInv, QueueInv
<1>4. ControlInv'
  BY <1>2, <1>3 DEF HandOver, IInv, ControlInv, configVars, queueVars, childVars, Decided,
     setscene
<1> QED
  BY <1>1, <1>4 DEF IInv

LEMMA CleanUpBlockStep == IInv /\ TypeInv' /\ CleanUpBlock => IInv'
<1> SUFFICES ASSUME IInv, TypeInv', CleanUpBlock PROVE IInv'
  OBVIOUS
<1>1. /\ phase = "cleanup" /\ rq_state # "SceneInit" /\ outcome = "none"
      /\ UNCHANGED << configVars, fileVars, runq_running, cooker, outcome >>
      /\ phase' = IF rq_state' = "CleanUp" THEN "idle" ELSE "end"
  BY DEF CleanUpBlock, IInv, ControlInv, TypeInv, TypeOK
<1>2. WorkInv' /\ rq_state' \in {"CleanUp", "Complete"}
  BY <1>1, FinishStep DEF CleanUpBlock
<1>3. ControlInv' /\ ConfigInv'
  BY <1>1, <1>2, ConfigFrame DEF ControlInv, IInv
<1> QED
  BY <1>2, <1>3 DEF IInv

LEMMA EndingStep ==
  ASSUME IInv, TypeInv', EndBlock \/ \E t \in Task : ForkFails(t)
  PROVE  IInv'
<1>1. /\ UNCHANGED << configVars, queueVars, childVars, fileVars, rq_state, proc, cooker >>
      /\ phase' = "done" /\ outcome' \in {"complete", "fatal"} /\ rq_state # "SceneInit"
  BY DEF EndBlock, ForkFails, MustFork, NextTask, IInv, ControlInv
<1>2. WorkInv' /\ ConfigInv'
  BY <1>1, WorkFrame, ConfigFrame DEF IInv
<1>3. ControlInv'
  BY <1>1 DEF ControlInv, IInv
<1> QED
  BY <1>2, <1>3 DEF IInv

LEMMA DecideOutrightStep ==
  ASSUME IInv, TypeInv', NEW t \in Task, DecideOutright(t)
  PROVE  IInv'
<1> USE DEF configVars, childVars, fileVars
<1>1. /\ t \in setscene /\ t \notin Decided /\ t \notin build_pids
      /\ phase = "execute" /\ phase' = "idle" /\ rq_state = "SceneRun" /\ outcome = "none"
      /\ UNCHANGED << rqdata, hashvalidate, forced, sq_revdeps, build_pids, active,
                      stamps, scstamps, clock, rq_state, proc, cooker, outcome, setscene >>
  BY DEF DecideOutright, NextTask, Candidates, IInv, TypeInv, TypeOK, WorkInv, QueueInv,
     ControlInv, setscene
<1>2. /\ Decided' = Decided \cup {t} /\ runq_running' = runq_running \cup {t}
      /\ UpdateCounters({t})
      /\ \/ covered' = covered /\ notcovered' = notcovered \cup {t}
         \/ /\ covered' = covered \cup {t} /\ notcovered' = notcovered
            /\ t \notin forced /\ CheckSceneStamp(t)
  BY DEF DecideOutright, TaskFailOutright, TaskSkip, Decided, NotWanted
<1>3. ChildrenInv'
  BY <1>1, <1>2 DEF IInv, WorkInv, ChildrenInv, SceneLimit, SceneOrder
<1>4. QueueInv'
  BY <1>1, <1>2, CountersKeepViews DEF IInv, WorkInv, QueueInv, Decided
<1>5. StampInv'
  BY <1>1, <1>2 DEF IInv, WorkInv, StampInv, Stamped, OwnStamp, SceneStampOf, CheckSceneStamp,
     Absent
<1>6. ForcedInv'
  BY <1>1, <1>2 DEF IInv, WorkInv, ForcedInv
<1>7. ConfigInv' /\ ControlInv'
  BY <1>1, ConfigFrame DEF IInv, ControlInv
<1> QED
  BY <1>3, <1>4, <1>5, <1>6, <1>7 DEF IInv, WorkInv

LEMMA ForkOffTaskStep ==
  ASSUME IInv, TypeInv', NEW t \in Task, ForkOffTask(t)
  PROVE  IInv'
<1> USE DEF configVars, fileVars
<1>1. /\ t \in runq_buildable /\ t \notin runq_running /\ t \in setscene
      /\ t \notin Decided /\ t \notin build_pids /\ t \notin forced
      /\ active < rqdata.number_tasks /\ active \in Nat /\ rqdata.number_tasks \in Nat
      /\ phase = "execute" /\ rq_state = "SceneRun" /\ outcome = "none"
  BY RecordFields DEF ForkOffTask, MustFork, NotWanted, NextTask, Candidates, IInv, TypeInv,
     TypeOK, WorkInv, QueueInv, ControlInv
<1>2. /\ proc' = [proc EXCEPT ![t] = "forked"]
      /\ build_pids' = build_pids \cup {t} /\ runq_running' = runq_running \cup {t}
      /\ active' = active + 1 /\ phase' \in {"idle", "wait"}
      /\ UNCHANGED << rqdata, hashvalidate, forced, sq_revdeps, stamps, scstamps, clock,
                      rq_state, runq_buildable, covered, notcovered, sq_revdeps2, cooker,
                      outcome, setscene, Decided >>
  BY DEF ForkOffTask, setscene, Decided
<1>3. ChildrenInv'
  <2>1. Cardinality(build_pids') = Cardinality(build_pids) + 1
    BY <1>1, <1>2, PidsFinite, FS_AddElement DEF IInv
  <2>2. active = Cardinality(build_pids) /\ SceneOrder
    BY DEF IInv, WorkInv, ChildrenInv, SceneLimit
  <2>3. active' = Cardinality(build_pids')
    BY <1>2, <2>1, <2>2, Zenon
  <2>4. active' <= rqdata'.number_tasks
    BY <1>1, <1>2
  <2>5. { u \in Task : proc'[u] \in Alive \cup Zombie } = build_pids'
    BY <1>2 DEF IInv, WorkInv, ChildrenInv, SceneLimit, TypeInv, TypeOK, Alive
  <2>6. SceneOrder'
    <3>1. sq_revdeps[t] \subseteq Decided
      BY <1>1 DEF IInv, WorkInv, QueueInv
    <3> QED
      BY <1>2, <2>2, <3>1 DEF SceneOrder
  <2>7. build_pids' \cap Decided' = {}
    BY <1>1, <1>2 DEF IInv, WorkInv, ChildrenInv
  <2> QED
    BY <2>3, <2>4, <2>5, <2>6, <2>7 DEF ChildrenInv, SceneLimit
<1>4. QueueInv'
  BY <1>2 DEF IInv, WorkInv, QueueInv
<1>5. StampInv'
  <2>1. Stamped' = Stamped
    BY <1>1, <1>2 DEF Stamped, IInv, TypeInv, TypeOK
  <2> QED
    BY <1>2, <2>1 DEF IInv, WorkInv, StampInv, OwnStamp, SceneStampOf, Absent
<1>6. ForcedInv'
  BY <1>1, <1>2 DEF IInv, WorkInv, ForcedInv
<1>7. ConfigInv' /\ ControlInv'
  BY <1>1, <1>2, ConfigFrame DEF IInv, ControlInv
<1> QED
  BY <1>3, <1>4, <1>5, <1>6, <1>7 DEF IInv, WorkInv

(* A worker that is neither new nor done: only its stamps change.  It is    *)
(* not decided, so the stamp file of a covered task is another one, unless  *)
(* the two share it.                                                        *)
LEMMA WorkerStep ==
  ASSUME IInv, TypeInv', NEW t \in Task, Worker(t)
  PROVE  IInv'
<1> USE DEF serverVars, configVars, queueVars, childVars, fileVars
<1>1. /\ UNCHANGED << configVars, queueVars, childVars, rq_state, cooker, phase, outcome,
                      stamps, clock, setscene, Decided >>
      /\ \A u \in Task \ {t} : proc'[u] = proc[u]
      /\ proc[t] \in Alive /\ proc'[t] \in Alive \cup Zombie
      /\ proc'[t] \in {"stamped", "ok"} => proc[t] \in {"restamp", "stamped"}
  BY DEF Worker, WorkerStart, WorkerUnstamp, WorkerStamp, WorkerSucceeds, WorkerFails,
     WorkerMoves, setscene, Decided, IInv, TypeInv, TypeOK, Alive, Zombie, Working
<1>2. t \in build_pids /\ t \in setscene /\ t \notin covered
  BY <1>1 DEF IInv, WorkInv, ChildrenInv, SceneLimit, TypeInv, TypeOK, Decided
<1>3. ChildrenInv' /\ QueueInv' /\ ForcedInv'
  BY <1>1 DEF IInv, WorkInv, ChildrenInv, SceneLimit, SceneOrder, QueueInv, ForcedInv
<1>4. ConfigInv' /\ ControlInv'
  BY <1>1, ConfigFrame DEF IInv, ControlInv, Candidates
<1>5. \/ scstamps' = scstamps /\ (proc'[t] \in {"stamped", "ok"} => proc[t] = "stamped")
      \/ /\ scstamps' = [scstamps EXCEPT ![rqdata.stampfile[t]] = Absent]
         /\ proc'[t] = "restamp"
      \/ /\ scstamps' = [scstamps EXCEPT ![rqdata.stampfile[t]] = clock]
         /\ proc'[t] = "stamped"
  BY DEF Worker, WorkerStart, WorkerUnstamp, WorkerStamp, WorkerSucceeds, WorkerFails,
     WorkerMoves, IInv, TypeInv, TypeOK, Alive, Working
<1>6. StampInv'
  <2>1. clock' > 0 /\ clock' \in Nat
    BY <1>1 DEF IInv, WorkInv, StampInv, TypeInv, TypeOK, DataTypeOK
  <2>2. ASSUME NEW u \in Stamped', OwnStamp(u) PROVE scstamps'[rqdata.stampfile[u]] # Absent
    <3>1. u \in setscene /\ rqdata.stampfile[u] \in Stamp
      BY <1>1, <2>2, RecordFields DEF Stamped, IInv, TypeInv, TypeOK
    <3>2. CASE u # t
      <4>1. u \in Stamped
        BY <1>1, <2>2, <3>1, <3>2, RecordFields DEF Stamped, IInv
      <4>2. rqdata.stampfile[u] # rqdata.stampfile[t]
        BY <1>2, <2>2, <3>2 DEF OwnStamp
      <4>3. scstamps'[rqdata.stampfile[u]] = scstamps[rqdata.stampfile[u]]
        BY <1>5, <3>1, <4>2 DEF IInv, TypeInv, TypeOK, DataTypeOK
      <4> QED
        BY <2>2, <4>1, <4>3 DEF IInv, WorkInv, StampInv, SceneStampOf
    <3>3. CASE u = t
      <4>1. proc'[t] \in {"stamped", "ok"}
        BY <1>1, <1>2, <2>2, <3>3 DEF Stamped
      <4>2. CASE scstamps' = scstamps /\ proc[t] = "stamped"
        <5>1. t \in Stamped
          BY <1>2, <4>2 DEF Stamped
        <5> QED
          BY <2>2, <3>3, <4>2, <5>1 DEF IInv, WorkInv, StampInv, SceneStampOf
      <4>3. CASE scstamps' = [scstamps EXCEPT ![rqdata.stampfile[t]] = clock]
        BY <1>1, <2>1, <3>1, <3>3, <4>3 DEF IInv, TypeInv, TypeOK, DataTypeOK, Absent
      <4> QED
        BY <1>5, <4>1, <4>2, <4>3
    <3> QED
      BY <3>2, <3>3
  <2> QED
    BY <1>1, <2>1, <2>2 DEF StampInv, OwnStamp, SceneStampOf, Absent
<1> QED
  BY <1>3, <1>4, <1>6 DEF IInv, WorkInv

LEMMA CommandStep == IInv /\ TypeInv' /\ (StateShutdown \/ StateStop) => IInv'
<1> SUFFICES ASSUME IInv, TypeInv', StateShutdown \/ StateStop PROVE IInv'
  OBVIOUS
<1>1. WorkInv' /\ ConfigInv'
  BY WorkFrame, ConfigFrame DEF IInv, StateShutdown, StateStop, CookerCommand
<1>2. ControlInv'
  BY DEF StateShutdown, StateStop, CookerCommand, IInv, ControlInv
<1> QED
  BY <1>1, <1>2 DEF IInv

LEMMA TickStep == IInv /\ TypeInv' /\ Tick => IInv'
<1> SUFFICES ASSUME IInv, TypeInv', Tick PROVE IInv'
  OBVIOUS
<1> USE DEF serverVars, configVars, queueVars, childVars
<1>1. ConfigInv' /\ ChildrenInv' /\ QueueInv' /\ ForcedInv'
  BY ConfigFrame DEF Tick, IInv, WorkInv, ChildrenInv, SceneLimit, SceneOrder, QueueInv,
     ForcedInv, setscene, Decided
<1>2. StampInv'
  BY DEF Tick, IInv, WorkInv, StampInv, Stamped, OwnStamp, SceneStampOf, setscene, Absent,
     TypeInv, TypeOK, DataTypeOK
<1>3. ControlInv'
  BY DEF Tick, IInv, ControlInv, Candidates, Decided, setscene
<1> QED
  BY <1>1, <1>2, <1>3 DEF IInv, WorkInv

LEMMA InitIInv == Init => IInv
<1> SUFFICES ASSUME Init PROVE IInv
  OBVIOUS
<1>1. TypeInv
  BY TypeInit
<1>2. ConfigInv /\ Decided = {} /\ build_pids = {} /\ sq_revdeps \in [setscene -> SUBSET setscene]
  BY DEF Init, ConfigInv, CollapsedGraphs, Decided
<1>3. ChildrenInv
  <2>1. active = Cardinality(build_pids) /\ active <= rqdata.number_tasks
    BY <1>1, <1>2, FS_EmptySet, RecordFields DEF Init
  <2> QED
    BY <1>2, <2>1 DEF Init, ChildrenInv, SceneLimit, SceneOrder, Alive, Zombie, Working
<1>4. QueueInv
  <2>1. sq_revdeps2 = [ t \in setscene |-> sq_revdeps[t] \ Decided ]
    BY <1>2 DEF Init
  <2> QED
    BY <1>2, <2>1 DEF Init, QueueInv
<1>5. StampInv /\ ForcedInv
  BY SceneClockAssumption DEF Init, StampInv, Stamped, ForcedInv
<1>6. ControlInv
  BY <1>2 DEF Init, ControlInv
<1> QED
  BY <1>1, <1>2, <1>3, <1>4, <1>5, <1>6 DEF IInv, WorkInv

LEMMA Inductive == IInv /\ [Next]_vars => IInv'
<1> SUFFICES ASSUME IInv, [Next]_vars PROVE IInv'
  OBVIOUS
<1>1. TypeInv'
  BY TypeStep DEF IInv
<1>2. CASE Server
  BY <1>1, <1>2, NoSetsceneStep, SceneInitStep, CallBeginStep, NothingToStartStep,
     WaitChildStep, HandOverStep, CleanUpBlockStep, EndingStep, DecideOutrightStep,
     ForkOffTaskStep DEF Server
<1>3. CASE (\E t \in Task : Worker(t)) \/ StateShutdown \/ StateStop \/ Tick
  BY <1>1, <1>3, WorkerStep, CommandStep, TickStep
<1>4. CASE Ended \/ UNCHANGED vars
  <2>1. UNCHANGED vars
    BY <1>4 DEF Ended
  <2>2. WorkInv' /\ ConfigInv'
    BY <2>1, WorkFrame, ConfigFrame DEF IInv, vars
  <2>3. ControlInv'
    BY <2>1 DEF vars, configVars, queueVars, childVars, IInv, ControlInv, Candidates,
       Decided, setscene
  <2> QED
    BY <1>1, <2>2, <2>3 DEF IInv
<1> QED
  BY <1>2, <1>3, <1>4 DEF Next

LEMMA AlwaysIInv == Spec => []IInv
BY InitIInv, Inductive, PTL DEF Spec

-----------------------------------------------------------------------------
(* The theorems                                                             *)

(* Dependents in the collapsed graph are decided before a task is started,  *)
(* the children never exceed BB_NUMBER_THREADS and are counted exactly, and *)
(* where execute() alone decides no forced target is covered.               *)
THEOREM SceneSchedulingHolds == Spec => []SceneScheduling
<1>1. IInv => SceneScheduling
  BY DEF IInv, WorkInv, ChildrenInv, ForcedInv, SceneScheduling, ForcedWithoutHashes,
     ForcedNotCovered
<1> QED
  BY <1>1, AlwaysIInv, PTL

(* The hand-over leaves no worker and no undecided setscene task, and what  *)
(* it calls covered has its stamp.                                          *)
THEOREM HandOverIsSound == Spec => []HandOverSound
<1>1. IInv => HandOverSound
  <2> SUFFICES ASSUME IInv, outcome = "handover" PROVE HandOverSound
    BY DEF HandOverSound
  <2>1. \A t \in Task : proc[t] \in {"none", "reaped"}
    BY DEF IInv, ControlInv, WorkInv, ChildrenInv, SceneLimit, TypeInv, TypeOK, ProcStates
  <2>2. rqdata.number_tasks > 0 => Decided = setscene
    BY DEF IInv, ControlInv
  <2>3. covered \cap notcovered = {}
    BY DEF IInv, WorkInv, QueueInv
  <2>4. \A t \in covered :
          (\A u \in setscene \ {t} : rqdata.stampfile[u] # rqdata.stampfile[t])
          => SceneStampOf(t) # Absent
    BY DEF IInv, WorkInv, StampInv, Stamped, OwnStamp
  <2> QED
    BY <2>1, <2>2, <2>3, <2>4 DEF HandOverSound
<1> QED
  BY <1>1, AlwaysIInv, PTL

(* No setscene task is decided twice, or while its worker lives, or before  *)
(* it is forked: no step makes scenequeue_updatecounters raise KeyError.    *)
THEOREM EachDecidedOnce == Spec => DecidedOnce
<1> DEFINE A == /\ covered \subseteq covered' /\ notcovered \subseteq notcovered'
                /\ covered' \cap notcovered' = {}
                /\ \A t \in Task : proc[t] \in Alive \cup Zombie \/ proc'[t] = "forked"
                                     => t \notin Decided
<1>1. IInv /\ IInv' /\ [Next]_vars => [A]_vars
  <2> SUFFICES ASSUME IInv, IInv', Next PROVE A
    OBVIOUS
  <2>1. covered' \cap notcovered' = {}
    BY DEF IInv, WorkInv, QueueInv
  <2>2. covered \subseteq covered' /\ notcovered \subseteq notcovered'
    <3> USE DEF queueVars
    <3>1. CASE SceneInit
      <4>1. covered = {} /\ notcovered = {}
        BY <3>1 DEF SceneInit, IInv, ControlInv, Decided
      <4> QED
        BY <4>1
    <3>2. CASE CallBegin \/ WaitChild \/ CleanUpBlock
      BY <3>2 DEF CallBegin, WaitChild, CleanUpBlock, FinishNow, Finish, Reap, NoneToReap
    <3>3. CASE \E t \in Task : DecideOutright(t) \/ ForkOffTask(t) \/ ForkFails(t)
      BY <3>3 DEF DecideOutright, TaskSkip, TaskFailOutright, ForkOffTask, ForkFails
    <3>4. CASE NoSetscene \/ NothingToStart \/ HandOver \/ EndBlock
      BY <3>4 DEF NoSetscene, NothingToStart, HandOver, EndBlock
    <3>5. CASE \E t \in Task : Worker(t)
      BY <3>5 DEF Worker, WorkerStart, WorkerUnstamp, WorkerStamp, WorkerSucceeds,
         WorkerFails, serverVars
    <3>6. CASE StateShutdown \/ StateStop \/ Tick \/ Ended
      BY <3>6 DEF StateShutdown, StateStop, CookerCommand, Tick, Ended, serverVars, vars
    <3> QED
      BY <3>1, <3>2, <3>3, <3>4, <3>5, <3>6 DEF Next, Server
  <2>3. ASSUME NEW t \in Task, proc[t] \in Alive \cup Zombie \/ proc'[t] = "forked"
        PROVE  t \notin Decided
    <3>1. CASE proc[t] \in Alive \cup Zombie
      BY <3>1 DEF IInv, WorkInv, ChildrenInv, SceneLimit
    <3>2. CASE proc'[t] = "forked"
      <4>1. t \notin Decided' /\ Decided \subseteq Decided'
        BY <2>2, <3>2 DEF IInv, WorkInv, ChildrenInv, SceneLimit, Alive, Decided
      <4> QED
        BY <4>1
    <3> QED
      BY <2>3, <3>1, <3>2
  <2> QED
    BY <2>1, <2>2, <2>3
<1> QED
  BY <1>1, AlwaysIInv, PTL DEF Spec, DecidedOnce

(* After a shutdown was asked for, no setscene task is forked and the real  *)
(* tasks are not begun: the server is past every step that could.           *)
THEOREM ShutdownEnds == Spec => ShutdownEndsHere
<1> DEFINE A == cooker = "shutdown" =>
                  /\ outcome' = "handover" => outcome = "handover"
                  /\ \A t \in Task : proc'[t] = "forked" => proc[t] = "forked"
<1>1. IInv /\ [Next]_vars => [A]_vars
  <2> SUFFICES ASSUME IInv, Next, cooker = "shutdown"
               PROVE  /\ outcome' = "handover" => outcome = "handover"
                      /\ \A t \in Task : proc'[t] = "forked" => proc[t] = "forked"
    OBVIOUS
  <2> USE DEF IInv, TypeInv, TypeOK
  <2>1. phase \notin {"execute", "wait"}
    BY DEF ControlInv
  <2>2. CASE CallBegin \/ CleanUpBlock
    BY <2>2 DEF CallBegin, CleanUpBlock, FinishNow, Terminated, Finish, Reap, NoneToReap
  <2>3. CASE EndBlock
    BY <2>3 DEF EndBlock
  <2>4. CASE Server /\ ~CallBegin /\ ~CleanUpBlock /\ ~EndBlock
    BY <2>1, <2>4 DEF Server, NoSetscene, SceneInit, NothingToStart, WaitChild, HandOver,
       DecideOutright, ForkOffTask, ForkFails, MustFork, NextTask
  <2>5. CASE \E t \in Task : Worker(t)
    BY <2>5 DEF Worker, WorkerStart, WorkerUnstamp, WorkerStamp, WorkerSucceeds,
       WorkerFails, WorkerMoves, serverVars
  <2>6. CASE StateShutdown \/ StateStop \/ Tick \/ Ended
    BY <2>6 DEF StateShutdown, StateStop, CookerCommand, Tick, Ended, serverVars, vars
  <2> QED
    BY <2>2, <2>3, <2>4, <2>5, <2>6 DEF Next
<1> QED
  BY <1>1, AlwaysIInv, PTL DEF Spec, ShutdownEndsHere

-----------------------------------------------------------------------------
(* The hand-over.  A RunQueueExecuteTasks object created in the second B    *)
(* finds the stamp files and rq.scenequeue_covered as the setscene executor *)
(* left them, and starts with records of its own.                           *)

Tasks(B) == INSTANCE RunQueueTasks WITH
              BuildStart <- B,
              phase <- "execute", outcome <- "none",
              runq_buildable <- {}, runq_running <- {}, runq_complete <- {},
              failed <- {}, build_pids <- {}, active <- 0,
              proc <- [t \in Task |-> "none"]

(* What the files may hold, and how the queue can have been handed over.    *)
FilesInv ==
  /\ clock >= BuildStart
  /\ \A s \in Stamp : stamps[s] <= LastStamp
  /\ \A s \in Stamp : scstamps[s] <= clock
  /\ \A s \in Stamp : scstamps[s] # Absent => \E t \in setscene : rqdata.stampfile[t] = s

HandedOver ==
  /\ outcome = "handover" => rq_state = "RunInit" /\ cooker # "shutdown"
  /\ setscene = {} => /\ cooker = "running" /\ phase \in {"execute", "done"}
                      /\ phase = "execute" => rq_state = "SceneInit"

LEMMA FilesInit == Init => FilesInv /\ HandedOver
BY SceneClockAssumption DEF Init, FilesInv, HandedOver, Absent, setscene

LEMMA FilesStep == IInv /\ FilesInv /\ [Next]_vars => FilesInv'
<1> SUFFICES ASSUME IInv, FilesInv, [Next]_vars PROVE FilesInv'
  OBVIOUS
<1> USE DEF configVars, queueVars, childVars, fileVars, serverVars, setscene
<1>1. /\ clock \in Nat /\ BuildStart \in Nat /\ LastStamp \in Nat
      /\ stamps \in [Stamp -> Nat] /\ scstamps \in [Stamp -> Nat]
  BY SceneClockAssumption DEF IInv, TypeInv, TypeOK, DataTypeOK
<1>2. CASE UNCHANGED << rqdata, stamps, scstamps, clock >>
  BY <1>2 DEF FilesInv
<1>3. CASE Tick
  BY <1>1, <1>3 DEF Tick, FilesInv
<1>4. ASSUME UNCHANGED << rqdata, stamps, clock >>,
             \A s \in Stamp : \/ scstamps'[s] = scstamps[s]
                              \/ /\ scstamps'[s] \in {Absent, clock}
                                 /\ \E t \in setscene : rqdata.stampfile[t] = s
      PROVE  FilesInv'
  BY <1>1, <1>4 DEF FilesInv, Absent
<1>5. CASE SceneInit
  <2>1. CASE UNCHANGED scstamps
    BY <1>2, <1>5, <2>1 DEF SceneInit
  <2>2. CASE scstamps' = [ s \in Stamp |->
                             IF \E t \in setscene \cap rqdata.noexec : rqdata.stampfile[t] = s
                             THEN clock ELSE scstamps[s] ]
    BY <1>4, <1>5, <2>2 DEF SceneInit
  <2> QED
    BY <1>5, <2>1, <2>2 DEF SceneInit, HashValidate
<1>6. ASSUME NEW t \in Task, WorkerUnstamp(t) \/ WorkerStamp(t) PROVE FilesInv'
  <2>1. t \in setscene
    BY <1>6 DEF WorkerUnstamp, WorkerStamp, WorkerMoves, IInv, WorkInv, ChildrenInv,
       SceneLimit, TypeInv, TypeOK, Alive, Working
  <2>2. \A s \in Stamp : \/ scstamps'[s] = scstamps[s]
                         \/ /\ scstamps'[s] \in {Absent, clock}
                            /\ rqdata.stampfile[t] = s
    BY <1>1, <1>6 DEF WorkerUnstamp, WorkerStamp
  <2>3. UNCHANGED << rqdata, stamps, clock >>
    BY <1>6 DEF WorkerUnstamp, WorkerStamp
  <2> QED
    BY <1>4, <2>1, <2>2, <2>3
<1>7. CASE Server /\ ~SceneInit
  BY <1>2, <1>7 DEF Server, NoSetscene, CallBegin, NothingToStart, WaitChild, HandOver,
     CleanUpBlock, EndBlock, DecideOutright, ForkOffTask, ForkFails
<1>8. CASE StateShutdown \/ StateStop \/ Ended \/ UNCHANGED vars
  BY <1>2, <1>8 DEF StateShutdown, StateStop, CookerCommand, Ended, vars
<1>9. ASSUME NEW t \in Task, WorkerStart(t) \/ WorkerSucceeds(t) \/ WorkerFails(t)
      PROVE  FilesInv'
  BY <1>2, <1>9 DEF WorkerStart, WorkerSucceeds, WorkerFails
<1> QED
  BY <1>3, <1>5, <1>6, <1>7, <1>8, <1>9 DEF Next, Worker

LEMMA HandedOverStep == IInv /\ HandedOver /\ [Next]_vars => HandedOver'
<1> SUFFICES ASSUME IInv, HandedOver, [Next]_vars PROVE HandedOver'
  OBVIOUS
<1>1. UNCHANGED setscene
  BY DEF setscene, Next, vars, configVars, queueVars, childVars, fileVars, serverVars,
     Server, NoSetscene, SceneInit, CallBegin, NothingToStart, WaitChild, HandOver,
     CleanUpBlock, EndBlock, DecideOutright, ForkOffTask, ForkFails, Worker, WorkerStart,
     WorkerUnstamp, WorkerStamp, WorkerSucceeds, WorkerFails, StateShutdown, StateStop,
     CookerCommand, Tick, Ended
<1> USE <1>1 DEF HandedOver, IInv, ControlInv
<1>2. CASE NoSetscene \/ HandOver
  BY <1>2 DEF NoSetscene, HandOver
<1>3. CASE Server /\ ~NoSetscene /\ ~HandOver
  BY <1>3 DEF Server, SceneInit, CallBegin, NothingToStart, WaitChild, CleanUpBlock,
     EndBlock, DecideOutright, ForkOffTask, MustFork, NextTask, ForkFails
<1>4. CASE StateShutdown \/ StateStop
  BY <1>4 DEF StateShutdown, StateStop, CookerCommand
<1>5. CASE \E t \in Task : Worker(t)
  BY <1>5 DEF Worker, WorkerStart, WorkerUnstamp, WorkerStamp, WorkerSucceeds,
     WorkerFails, serverVars
<1>6. CASE Tick \/ Ended \/ UNCHANGED vars
  BY <1>6 DEF Tick, Ended, vars, serverVars
<1> QED
  BY <1>2, <1>3, <1>4, <1>5, <1>6 DEF Next

(* Whatever the setscene executor hands over is a state from which          *)
(* RunQueueTasks starts: what is proved of every behaviour of the executor  *)
(* of the real tasks holds after every behaviour of this one.               *)
THEOREM HandOverStartsTasks ==
  ASSUME NEW B
  PROVE  Spec => [](outcome = "handover" /\ clock = B => Tasks(B)!Init)
<1>1. IInv /\ FilesInv /\ HandedOver => (outcome = "handover" /\ clock = B => Tasks(B)!Init)
  <2> SUFFICES ASSUME IInv, FilesInv, HandedOver, outcome = "handover", clock = B
               PROVE  Tasks(B)!Init
    OBVIOUS
  <2> USE DEF Tasks!SceneStampOf, Tasks!Absent
  <2>1. /\ rqdata \in RunQueues /\ covered \in SUBSET rqdata.setscene
        /\ clock \in Nat /\ LastStamp \in Nat
        /\ stamps \in [Stamp -> Nat] /\ scstamps \in [Stamp -> Nat]
    BY SceneClockAssumption DEF IInv, TypeInv, TypeOK, DataTypeOK, setscene
  <2>2. stamps \in [Stamp -> 0 .. LastStamp] /\ scstamps \in [Stamp -> 0 .. B]
    BY <2>1 DEF FilesInv
  <2>3. \A t \in covered :
          (\A u \in rqdata.setscene \ {t} : rqdata.stampfile[u] # rqdata.stampfile[t])
          => scstamps[rqdata.stampfile[t]] # 0
    BY DEF IInv, WorkInv, StampInv, Stamped, OwnStamp, SceneStampOf, Absent, setscene
  <2>4. \A s \in Stamp : scstamps[s] # 0 => \E t \in rqdata.setscene : rqdata.stampfile[t] = s
    BY DEF FilesInv, Absent, setscene
  <2>5. rq_state = "RunInit" /\ (cooker = "running" \/ (cooker = "stop" /\ rqdata.setscene # {}))
    BY DEF HandedOver, IInv, TypeInv, TypeOK, setscene
  <2> QED
    BY <2>1, <2>2, <2>3, <2>4, <2>5 DEF Tasks!Init
<1>2. IInv /\ FilesInv /\ HandedOver /\ [Next]_vars => (IInv /\ FilesInv /\ HandedOver)'
  BY Inductive, FilesStep, HandedOverStep
<1>3. Init => IInv /\ FilesInv /\ HandedOver
  BY InitIInv, FilesInit
<1> QED
  BY <1>1, <1>2, <1>3, PTL DEF Spec
=============================================================================
