---------------------------- MODULE RunQueueData ----------------------------
(***************************************************************************)
(* What RunQueueData.prepare() leaves for the executors of the run queue   *)
(* (bitbake/lib/bb/runqueue.py), the stamp files of bb.build and the test  *)
(* that decides whether a task is up to date (RunQueue.check_stamp_task).  *)
(*                                                                         *)
(* A task is an element of Task, a recipe file (fnid) an element of Fn and *)
(* a stamp file an element of Stamp: bb.build.stampfile maps two tasks to  *)
(* the same file when their recipes share a work directory.  A prepared    *)
(* run queue is one record, fixed for the life of an executor.             *)
(***************************************************************************)
EXTENDS Naturals, FiniteSets

CONSTANTS
  Task,       \* the tasks of the run queue (indices of runq_fnid)
  Fn,         \* the recipe files they belong to
  Stamp,      \* the stamp files they may write
  RunQueues   \* the prepared run queues considered

ASSUME TaskAssumption == IsFiniteSet(Task)

-----------------------------------------------------------------------------

RunQueueRecord ==
  [ depends     : [Task -> SUBSET Task],  \* runq_depends
    fnid        : [Task -> Fn],           \* runq_fnid
    stampfile   : [Task -> Stamp],        \* bb.build.stampfile of the task
    prio        : [Task -> Nat],          \* position in the scheduler's prio_map
    nostamp     : SUBSET Task,            \* task_deps['nostamp']
    noexec      : SUBSET Task,            \* task_deps['noexec']
    setscene    : SUBSET Task,            \* runq_setscene
    whitelist   : SUBSET Fn,              \* recipes left out of the stamp tree
    number_tasks: Nat,                     \* BB_NUMBER_THREADS
    abort       : BOOLEAN,                \* taskData.abort (no --continue)
    dry_run     : BOOLEAN ]               \* configuration.dry_run

(* prepare() refuses dependency cycles of any length (the check of length   *)
(* two and calculate_task_weights): every non-empty set of tasks has one    *)
(* whose dependencies all lie outside the set.                              *)
Acyclic(depends) ==
  \A S \in SUBSET Task : S # {} => \E t \in S : depends[t] \cap S = {}

IsRunQueue(r) ==
  /\ r \in RunQueueRecord
  /\ Acyclic(r.depends)
  /\ \A t, u \in Task : r.prio[t] = r.prio[u] => t = u

ASSUME RunQueuesAssumption == \A r \in RunQueues : IsRunQueue(r)

-----------------------------------------------------------------------------

VARIABLES
  rqdata,    \* the prepared run queue
  stamps,    \* stamp file -> mtime of the task's stamp, Absent if missing
  scstamps,  \* stamp file -> mtime of the task's "_setscene" stamp
  clock      \* the second the file system would stamp a file with now

Absent == 0

(* runq_revdeps, computed by prepare() from runq_depends.                   *)
RevDeps(t) == { r \in Task : t \in rqdata.depends[r] }

StampOf(t)    == stamps[rqdata.stampfile[t]]
SceneStampOf(t) == scstamps[rqdata.stampfile[t]]

(* A dependency takes part in the comparison of stamps when it is in the    *)
(* same recipe, or when BB_STAMP_POLICY asks for the full tree and its      *)
(* recipe is not whitelisted ("perfile" is the whitelist of every recipe).  *)
InStampTree(t, d) ==
  \/ rqdata.fnid[t] = rqdata.fnid[d]
  \/ rqdata.fnid[d] \notin rqdata.whitelist

CheckStamp_NoDeps(t) ==  \* a bug: the dependencies' stamps not compared
  StampOf(t) # Absent /\ t \notin rqdata.nostamp

(* check_stamp_task(task): the task has a stamp and no dependency in the    *)
(* stamp tree is missing one or has a newer one.  A setscene stamp newer    *)
(* than the dependency's own excuses it (a missing mtime is None, which     *)
(* Python 2 orders below every integer, as Absent is below every mtime).    *)
CheckStamp(t) ==
  /\ StampOf(t) # Absent
  /\ t \notin rqdata.nostamp
  /\ \A d \in rqdata.depends[t] :
       \/ SceneStampOf(d) > StampOf(d)
       \/ ~InStampTree(t, d)
       \/ StampOf(d) # Absent /\ StampOf(t) >= StampOf(d)

(* check_stamp_task(task, taskname + "_setscene"): the presence of the      *)
(* setscene stamp is enough.  (The nostamp flag is looked up under the name *)
(* with the suffix, which no class of the metadata flags.)                  *)
CheckSceneStamp(t) == SceneStampOf(t) # Absent

DataTypeOK ==
  /\ IsRunQueue(rqdata)
  /\ clock \in Nat
  /\ stamps \in [Stamp -> Nat]
  /\ scstamps \in [Stamp -> Nat]

=============================================================================
