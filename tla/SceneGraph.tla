----------------------------- MODULE SceneGraph -----------------------------
(***************************************************************************)
(* The collapse of the dependency graph of the run queue into one of its   *)
(* setscene tasks alone: RunQueueExecuteScenequeue.__init__ and its        *)
(* process_endpoints (bitbake/lib/bb/runqueue.py).                         *)
(*                                                                         *)
(* The algorithm walks from dependents to dependencies in rounds.  Each    *)
(* point of a round hands the setscene tasks it has collected to the tasks *)
(* it depends on.  A round visits its points in the order of a Python      *)
(* dict, which is that of a hash table: here, any order.                   *)
(***************************************************************************)
EXTENDS Naturals, FiniteSets

CONSTANTS
  NumTasks,  \* len(runq_fnid): the tasks are 0 .. NumTasks - 1
  Graphs     \* the prepared graphs considered

Task == 0 .. NumTasks - 1

Acyclic(depends) ==
  \A S \in SUBSET Task : S # {} => \E t \in S : depends[t] \cap S = {}

Graph == { g \in [depends : [Task -> SUBSET Task], setscene : SUBSET Task] :
             Acyclic(g.depends) }

ASSUME NumTasksAssumption == NumTasks \in Nat
ASSUME GraphsAssumption == Graphs \subseteq Graph

VARIABLES
  graph,          \* runq_depends and runq_setscene
  endpoints,      \* the points of this round that are still to be visited,
                  \* each with the task it carries: {} for None, else {task}
  newendpoints,   \* the points of the next round
  sq_revdeps,     \* the dependents a task has not been reached from
  sq_revdeps_new, \* the setscene tasks collected at a task
  squashed        \* the recursion has ended

vars == << graph, endpoints, newendpoints, sq_revdeps, sq_revdeps_new, squashed >>

depends  == graph.depends
setscene == graph.setscene
RevDeps(t) == { r \in Task : t \in depends[r] }

(* t depends on p, over any number of tasks (the sets that hold all that t  *)
(* needs are those closed under depends).                                   *)
ClosedUnderDeps(S) == \A t \in S : depends[t] \subseteq S
Reaches(t, p) ==
  \A S \in SUBSET Task : depends[t] \subseteq S /\ ClosedUnderDeps(S) => p \in S

-----------------------------------------------------------------------------

(* The last setscene task, in the order of runq_setscene, that needs p.     *)
LastUser(p) ==
  { s \in setscene : /\ p \in depends[s]
                     /\ \A u \in setscene : p \in depends[u] => u <= s }

FirstPoints ==
  { t \in Task \ setscene : RevDeps(t) = {} } \cup UNION { depends[s] : s \in setscene }

Init ==
  /\ graph \in Graphs
  /\ endpoints = [ p \in FirstPoints |-> LastUser(p) ]
  /\ newendpoints = << >>
  /\ sq_revdeps = [ t \in Task |-> RevDeps(t) ]
  /\ sq_revdeps_new = [ t \in Task |-> {} ]
  /\ squashed = FALSE

Collected_Point(p) ==  \* the point added in the place of its task
  (IF endpoints[p] = {} THEN {} ELSE {p}) \cup sq_revdeps_new[p]

(* "if task:" drops the task numbered 0 as it drops None.                   *)
Collected(p) == (endpoints[p] \ {0}) \cup sq_revdeps_new[p]

Handed_Sideways(p) ==  \* handed to the dependents instead
  [ t \in Task |-> IF t = p THEN {}
                   ELSE IF t \in RevDeps(p) THEN sq_revdeps_new[t] \cup Collected(p)
                   ELSE sq_revdeps_new[t] ]

(* What p has collected moves to each of its dependencies.                  *)
Handed(p) ==
  [ t \in Task |-> IF t = p THEN {}
                   ELSE IF t \in depends[p] THEN sq_revdeps_new[t] \cup Collected(p)
                   ELSE sq_revdeps_new[t] ]

(* The dependencies of p the walk goes on from.                             *)
NextPoints(p) ==
  { d \in depends[p] \ setscene : sq_revdeps[d] \ {p} = {} \/ Handed(p)[d] # {} }

(* One turn of the loop of process_endpoints.                               *)
VisitPoint(p) ==
  /\ p \in DOMAIN endpoints
  /\ sq_revdeps' = [ t \in Task |-> IF t \in depends[p] THEN sq_revdeps[t] \ {p}
                                    ELSE sq_revdeps[t] ]
  /\ sq_revdeps_new' = Handed(p)
  /\ newendpoints' =
       [ q \in DOMAIN newendpoints \cup NextPoints(p) |->
           IF q \in NextPoints(p) THEN endpoints[p] ELSE newendpoints[q] ]
  /\ endpoints' = [ q \in DOMAIN endpoints \ {p} |-> endpoints[q] ]
  /\ UNCHANGED << graph, squashed >>

NextRound_Same ==  \* recurses on the points of this round
  /\ DOMAIN endpoints = {} /\ DOMAIN newendpoints # {}
  /\ endpoints' = newendpoints
  /\ UNCHANGED << graph, newendpoints, sq_revdeps, sq_revdeps_new, squashed >>

(* process_endpoints(newendpoints)                                          *)
NextRound ==
  /\ DOMAIN endpoints = {} /\ DOMAIN newendpoints # {}
  /\ endpoints' = newendpoints
  /\ newendpoints' = << >>
  /\ UNCHANGED << graph, sq_revdeps, sq_revdeps_new, squashed >>

Squash ==
  /\ DOMAIN endpoints = {} /\ DOMAIN newendpoints = {} /\ ~squashed
  /\ squashed' = TRUE
  /\ UNCHANGED << graph, endpoints, newendpoints, sq_revdeps, sq_revdeps_new >>

Terminated == squashed /\ UNCHANGED vars

Next == (\E p \in Task : VisitPoint(p)) \/ NextRound \/ Squash \/ Terminated

Spec == Init /\ [][Next]_vars

(* The constructor runs to its end.                                         *)
FairSpec == Spec /\ WF_vars(Next)

-----------------------------------------------------------------------------

PointsTyped(e) ==
  /\ DOMAIN e \subseteq Task
  /\ \A p \in DOMAIN e : e[p] \in SUBSET setscene

TypeOK ==
  /\ graph \in Graphs
  /\ PointsTyped(endpoints) /\ PointsTyped(newendpoints)
  /\ sq_revdeps \in [Task -> SUBSET Task]
  /\ sq_revdeps_new \in [Task -> SUBSET setscene]
  /\ squashed \in BOOLEAN

(* A setscene task is collected only at tasks it really depends on, over    *)
(* however many rounds it was handed on: the collapsed graph orders no two  *)
(* setscene tasks that were unordered, and inherits acyclicity.             *)
CollapseSound ==
  \A p \in Task : \A t \in sq_revdeps_new[p] : Reaches(t, p)

(* "Something went badly wrong during scenequeue generation": the test      *)
(* after the walk never finds a setscene task stranded at another task.     *)
NothingStranded ==
  squashed => \A t \in Task \ setscene : sq_revdeps_new[t] = {}

(* What the collapsed graph should hold for s: the setscene tasks that need *)
(* it directly or over tasks that are not setscene tasks.                   *)
Users(s) ==
  { t \in setscene :
      \A S \in SUBSET Task :
        /\ depends[t] \subseteq S
        /\ \A u \in S \ setscene : depends[u] \subseteq S
        => s \in S }

(* "This code therefore aims to collapse the huge runqueue dependency tree  *)
(* into a smaller one only containing the setscene functions" (the comment  *)
(* in __init__): none of their dependencies is lost.                        *)
CollapseComplete ==
  squashed => \A s \in setscene : Users(s) \subseteq sq_revdeps_new[s]

(* The three things that can lose a dependency: a setscene task numbered 0, *)
(* one needed directly by another, and two that need one task directly.     *)
Separable(g) ==
  /\ 0 \notin g.setscene
  /\ \A s \in g.setscene : g.depends[s] \cap g.setscene = {}
  /\ \A s, t \in g.setscene : s # t => g.depends[s] \cap g.depends[t] = {}

(* Without them the collapse is exact, in whatever order a round runs.      *)
CollapseExact ==
  squashed /\ Separable(graph) => \A s \in setscene : sq_revdeps_new[s] = Users(s)

(* The collapsed graph orders only what was ordered, strands nothing, and   *)
(* loses no dependency but in the three cases.                              *)
Collapse == CollapseSound /\ NothingStranded /\ CollapseExact

(* The recursion ends.                                                      *)
CollapseEnds == <>squashed
=============================================================================
