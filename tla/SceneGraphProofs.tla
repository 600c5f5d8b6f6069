-------------------------- MODULE SceneGraphProofs --------------------------
(***************************************************************************)
(* Proofs about the collapse of the run queue's graph for every number of  *)
(* tasks, every graph without a cycle, and every order in which the points *)
(* of a round are visited.                                                 *)
(***************************************************************************)
EXTENDS SceneGraph, TLAPS

-----------------------------------------------------------------------------
(* The inductive invariant, in parts.                                       *)

(* What a point carries, or a task has collected, really depends on it.     *)
Below(e) == \A p \in DOMAIN e : \A t \in e[p] : Reaches(t, p)

CarriedInv == Below(endpoints) /\ Below(newendpoints) /\ CollapseSound

(* Whatever has collected something will be visited, but for the setscene   *)
(* tasks, where the collecting ends.                                        *)
PendingInv ==
  /\ \A t \in Task \ setscene :
       sq_revdeps_new[t] # {} => t \in DOMAIN endpoints \cup DOMAIN newendpoints
  /\ squashed => DOMAIN endpoints = {} /\ DOMAIN newendpoints = {}

(* Where t is now, and the sets that hold all that can still be reached     *)
(* from there without passing another setscene task.                        *)
At(t) ==
  { p \in Task : t \in sq_revdeps_new[p] \/ (p \in DOMAIN endpoints /\ t \in endpoints[p]) }

ClosedPlainly(S) == \A u \in S \ setscene : depends[u] \subseteq S

OnItsWay(t, s) == \A S \in SUBSET Task : At(t) \subseteq S /\ ClosedPlainly(S) => s \in S

(* In a separable graph a setscene task is never a point, what is carried   *)
(* came over plain tasks only, and each user of a setscene task is still on *)
(* its way to it, or there.                                                 *)
CarriesUsers(e) == \A p \in DOMAIN e : p \notin setscene /\ e[p] \subseteq Users(p)

SeparableInv ==
  Separable(graph) =>
    /\ CarriesUsers(endpoints) /\ CarriesUsers(newendpoints)
    /\ \A p \in Task : sq_revdeps_new[p] \subseteq Users(p)
    /\ \A s \in setscene : \A t \in Users(s) : OnItsWay(t, s)

IInv == TypeOK /\ CarriedInv /\ PendingInv /\ SeparableInv

-----------------------------------------------------------------------------
(* What t reaches it reaches on, and what t uses over plain tasks likewise. *)

LEMMA GraphTyped ==
  ASSUME graph \in Graphs
  PROVE  depends \in [Task -> SUBSET Task] /\ setscene \in SUBSET Task
BY GraphsAssumption DEF Graph, depends, setscene

LEMMA ReachesNext ==
  ASSUME NEW p \in Task, NEW q \in depends[p]
  PROVE  /\ Reaches(p, q)
         /\ \A t : Reaches(t, p) => Reaches(t, q)
BY DEF Reaches, ClosedUnderDeps

LEMMA UsersNext ==
  ASSUME NEW p \in Task, NEW q \in depends[p]
  PROVE  /\ p \in setscene => p \in Users(q)
         /\ p \notin setscene => Users(p) \subseteq Users(q)
BY DEF Users

LEMMA CollectedOf ==
  ASSUME TypeOK, NEW p \in DOMAIN endpoints
  PROVE  /\ p \in Task /\ Collected(p) \subseteq setscene
         /\ \A t \in Collected(p) : t \in endpoints[p] \/ t \in sq_revdeps_new[p]
         /\ \A t : t # 0 /\ (t \in endpoints[p] \/ t \in sq_revdeps_new[p]) => t \in Collected(p)
BY DEF TypeOK, PointsTyped, Collected

(* What a visit of p changes, task by task and point by point.              *)
Visits(p) ==
  /\ p \in DOMAIN endpoints /\ p \in Task
  /\ \A t \in Task : sq_revdeps_new'[t] = Handed(p)[t]
  /\ sq_revdeps_new'[p] = {}
  /\ \A t \in Task \ {p} : t \in depends[p] => sq_revdeps_new'[t] = sq_revdeps_new[t] \cup Collected(p)
  /\ \A t \in Task \ {p} : t \notin depends[p] => sq_revdeps_new'[t] = sq_revdeps_new[t]
  /\ DOMAIN endpoints' = DOMAIN endpoints \ {p}
  /\ \A q \in DOMAIN endpoints' : endpoints'[q] = endpoints[q]
  /\ DOMAIN newendpoints' = DOMAIN newendpoints \cup NextPoints(p)
  /\ \A q \in NextPoints(p) : q \in depends[p] \ setscene /\ newendpoints'[q] = endpoints[p]
  /\ \A q \in DOMAIN newendpoints' \ NextPoints(p) :
       q \in DOMAIN newendpoints /\ newendpoints'[q] = newendpoints[q]
  /\ UNCHANGED << graph, squashed >>

LEMMA VisitOf ==
  ASSUME TypeOK, NEW p \in Task, VisitPoint(p)
  PROVE  Visits(p)
<1>1. sq_revdeps_new' = Handed(p) /\ p \in DOMAIN endpoints /\ UNCHANGED << graph, squashed >>
  BY DEF VisitPoint
<1>2. /\ sq_revdeps_new'[p] = {}
      /\ \A t \in Task \ {p} : t \in depends[p] => sq_revdeps_new'[t] = sq_revdeps_new[t] \cup Collected(p)
      /\ \A t \in Task \ {p} : t \notin depends[p] => sq_revdeps_new'[t] = sq_revdeps_new[t]
  BY <1>1 DEF Handed
<1>3. /\ DOMAIN endpoints' = DOMAIN endpoints \ {p}
      /\ \A q \in DOMAIN endpoints' : endpoints'[q] = endpoints[q]
  BY DEF VisitPoint
<1>4. /\ DOMAIN newendpoints' = DOMAIN newendpoints \cup NextPoints(p)
      /\ \A q \in NextPoints(p) : newendpoints'[q] = endpoints[p]
      /\ \A q \in DOMAIN newendpoints' \ NextPoints(p) :
           q \in DOMAIN newendpoints /\ newendpoints'[q] = newendpoints[q]
  BY DEF VisitPoint
<1>5. \A q \in NextPoints(p) : q \in depends[p] \ setscene
  BY DEF NextPoints
<1> QED
  BY <1>1, <1>2, <1>3, <1>4, <1>5 DEF Visits

-----------------------------------------------------------------------------
(* A visit keeps each part.                                                 *)

LEMMA VisitTypes ==
  ASSUME TypeOK, NEW p \in Task, VisitPoint(p)
  PROVE  TypeOK'
<1>1. Visits(p)
  BY VisitOf
<1>2. graph' = graph /\ depends' = depends /\ setscene' = setscene /\ squashed' = squashed
  BY <1>1 DEF Visits, depends, setscene
<1>3. depends \in [Task -> SUBSET Task] /\ setscene \in SUBSET Task
  BY GraphTyped DEF TypeOK
<1>4. sq_revdeps' \in [Task -> SUBSET Task]
  BY DEF VisitPoint, TypeOK
<1>5. sq_revdeps_new' \in [Task -> SUBSET setscene]
  <2>1. Collected(p) \subseteq setscene
    BY <1>1, CollectedOf DEF Visits
  <2> QED
    BY <2>1 DEF VisitPoint, TypeOK, Handed
<1>6. PointsTyped(endpoints')
  BY <1>1 DEF Visits, TypeOK, PointsTyped
<1>7. PointsTyped(newendpoints')
  BY <1>1, <1>3 DEF Visits, TypeOK, PointsTyped
<1> QED
  BY <1>2, <1>4, <1>5, <1>6, <1>7 DEF TypeOK, PointsTyped

LEMMA VisitCarries ==
  ASSUME TypeOK, CarriedInv, NEW p \in Task, VisitPoint(p)
  PROVE  CarriedInv'
<1>1. Visits(p)
  BY VisitOf
<1>2. \A t, q : Reaches(t, q)' = Reaches(t, q)
  BY <1>1 DEF Visits, Reaches, ClosedUnderDeps, depends
<1>3. \A t \in endpoints[p] : Reaches(t, p)
  BY <1>1 DEF Visits, CarriedInv, Below
<1>4. Below(endpoints')
  BY <1>1 DEF Visits, CarriedInv, Below
<1>5. Below(newendpoints')
  <2> SUFFICES ASSUME NEW q \in DOMAIN newendpoints', NEW t \in newendpoints'[q]
               PROVE  Reaches(t, q)
    BY DEF Below
  <2>1. CASE q \in NextPoints(p)
    BY <1>1, <1>3, <2>1, ReachesNext DEF Visits
  <2>2. CASE q \notin NextPoints(p)
    BY <1>1, <2>2 DEF Visits, CarriedInv, Below
  <2> QED
    BY <2>1, <2>2
<1>6. \A q \in Task : \A t \in sq_revdeps_new'[q] : Reaches(t, q)
  <2> SUFFICES ASSUME NEW q \in Task, NEW t \in sq_revdeps_new'[q]
               PROVE  Reaches(t, q)
    OBVIOUS
  <2>1. q # p
    BY <1>1 DEF Visits
  <2>2. CASE t \in sq_revdeps_new[q]
    BY <2>2 DEF CarriedInv, CollapseSound
  <2>3. CASE q \in depends[p] /\ t \in Collected(p)
    <3>1. t \in endpoints[p] \/ t \in sq_revdeps_new[p]
      BY <1>1, <2>3, CollectedOf DEF Visits
    <3>2. Reaches(t, p)
      BY <1>3, <3>1 DEF CarriedInv, CollapseSound
    <3> QED
      BY <2>3, <3>2, ReachesNext
  <2> QED
    BY <1>1, <2>1, <2>2, <2>3 DEF Visits
<1> QED
  BY <1>2, <1>4, <1>5, <1>6 DEF CarriedInv, Below, CollapseSound

LEMMA VisitLeavesPending ==
  ASSUME TypeOK, PendingInv, NEW p \in Task, VisitPoint(p)
  PROVE  PendingInv'
<1>1. Visits(p)
  BY VisitOf
<1>2. setscene' = setscene /\ squashed' = squashed /\ ~squashed
  BY <1>1 DEF Visits, setscene, PendingInv
<1>3. ASSUME NEW t \in Task \ setscene, sq_revdeps_new'[t] # {}
      PROVE  t \in DOMAIN endpoints' \cup DOMAIN newendpoints'
  <2>1. t # p
    BY <1>1, <1>3 DEF Visits
  <2>2. CASE t \in depends[p]
    <3>1. Handed(p)[t] # {}
      BY <1>1, <1>3 DEF Visits
    <3>2. t \in NextPoints(p)
      BY <2>2, <3>1 DEF NextPoints
    <3> QED
      BY <1>1, <3>2 DEF Visits
  <2>3. CASE t \notin depends[p]
    BY <1>1, <1>3, <2>1, <2>3 DEF Visits, PendingInv
  <2> QED
    BY <2>2, <2>3
<1> QED
  BY <1>2, <1>3 DEF PendingInv

LEMMA VisitSeparable ==
  ASSUME TypeOK, SeparableInv, NEW p \in Task, VisitPoint(p)
  PROVE  SeparableInv'
<1>1. Visits(p)
  BY VisitOf
<1>2. graph' = graph /\ depends' = depends /\ setscene' = setscene
  BY <1>1 DEF Visits, depends, setscene
<1>3. \A q : Users(q)' = Users(q)
  BY <1>2 DEF Users
<1>4. SUFFICES ASSUME Separable(graph)
               PROVE  /\ CarriesUsers(endpoints)' /\ CarriesUsers(newendpoints)'
                      /\ \A q \in Task : sq_revdeps_new'[q] \subseteq Users(q)
                      /\ \A s \in setscene : \A t \in Users(s) : OnItsWay(t, s)'
  BY <1>2, <1>3 DEF SeparableInv, Separable
<1>5. /\ CarriesUsers(endpoints) /\ CarriesUsers(newendpoints)
      /\ \A q \in Task : sq_revdeps_new[q] \subseteq Users(q)
      /\ \A s \in setscene : \A t \in Users(s) : OnItsWay(t, s)
      /\ 0 \notin setscene
  BY <1>4 DEF SeparableInv, Separable, setscene
<1>6. p \notin setscene /\ endpoints[p] \subseteq Users(p)
  BY <1>1, <1>5 DEF Visits, CarriesUsers
<1>7. CarriesUsers(endpoints)'
  BY <1>1, <1>2, <1>3, <1>5 DEF Visits, CarriesUsers
<1>8. CarriesUsers(newendpoints)'
  <2> SUFFICES ASSUME NEW q \in DOMAIN newendpoints'
               PROVE  q \notin setscene /\ newendpoints'[q] \subseteq Users(q)
    BY <1>2, <1>3 DEF CarriesUsers
  <2>1. CASE q \in NextPoints(p)
    BY <1>1, <1>6, <2>1, UsersNext DEF Visits
  <2>2. CASE q \notin NextPoints(p)
    BY <1>1, <1>5, <2>2 DEF Visits, CarriesUsers
  <2> QED
    BY <2>1, <2>2
<1>9. ASSUME NEW q \in Task
      PROVE  sq_revdeps_new'[q] \subseteq Users(q)
  <2>1. CASE q = p
    BY <1>1, <2>1 DEF Visits
  <2>2. CASE q # p /\ q \in depends[p]
    <3>1. Collected(p) \subseteq Users(p)
      BY <1>1, <1>5, <1>6, CollectedOf DEF Visits
    <3>2. Users(p) \subseteq Users(q)
      BY <1>6, <2>2, UsersNext
    <3> QED
      BY <1>1, <1>5, <2>2, <3>1, <3>2 DEF Visits
  <2>3. CASE q # p /\ q \notin depends[p]
    BY <1>1, <1>5, <2>3 DEF Visits
  <2> QED
    BY <2>1, <2>2, <2>3
(* When p hands t on, the sets that hold the dependencies of p hold t's way *)
(* again once p is put back.                                                *)
<1>10. ASSUME NEW s \in setscene, NEW t \in Users(s)
       PROVE  OnItsWay(t, s)'
  <2> SUFFICES ASSUME NEW S \in SUBSET Task, At(t)' \subseteq S, ClosedPlainly(S)
               PROVE  s \in S
    BY <1>2 DEF OnItsWay, ClosedPlainly
  <2>1. t # 0 /\ s # p
    BY <1>5, <1>6 DEF Users
  <2>2. CASE t \in Collected(p)
    <3>1. depends[p] \subseteq S
      <4> SUFFICES ASSUME NEW q \in depends[p] PROVE q \in S
        OBVIOUS
      <4>1. q \in Task
        BY GraphTyped DEF TypeOK
      <4>2. CASE q # p
        <5>1. t \in sq_revdeps_new'[q]
          BY <1>1, <2>2, <4>1, <4>2 DEF Visits
        <5> QED
          BY <4>1, <5>1 DEF At
      <4>3. CASE q = p
        <5>1. Acyclic(depends)
          BY GraphsAssumption DEF TypeOK, Graph, depends
        <5>2. {p} \in SUBSET Task /\ {p} # {}
          OBVIOUS
        <5>3. PICK u \in {p} : depends[u] \cap {p} = {}
          BY <5>1, <5>2 DEF Acyclic
        <5> QED
          BY <4>3, <5>3
      <4> QED
        BY <4>2, <4>3
    <3>2. At(t) \subseteq S \cup {p}
      <4> SUFFICES ASSUME NEW q \in At(t), q # p PROVE q \in S
        OBVIOUS
      <4>1. q \in Task /\ (t \in sq_revdeps_new[q] \/ (q \in DOMAIN endpoints /\ t \in endpoints[q]))
        BY DEF At
      <4>2. t \in sq_revdeps_new'[q] \/ (q \in DOMAIN endpoints' /\ t \in endpoints'[q])
        BY <1>1, <4>1 DEF Visits
      <4> QED
        BY <4>1, <4>2 DEF At
    <3>3. ClosedPlainly(S \cup {p})
      BY <3>1 DEF ClosedPlainly
    <3>4. s \in S \cup {p}
      BY <1>5, <3>2, <3>3 DEF OnItsWay
    <3> QED
      BY <2>1, <3>4
  <2>3. CASE t \notin Collected(p)
    <3>1. At(t) \subseteq S
      <4> SUFFICES ASSUME NEW q \in At(t) PROVE q \in S
        OBVIOUS
      <4>1. q \in Task /\ (t \in sq_revdeps_new[q] \/ (q \in DOMAIN endpoints /\ t \in endpoints[q]))
        BY DEF At
      <4>2. q # p
        BY <1>1, <2>1, <2>3, <4>1, CollectedOf DEF Visits
      <4>3. t \in sq_revdeps_new'[q] \/ (q \in DOMAIN endpoints' /\ t \in endpoints'[q])
        BY <1>1, <4>1, <4>2 DEF Visits
      <4> QED
        BY <4>1, <4>3 DEF At
    <3> QED
      BY <1>5, <3>1 DEF OnItsWay
  <2> QED
    BY <2>2, <2>3
<1> QED
  BY <1>7, <1>8, <1>9, <1>10

-----------------------------------------------------------------------------
(* The beginning, and the other steps.                                      *)

LEMMA InvInit == Init => IInv
<1> SUFFICES ASSUME Init PROVE IInv
  OBVIOUS
<1>1. depends \in [Task -> SUBSET Task] /\ setscene \in SUBSET Task
  BY GraphTyped DEF Init
<1>2. /\ DOMAIN endpoints = FirstPoints /\ \A p \in FirstPoints : endpoints[p] = LastUser(p)
      /\ DOMAIN newendpoints = {}
      /\ \A t \in Task : sq_revdeps_new[t] = {}
  BY DEF Init
<1>3. FirstPoints \subseteq Task
  BY <1>1 DEF FirstPoints
<1>4. \A p \in Task : LastUser(p) \subseteq setscene /\ \A s \in LastUser(p) : p \in depends[s]
  BY DEF LastUser
<1>5. TypeOK
  <2>1. PointsTyped(endpoints) /\ PointsTyped(newendpoints)
    BY <1>2, <1>3, <1>4 DEF PointsTyped
  <2>2. sq_revdeps \in [Task -> SUBSET Task] /\ sq_revdeps_new \in [Task -> SUBSET setscene]
    BY DEF Init, RevDeps
  <2> QED
    BY <2>1, <2>2 DEF Init, TypeOK
<1>6. CarriedInv
  <2>1. Below(endpoints)
    BY <1>1, <1>2, <1>3, <1>4, ReachesNext DEF Below
  <2> QED
    BY <1>2, <2>1 DEF CarriedInv, Below, CollapseSound
<1>7. PendingInv
  BY <1>2 DEF Init, PendingInv
<1>8. ASSUME Separable(graph)
      PROVE  /\ CarriesUsers(endpoints) /\ CarriesUsers(newendpoints)
             /\ \A p \in Task : sq_revdeps_new[p] \subseteq Users(p)
             /\ \A s \in setscene : \A t \in Users(s) : OnItsWay(t, s)
  <2>1. /\ \A s \in setscene : depends[s] \cap setscene = {}
        /\ \A s, t \in setscene : s # t => depends[s] \cap depends[t] = {}
    BY <1>8 DEF Separable, depends, setscene
  <2>2. CarriesUsers(endpoints)
    <3>1. \A p \in FirstPoints : p \notin setscene
      BY <2>1 DEF FirstPoints
    <3>2. \A p \in FirstPoints : LastUser(p) \subseteq Users(p)
      BY <1>1, <1>3, <1>4, UsersNext
    <3> QED
      BY <1>2, <3>1, <3>2 DEF CarriesUsers
  <2>3. ASSUME NEW s \in setscene, NEW t \in Users(s)
        PROVE  OnItsWay(t, s)
    <3>1. t \in setscene /\ t \in Task
      BY <1>1 DEF Users
    <3>2. depends[t] \subseteq At(t)
      <4> SUFFICES ASSUME NEW p \in depends[t] PROVE p \in At(t)
        OBVIOUS
      <4>1. p \in Task /\ p \in FirstPoints
        BY <1>1, <3>1 DEF FirstPoints
      <4>2. t \in LastUser(p)
        <5>1. \A u \in setscene : p \in depends[u] => u = t
          BY <2>1, <3>1
        <5>2. t <= t
          BY <3>1, NumTasksAssumption DEF Task
        <5> QED
          BY <3>1, <5>1, <5>2 DEF LastUser
      <4> QED
        BY <1>2, <4>1, <4>2 DEF At
    <3>3. \A S \in SUBSET Task : depends[t] \subseteq S /\ (\A u \in S \ setscene : depends[u] \subseteq S) => s \in S
      BY DEF Users
    <3> QED
      BY <3>2, <3>3 DEF OnItsWay, ClosedPlainly
  <2> QED
    BY <1>2, <2>2, <2>3 DEF CarriesUsers
<1> QED
  BY <1>5, <1>6, <1>7, <1>8 DEF IInv, SeparableInv

LEMMA NextRoundStep == IInv /\ NextRound => IInv'
<1> SUFFICES ASSUME IInv, NextRound PROVE IInv'
  OBVIOUS
<1>1. /\ DOMAIN endpoints = {} /\ DOMAIN newendpoints # {}
      /\ endpoints' = newendpoints /\ DOMAIN newendpoints' = {}
      /\ UNCHANGED << graph, sq_revdeps, sq_revdeps_new, squashed >>
  BY DEF NextRound
<1>2. depends' = depends /\ setscene' = setscene
  BY <1>1 DEF depends, setscene
<1>3. TypeOK'
  BY <1>1, <1>2 DEF IInv, TypeOK, PointsTyped
<1>4. CarriedInv'
  BY <1>1, <1>2 DEF IInv, CarriedInv, Below, CollapseSound, Reaches, ClosedUnderDeps
<1>5. PendingInv'
  BY <1>1, <1>2 DEF IInv, PendingInv
<1>6. SeparableInv'
  <2>1. \A p : Users(p)' = Users(p)
    BY <1>2 DEF Users
  <2>2. \A t : At(t) \subseteq At(t)'
    BY <1>1 DEF At
  <2>3. \A t, s : OnItsWay(t, s) => OnItsWay(t, s)'
    BY <1>2, <2>2 DEF OnItsWay, ClosedPlainly
  <2> QED
    BY <1>1, <1>2, <2>1, <2>3 DEF IInv, SeparableInv, CarriesUsers
<1> QED
  BY <1>3, <1>4, <1>5, <1>6 DEF IInv

LEMMA InvStep == IInv /\ [Next]_vars => IInv'
<1> SUFFICES ASSUME IInv, [Next]_vars PROVE IInv'
  OBVIOUS
<1>1. ASSUME NEW p \in Task, VisitPoint(p)
      PROVE  IInv'
  BY <1>1, VisitTypes, VisitCarries, VisitLeavesPending, VisitSeparable DEF IInv
<1>2. CASE UNCHANGED << graph, endpoints, newendpoints, sq_revdeps, sq_revdeps_new >>
           /\ (squashed' = squashed \/ (squashed' = TRUE /\ DOMAIN endpoints = {} /\ DOMAIN newendpoints = {}))
  <2>1. depends' = depends /\ setscene' = setscene
    BY <1>2 DEF depends, setscene
  <2>2. TypeOK'
    <3>1. squashed' \in BOOLEAN
      BY <1>2 DEF IInv, TypeOK
    <3> QED
      BY <1>2, <2>1, <3>1 DEF IInv, TypeOK, PointsTyped
  <2>3. PendingInv'
    BY <1>2, <2>1 DEF IInv, PendingInv
  <2>4. CarriedInv'
    BY <1>2, <2>1 DEF IInv, CarriedInv, Below, CollapseSound, Reaches, ClosedUnderDeps
  <2>5. SeparableInv'
    <3>1. (\A p : Users(p)' = Users(p)) /\ \A t : At(t)' = At(t)
      BY <1>2, <2>1 DEF Users, At
    <3>2. \A t, s : OnItsWay(t, s)' = OnItsWay(t, s)
      BY <2>1, <3>1 DEF OnItsWay, ClosedPlainly
    <3> QED
      BY <1>2, <2>1, <3>1, <3>2 DEF IInv, SeparableInv, CarriesUsers
  <2> QED
    BY <2>2, <2>3, <2>4, <2>5 DEF IInv
<1> QED
  BY <1>1, <1>2, NextRoundStep DEF Next, Squash, Terminated, vars

LEMMA Invariance == Spec => []IInv
BY InvInit, InvStep, PTL DEF Spec

-----------------------------------------------------------------------------
(* The dictionaries of the walk keep their types: only setscene tasks are   *)
(* ever carried or collected, and only tasks of the run queue are visited.  *)
THEOREM TypeCorrect == Spec => []TypeOK
<1>1. IInv => TypeOK
  BY DEF IInv
<1> QED
  BY <1>1, Invariance, PTL

(* The collapsed graph of every run queue orders only what was ordered, the *)
(* walk strands nothing, so that "something went badly wrong" is never      *)
(* said, and outside the three cases the collapse is exact.                 *)
THEOREM CollapseHolds == Spec => []Collapse
<1>1. IInv => CollapseSound /\ NothingStranded
  BY DEF IInv, CarriedInv, PendingInv, NothingStranded
<1>2. IInv => CollapseExact
  <2> SUFFICES ASSUME IInv, squashed, Separable(graph), NEW s \in setscene
               PROVE  sq_revdeps_new[s] = Users(s)
    BY DEF CollapseExact
  <2>1. setscene \subseteq Task /\ DOMAIN endpoints = {}
    BY GraphTyped DEF IInv, TypeOK, PendingInv
  <2>2. sq_revdeps_new[s] \subseteq Users(s)
    BY <2>1 DEF IInv, SeparableInv
  <2>3. ASSUME NEW t \in Users(s)
        PROVE  t \in sq_revdeps_new[s]
    <3>1. At(t) \in SUBSET Task /\ \A p \in At(t) : t \in sq_revdeps_new[p]
      BY <2>1 DEF At
    <3>2. At(t) \subseteq setscene
      BY <1>1, <3>1 DEF NothingStranded
    <3>3. ClosedPlainly(At(t))
      BY <3>2 DEF ClosedPlainly
    <3>4. OnItsWay(t, s)
      BY DEF IInv, SeparableInv
    <3> QED
      BY <3>1, <3>3, <3>4 DEF OnItsWay
  <2> QED
    BY <2>2, <2>3
<1>3. IInv => Collapse
  BY <1>1, <1>2 DEF Collapse
<1> QED
  BY <1>3, Invariance, PTL

=============================================================================
