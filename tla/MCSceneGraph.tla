---------------------------- MODULE MCSceneGraph ----------------------------
(***************************************************************************)
(* Instances of SceneGraph for TLC: labelled graphs on a few tasks, every  *)
(* choice of the tasks that have setscene variants.                        *)
(***************************************************************************)
EXTENDS SceneGraph

AllGraphs == { g \in [depends : [Task -> SUBSET Task], setscene : SUBSET Task] :
                 g.setscene # {} /\ Acyclic(g.depends) }

(* Every graph of four tasks, beside a fifth that is alone.                 *)
FourTasks ==
  { [ depends |-> [ t \in Task |-> IF t < 4 THEN d[t] ELSE {} ], setscene |-> s ] :
      d \in { e \in [0 .. 3 -> SUBSET (0 .. 3)] :
                \A S \in SUBSET (0 .. 3) : S # {} => \E t \in S : e[t] \cap S = {} },
      s \in SUBSET (0 .. 3) \ {{}} }

(* Graphs of five tasks, only those for which the collapse should be exact. *)
(* Dependencies point towards the bottom of this order, in whose middle the *)
(* task numbered 0 can link two setscene tasks.                             *)
TopDown == << 1, 2, 0, 3, 4 >>

SeparableGraphs ==
  UNION { { g \in [depends : {[ t \in Task |-> { u \in Task : << t, u >> \in e } ]},
                    setscene : SUBSET Task \ {{}}] : Separable(g) } :
          e \in SUBSET { << TopDown[i], TopDown[j] >> :
                          << i, j >> \in { p \in (1 .. 5) \X (1 .. 5) : p[1] < p[2] } } }

FourAndFive == FourTasks \cup SeparableGraphs
=============================================================================
