---------------------------- MODULE MCSceneQueue ----------------------------
(***************************************************************************)
(* Instances of SceneQueue for TLC: the run queues each configuration      *)
(* explores.                                                               *)
(***************************************************************************)
EXTENDS SceneQueue, TLC

MCTask == 1 .. 3

Identity == [t \in MCTask |-> t]

Base == [ depends |-> [t \in MCTask |-> {}], fnid |-> [t \in MCTask |-> 1],
          stampfile |-> Identity, prio |-> Identity, nostamp |-> {},
          noexec |-> {}, setscene |-> MCTask, whitelist |-> {},
          number_tasks |-> 2, abort |-> TRUE, dry_run |-> FALSE ]

Chain  == (1 :> {} @@ 2 :> {1} @@ 3 :> {2})
Join   == (1 :> {} @@ 2 :> {} @@ 3 :> {1, 2})
Fork   == (1 :> {} @@ 2 :> {1} @@ 3 :> {1})

(* Three setscene tasks, one or two workers, a noexec task, two tasks that  *)
(* write one stamp file.                                                    *)
SceneQueues ==
  { [Base EXCEPT !.depends = Chain, !.noexec = {3}, !.number_tasks = 1],
    [Base EXCEPT !.depends = Fork],
    [Base EXCEPT !.depends = Join, !.noexec = {2}, !.number_tasks = 1],
    [Base EXCEPT !.depends = Join, !.stampfile = (1 :> 1 @@ 2 :> 1 @@ 3 :> 3),
                 !.setscene = {1, 2}, !.noexec = {1}] }

(* Two setscene tasks and one that has no setscene variant, between them or *)
(* below both; or none that has.                                            *)
FewSetscene ==
  { [Base EXCEPT !.depends = Chain, !.setscene = {1, 3}],
    [Base EXCEPT !.depends = Fork, !.setscene = {2, 3}],
    [Base EXCEPT !.depends = Fork, !.setscene = {}] }

AllSceneQueues == SceneQueues \cup FewSetscene

(* Time passes where there are two setscene tasks at most.                  *)
ClockBound == Cardinality(rqdata.setscene) <= 2 \/ clock = BuildStart
=============================================================================
