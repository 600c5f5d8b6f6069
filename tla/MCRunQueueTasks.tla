--------------------------- MODULE MCRunQueueTasks ---------------------------
(***************************************************************************)
(* Instances of RunQueueTasks for TLC: the run queues each configuration   *)
(* explores.  Three tasks; their number is their priority, which loses     *)
(* nothing where every labelled graph on them is among the run queues.     *)
(***************************************************************************)
EXTENDS RunQueueTasks, TLC

MCTask == 1 .. 3

Identity == [t \in MCTask |-> t]
OneFn    == [t \in MCTask |-> 1]

AllDepends == { d \in [MCTask -> SUBSET MCTask] : Acyclic(d) }

NoDeps == [t \in MCTask |-> {}]
Chain  == (1 :> {} @@ 2 :> {1} @@ 3 :> {2})
Join   == (1 :> {} @@ 2 :> {} @@ 3 :> {1, 2})
Fork   == (1 :> {} @@ 2 :> {1} @@ 3 :> {1})

Base == [ depends |-> NoDeps, fnid |-> OneFn, stampfile |-> Identity,
          prio |-> Identity, nostamp |-> {}, noexec |-> {}, setscene |-> {},
          whitelist |-> {}, number_tasks |-> 2, abort |-> TRUE,
          dry_run |-> FALSE ]

(* Every graph on three tasks, one or two workers, with and without         *)
(* --continue, from an empty stamp directory.                               *)
GraphQueues ==
  { [Base EXCEPT !.depends = d, !.number_tasks = n, !.abort = a] :
      d \in AllDepends, n \in 1 .. 2, a \in BOOLEAN }

(* Graphs with stamps left by earlier builds; two recipes, whitelisted or   *)
(* not; a task flagged nostamp or noexec; a dry run.                        *)
StampedQueues ==
  { [Base EXCEPT !.depends = d, !.fnid = (1 :> 1 @@ 2 :> 1 @@ 3 :> f.fn),
                 !.whitelist = f.skip, !.nostamp = x.nostamp, !.noexec = x.noexec] :
      d \in {Chain, Join, Fork},
      x \in [nostamp : {{}}, noexec : {{}, {2}}] \cup [nostamp : {{1}}, noexec : {{}}],
      f \in {[fn |-> 1, skip |-> {}], [fn |-> 2, skip |-> {}], [fn |-> 2, skip |-> {1}]} }
  \cup { [Base EXCEPT !.depends = d, !.dry_run = TRUE] : d \in {Chain, Join} }

(* Tasks 1 and 2, or 2 and 3, share a stamp file.                           *)
SharedQueues ==
  { [Base EXCEPT !.depends = d, !.fnid = Identity, !.stampfile = s,
                 !.number_tasks = 3, !.abort = a] :
      d \in {NoDeps, Fork, Join}, a \in BOOLEAN,
      s \in {(1 :> 1 @@ 2 :> 1 @@ 3 :> 3), (1 :> 1 @@ 2 :> 2 @@ 3 :> 2)} }

(* Tasks with setscene variants, in one recipe or two, on every graph whose *)
(* tasks depend on lower ones.                                              *)
SetsceneQueues ==
  { [Base EXCEPT !.depends = d, !.setscene = s, !.fnid = (1 :> 1 @@ 2 :> f @@ 3 :> 2)] :
      d \in { e \in AllDepends : \A t \in MCTask : \A u \in e[t] : u < t },
      s \in {{2}, {3}, {1, 3}, {2, 3}}, f \in 1 .. 2 }

(* Four tasks.  Task 1 (say do_install) is needed by tasks 2 and 4; task 3  *)
(* needs 2 in the same recipe, or needs 1 there and 2 in another.  Tasks 2  *)
(* and 3 have setscene variants, in one case only 3.                        *)
MCTask4 == 1 .. 4
FourTasks ==
  [ Base EXCEPT !.depends = (1 :> {} @@ 2 :> {1} @@ 3 :> {2} @@ 4 :> {1}),
                !.fnid = (1 :> 1 @@ 2 :> 1 @@ 3 :> 1 @@ 4 :> 2),
                !.stampfile = [t \in MCTask4 |-> t],
                !.prio = [t \in MCTask4 |-> t],
                !.setscene = {2, 3} ]
PartlyCovered ==
  { FourTasks,
    [ FourTasks EXCEPT !.depends = (1 :> {} @@ 2 :> {} @@ 3 :> {1, 2} @@ 4 :> {1}),
                       !.fnid = (1 :> 1 @@ 2 :> 2 @@ 3 :> 1 @@ 4 :> 2),
                       !.setscene = {3} ] }

(* All of these, each with the stamps that matter to it: none for the       *)
(* graphs, those of setscene tasks for the covered ones, one age of stamps  *)
(* where they are shared, and any age where stamps are the subject.         *)
SafetyQueues == GraphQueues \cup StampedQueues \cup SharedQueues \cup SetsceneQueues

Ages ==
  IF rqdata \in StampedQueues THEN 0 .. LastStamp
  ELSE IF rqdata \in SharedQueues THEN {Absent, LastStamp} ELSE {Absent}

(* Where a task has a setscene variant, its number is its stamp file; and   *)
(* no task has a stamp of its own that would make others look at setscene   *)
(* stamps, so that of those only the covered tasks' matter.                 *)
MCInit ==
  /\ Init
  /\ \A s \in Stamp : stamps[s] \in Ages
  /\ \A s \in Stamp : scstamps[s] = IF s \in covered THEN BuildStart ELSE Absent

MCSpec == MCInit /\ [][Next]_vars /\ Fairness

(* Time passes only where stamps are compared.                              *)
ClockBound ==
  rqdata \in StampedQueues \cup SharedQueues \/ clock = BuildStart
=============================================================================
