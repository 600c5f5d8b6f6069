------------------------------ MODULE LockFile ------------------------------
(***************************************************************************)
(* The lock files of bitbake (lockfile and unlockfile, bb/utils.py): calls *)
(* of any number of processes on one name.  The file is removed by whoever *)
(* unlocks it, so the lock is on an inode, and the name may be that of     *)
(* another one by the time the lock is had; the number of an inode that is *)
(* neither named nor open is used again.  flock belongs to an open file:   *)
(* one that is closed, or whose process ends, has no lock.                 *)
(***************************************************************************)
EXTENDS Naturals

CONSTANTS
  Client,        (* the callers, one call at a time each                   *)
  Inode,         (* the numbers of inodes                                  *)
  None           (* no inode                                               *)

ASSUME NoneAssumption == None \notin Inode

VARIABLES
  disk,          (* the inode of the name, None when there is no file      *)
  at,            (* where each caller is                                   *)
  want,          (* the lock its call asks for, and the argument retry     *)
  fd,            (* the inode it has open as lf                            *)
  lock           (* the lock of that open file                             *)

lockvars == <<disk, at, want, fd, lock>>

(* No other open file of the inode has a lock that excludes this one.       *)
Free(p, kind) ==
  \A q \in Client \ {p} :
    fd[q] = fd[p] => lock[q] = "no" \/ (lock[q] = "sh" /\ kind = "sh")

Goto(p, l) == at' = [at EXCEPT ![p] = l]
CloseFile(p) ==
  /\ fd' = [fd EXCEPT ![p] = None]
  /\ lock' = [lock EXCEPT ![p] = "no"]

-----------------------------------------------------------------------------
Call(p) ==
  /\ at[p] = "out"
  /\ \E w \in [ op : { "sh", "ex" }, retry : BOOLEAN ] : want' = [want EXCEPT ![p] = w]
  /\ Goto(p, "open")
  /\ UNCHANGED <<disk, fd, lock>>

(* open(name, 'a+') makes the file when it is not there.  The file that an  *)
(* exception has left open is closed when lf is bound anew.                 *)
Open(p) ==
  /\ at[p] = "open"
  /\ \E n \in Inode :
       /\ IF disk # None THEN n = disk ELSE \A q \in Client : fd[q] # n
       /\ disk' = n
       /\ fd' = [fd EXCEPT ![p] = n]
  /\ lock' = [lock EXCEPT ![p] = "no"]
  /\ Goto(p, "flock")
  /\ UNCHANGED want

(* flock waits; without retry it raises, and the loop begins again.         *)
Flock(p) ==
  /\ at[p] = "flock" /\ Free(p, want[p].op)
  /\ lock' = [lock EXCEPT ![p] = want[p].op]
  /\ Goto(p, "exists")
  /\ UNCHANGED <<disk, want, fd>>

FlockRaises(p) ==
  /\ at[p] = "flock" /\ ~Free(p, want[p].op) /\ ~want[p].retry
  /\ Goto(p, "open")
  /\ UNCHANGED <<disk, want, fd, lock>>

NotThis(p) ==
  /\ CloseFile(p)
  /\ Goto(p, IF want[p].retry THEN "open" ELSE "out")

Exists(p) ==
  /\ at[p] = "exists"
  /\ IF disk # None THEN Goto(p, "stat") /\ UNCHANGED <<fd, lock>> ELSE NotThis(p)
  /\ UNCHANGED <<disk, want>>

Stat_AnyInode(p) ==
  /\ at[p] = "stat"
  /\ IF disk # None THEN Goto(p, "holds") ELSE Goto(p, "open")
  /\ UNCHANGED <<disk, want, fd, lock>>

(* The file may be gone since: stat raises, and lf stays open.              *)
Stat(p) ==
  /\ at[p] = "stat"
  /\ CASE disk = fd[p] -> Goto(p, "holds") /\ UNCHANGED <<fd, lock>>
       [] disk = None  -> Goto(p, "open") /\ UNCHANGED <<fd, lock>>
       [] OTHER        -> NotThis(p)
  /\ UNCHANGED <<disk, want>>

-----------------------------------------------------------------------------
(* unlockfile: the lock is made exclusive, which loses a shared one when    *)
(* others have it; whoever succeeds removes the name.                       *)
Promote(p) ==
  /\ at[p] = "holds"
  /\ IF Free(p, "ex")
     THEN lock' = [lock EXCEPT ![p] = "ex"] /\ Goto(p, "unlink")
     ELSE lock' = [lock EXCEPT ![p] = "no"] /\ Goto(p, "unlock")
  /\ UNCHANGED <<disk, want, fd>>

Unlink(p) ==
  /\ at[p] = "unlink"
  /\ disk' = None
  /\ Goto(p, "unlock")
  /\ UNCHANGED <<want, fd, lock>>

Unlock(p) ==
  /\ at[p] = "unlock"
  /\ CloseFile(p)
  /\ Goto(p, "out")
  /\ UNCHANGED <<disk, want>>

Killed(p) ==
  /\ at[p] # "out"
  /\ CloseFile(p)
  /\ Goto(p, "out")
  /\ UNCHANGED <<disk, want>>

LockInit ==
  /\ disk = None
  /\ at = [p \in Client |-> "out"]
  /\ want = [p \in Client |-> [ op |-> "ex", retry |-> TRUE ]]
  /\ fd = [p \in Client |-> None]
  /\ lock = [p \in Client |-> "no"]

LockNext ==
  \E p \in Client :
    \/ Call(p) \/ Open(p) \/ Flock(p) \/ FlockRaises(p) \/ Exists(p) \/ Stat(p)
    \/ Promote(p) \/ Unlink(p) \/ Unlock(p) \/ Killed(p)

LockSpec == LockInit /\ [][LockNext]_lockvars

-----------------------------------------------------------------------------
(* While a caller has the exclusive lock nobody else has the lock, and      *)
(* while anybody has it the name is that of the file it is on, so that      *)
(* whoever comes waits for it: whatever others remove, make and lock        *)
(* between the steps of a call.                                             *)
LockExcludes ==
  \A p \in Client : at[p] = "holds" =>
    /\ fd[p] = disk
    /\ want[p].op = "ex" => \A q \in Client \ {p} : at[q] # "holds"
=============================================================================
