------------------------- MODULE CookerServerProofs -------------------------
(***************************************************************************)
(* Proofs about the command side of the server, for any number of commands *)
(* and of recipes.                                                         *)
(***************************************************************************)
EXTENDS CookerServer, TLAPS

(* The command in progress and the idle function that has it, at any point  *)
(* of a turn; nothing is left to be called that is no longer registered.    *)
WorkerInv ==
  /\ to_call \subseteq idle
  /\ \/ current = "none" /\ idle = {}
     \/ current # "none" /\ idle = {"runCommands"}
     \/ current \in BuildCommands /\ idle = {"build"} /\ rq # "none"

(* What a parser with these fields has returned is in the cache or failed,  *)
(* as long as the cache is its own.                                         *)
ParserSound(t, l, f, s, o) ==
  /\ f \subseteq 1 .. (t - l)
  /\ o = "parser" => s = (1 .. (t - l)) \ f

(* The cooker runs on what a finished parser has left.                      *)
CacheInv ==
  /\ state = "running" => left = 0
  /\ ParserSound(total, left, failed, status, owner)

StateInv ==
  StateOK /\ accepted <= requests /\ OneCompletionEach /\ WorkerInv /\ CacheInv

IInv == keep_running \in BOOLEAN /\ StateInv

(* It holds at the start.                                                   *)
LEMMA InitInv == Init => IInv
<1> SUFFICES ASSUME Init PROVE IInv
  OBVIOUS
<1>1. keep_running \in BOOLEAN
  BY Zenon DEF Init
<1> QED
  BY <1>1, BoundsAssumption
  DEF Init, IInv, StateInv, StateOK, OneCompletionEach, WorkerInv, CacheInv, ParserSound

(* Only Quit touches the event that keeps the loop going.                   *)
LEMMA StepFlag ==
  ASSUME IInv, [Next]_vars PROVE keep_running' \in BOOLEAN
<1>1. keep_running \in BOOLEAN
  BY DEF IInv
<1>2. CASE Quit
  BY <1>2, Zenon DEF Quit
<1>3. CASE UNCHANGED keep_running
  BY <1>1, <1>3, Zenon
<1> QED
  BY <1>2, <1>3
  DEF Next, Server, IdleCalls, HandleCommand, NoCommand, UpdateCache, UpdateCacheFails,
      ParserHangs, RefuseCommand, StartBuild, MethodRuns, RunCommandsCalled, FinishInMethod, BuildRaises,
      BuildGoesOn, BuildEnds, BuildCalled, TurnEnds, LeaveLoop, Down, vars

(* A command arrives.                                                       *)
LEMMA HandleCommandInv ==
  ASSUME IInv, NEW c \in Commands, HandleCommand(c) PROVE StateInv'
<1> USE BoundsAssumption DEF IInv, StateInv, StateOK, HandleCommand, parserVars, cacheVars
<1>1. CASE c \in SyncCommands /\ SyncEffect(c) /\ UNCHANGED << current, accepted, idle >>
  BY <1>1 DEF SyncEffect, SyncCommands, OneCompletionEach, WorkerInv, CacheInv
<1>2. CASE c \in AsyncCommands /\ Accept(c) /\ UNCHANGED state
  <2>1. c # "none"
    BY <1>2 DEF AsyncCommands, BuildCommands
  <2>2. CASE current = "none"
    <3>1. idle = {}
      BY <2>2 DEF WorkerInv, AsyncCommands, BuildCommands
    <3>2. idle' = {"runCommands"} /\ to_call' = {"runCommands"}
      BY <1>2, <2>2, <3>1 DEF Accept
    <3>3. current' = c /\ accepted' = accepted + 1 /\ requests' = requests + 1
      BY <1>2, <2>2 DEF Accept
    <3>4. StateOK' /\ accepted' <= requests'
      BY <1>2, <3>2, <3>3
    <3>5. OneCompletionEach'
      BY <2>1, <2>2, <3>3 DEF OneCompletionEach
    <3>6. WorkerInv' /\ CacheInv'
      BY <1>2, <2>1, <3>2, <3>3 DEF WorkerInv, CacheInv
    <3> QED
      BY <3>4, <3>5, <3>6
  <2>3. CASE current # "none"
    BY <1>2, <2>3 DEF Accept, OneCompletionEach, WorkerInv, CacheInv
  <2> QED
    BY <2>2, <2>3
<1> QED
  BY <1>1, <1>2

(* runCommands is called: there is a command in progress, and no build.     *)
LEMMA RunCommandsHasCommand ==
  ASSUME IInv, RunCommandsCalled
  PROVE  current # "none" /\ idle = {"runCommands"} /\ to_call' = {}
BY DEF IInv, StateInv, WorkerInv, RunCommandsCalled, Called

(* The build's idle function is called.                                     *)
LEMMA BuildHasCommand ==
  ASSUME IInv, BuildCalled
  PROVE  current \in BuildCommands /\ idle = {"build"} /\ rq # "none" /\ to_call' = {}
BY DEF IInv, StateInv, WorkerInv, BuildCalled, Called

(* A parser before parse_next is called on it, as its fields are typed.     *)
ParserOK(p) ==
  /\ p.pool \in {"none", "open", "done", "terminated"}
  /\ p.total \in 0 .. MaxFiles /\ p.left \in 0 .. p.total
  /\ p.failed \subseteq 1 .. p.total /\ p.status \subseteq 0 .. MaxFiles
  /\ p.owner \in {"none", "parser"}
  /\ ParserSound(p.total, p.left, p.failed, p.status, p.owner)

Fields == {"pool", "total", "left", "failed", "status", "owner"}

(* The parser of the initial state, or the one that is there, is sound.     *)
LEMMA ParsersSound ==
  ASSUME IInv, NEW p \in Parsers
  PROVE  ParserOK(p) /\ p = [x \in Fields |-> p[x]]
<1>1. CASE state = "initial"
  <2>1. PICK n \in 0 .. MaxFiles : p = NewParser(n)
    BY <1>1 DEF Parsers
  <2> QED
    BY <2>1, BoundsAssumption DEF NewParser, ParserOK, ParserSound, Fields
<1>2. CASE state # "initial"
  BY <1>2 DEF Parsers, ParserOK, Fields, IInv, StateInv, StateOK, CacheInv
<1> QED
  BY <1>1, <1>2

(* The next recipe of such a parser goes into the cache.                    *)
LEMMA AddedSound ==
  ASSUME NEW p, ParserOK(p), p = [x \in Fields |-> p[x]], p.left > 0
  PROVE  ParserOK(Added(p))
<1> DEFINE q == Added(p)
<1>1. /\ q.pool = p.pool /\ q.total = p.total /\ q.left = p.left - 1
      /\ q.failed = p.failed /\ q.owner = p.owner
      /\ q.status = p.status \cup {p.total - p.left + 1}
  BY BoundsAssumption DEF Added, Returned, ParserOK, Fields
<1>2. /\ p.total \in Nat /\ p.left \in Nat /\ p.left <= p.total /\ p.total <= MaxFiles
  BY BoundsAssumption DEF ParserOK
<1>3. /\ p.failed \subseteq 1 .. (p.total - p.left)
      /\ p.owner = "parser" => p.status = (1 .. (p.total - p.left)) \ p.failed
  BY DEF ParserOK, ParserSound
<1>4. q.failed \subseteq 1 .. (q.total - q.left)
  BY <1>1, <1>2, <1>3
<1>5. ASSUME p.owner = "parser" PROVE q.status = (1 .. (q.total - q.left)) \ q.failed
  BY <1>1, <1>2, <1>3, <1>5
<1>6. q.status \subseteq 0 .. MaxFiles
  <2>1. p.status \subseteq 0 .. MaxFiles /\ p.total - p.left + 1 \in 0 .. MaxFiles
    BY <1>2, BoundsAssumption DEF ParserOK
  <2> HIDE DEF q
  <2> QED
    BY <1>1, <2>1
<1>7. q.left \in 0 .. q.total /\ q.total \in 0 .. MaxFiles
  BY <1>1, <1>2, BoundsAssumption
<1>8. ParserOK(q)
  <2> HIDE DEF q
  <2> QED
    BY <1>1, <1>4, <1>5, <1>6, <1>7 DEF ParserOK, ParserSound
<1> QED
  BY <1>8

(* The next recipe fails, and with it some of those after it.               *)
LEMMA FailuresSound ==
  ASSUME NEW p, ParserOK(p), p = [x \in Fields |-> p[x]], NEW q \in Failures(p)
  PROVE  ParserOK(q)
<1>1. PICK m \in 0 .. p.left - 1, b \in {p.pool, "terminated"} :
        q = Failed(p, m, b)
  BY DEF Failures
<1>2. /\ q.pool = b /\ q.total = p.total /\ q.left = m
      /\ q.status = p.status /\ q.owner = p.owner
      /\ q.failed = p.failed \cup Returned(p.total, p.left, m)
  BY <1>1 DEF Failed, Fields
<1>3. /\ p.total \in Nat /\ p.left \in Nat /\ p.left <= p.total
      /\ m \in Nat /\ m < p.left
  BY BoundsAssumption DEF ParserOK
<1>4. /\ p.failed \subseteq 1 .. (p.total - p.left)
      /\ p.owner = "parser" => p.status = (1 .. (p.total - p.left)) \ p.failed
  BY DEF ParserOK, ParserSound
<1>5. q.failed \subseteq 1 .. (q.total - q.left)
  BY <1>2, <1>3, <1>4 DEF Returned
<1>6. ASSUME p.owner = "parser" PROVE q.status = (1 .. (q.total - q.left)) \ q.failed
  BY <1>2, <1>3, <1>4, <1>6 DEF Returned
<1>7. q.failed \subseteq 1 .. q.total /\ q.left \in 0 .. q.total
  BY <1>2, <1>3, <1>5
<1> QED
  BY <1>2, <1>5, <1>6, <1>7 DEF ParserOK, ParserSound

(* A parser that has none left shuts down.                                  *)
LEMMA DoneSound ==
  ASSUME NEW p, ParserOK(p), p = [x \in Fields |-> p[x]]
  PROVE  ParserOK([p EXCEPT !.pool = "done"]) /\ [p EXCEPT !.pool = "done"].left = p.left
BY DEF ParserOK, Fields

(* runCommands takes a step with the command it has.                        *)
LEMMA RunCommandsInv ==
  ASSUME IInv,
         \/ UpdateCache \/ UpdateCacheFails \/ ParserHangs
         \/ RefuseCommand \/ StartBuild \/ FinishInMethod
  PROVE  StateInv'
<1> USE BoundsAssumption
    DEF IInv, StateInv, StateOK, RunCommandsCalled, Called, parserVars, cacheVars, countVars,
        commandVars
<1>1. CASE UpdateCache
  <2>1. current # "none" /\ idle = {"runCommands"} /\ to_call' = {}
    BY <1>1, RunCommandsHasCommand DEF UpdateCache
  <2>2. PICK p \in Parsers :
          \/ p.left > 0 /\ BecomesParser(Added(p)) /\ state' = "parsing"
          \/ p.left = 0 /\ BecomesParser([p EXCEPT !.pool = "done"]) /\ state' = "running"
    BY <1>1 DEF UpdateCache
  <2>3. ParserOK(p) /\ p = [x \in Fields |-> p[x]]
    BY ParsersSound
  <2>4. PICK q : ParserOK(q) /\ BecomesParser(q)
                 /\ state' \in {"parsing", "running"} /\ (state' = "running" => q.left = 0)
    BY <2>2, <2>3, AddedSound, DoneSound
  <2>5. UNCHANGED << pc, current, finished, result, idle, rq, requests, accepted >>
    BY <1>1 DEF UpdateCache
  <2> QED
    BY <2>1, <2>4, <2>5
    DEF BecomesParser, ParserOK, OneCompletionEach, WorkerInv, CacheInv
<1>2. CASE UpdateCacheFails
  <2>1. current # "none" /\ idle = {"runCommands"} /\ to_call' = {}
    BY <1>2, RunCommandsHasCommand DEF UpdateCacheFails
  <2>2. current' = "none" /\ finished' = finished + 1 /\ result' = "failed" /\ idle' = {}
    BY <1>2, <2>1 DEF UpdateCacheFails, FinishAsyncCommand
  <2>3. UNCHANGED << pc, requests, accepted, rq >>
    BY <1>2 DEF UpdateCacheFails
  <2>4. CASE /\ state = "initial" /\ status' \in {status, {}} /\ owner' = "none"
             /\ UNCHANGED << state, parserVars >>
    BY <2>1, <2>2, <2>3, <2>4 DEF OneCompletionEach, WorkerInv, CacheInv, ParserSound
  <2>5. CASE \E p \in Parsers :
               /\ \/ \E f \in Failures(p) : BecomesParser(f)
                  \/ p.left = 0 /\ BecomesParser([p EXCEPT !.pool = "done"])
               /\ state' = "parsing"
    <3>1. PICK p \in Parsers :
               /\ \/ \E f \in Failures(p) : BecomesParser(f)
                  \/ p.left = 0 /\ BecomesParser([p EXCEPT !.pool = "done"])
               /\ state' = "parsing"
      BY <2>5
    <3>2. ParserOK(p) /\ p = [x \in Fields |-> p[x]]
      BY ParsersSound
    <3>3. PICK q : ParserOK(q) /\ BecomesParser(q) /\ state' = "parsing"
      BY <3>1, <3>2, FailuresSound, DoneSound
    <3> QED
      BY <2>1, <2>2, <2>3, <3>3
      DEF BecomesParser, ParserOK, OneCompletionEach, WorkerInv, CacheInv
  <2> QED
    BY <1>2, <2>4, <2>5 DEF UpdateCacheFails
<1>3. CASE ParserHangs
  BY <1>3, RunCommandsHasCommand
  DEF ParserHangs, OneCompletionEach, WorkerInv, CacheInv, ParserSound
<1>4. CASE RefuseCommand
  BY <1>4, RunCommandsHasCommand
  DEF RefuseCommand, FinishAsyncCommand, OneCompletionEach, WorkerInv, CacheInv, Stopping
<1>5. CASE StartBuild
  <2>1. current # "none" /\ idle = {"runCommands"} /\ to_call' = {}
    BY <1>5, RunCommandsHasCommand DEF StartBuild, MethodRuns
  <2>2. current \in BuildCommands /\ rq' = "new" /\ idle' = {"build"}
    BY <1>5, <2>1 DEF StartBuild
  <2>3. UNCHANGED << pc, state, pool, total, left, failed, requests, accepted,
                     current, finished, result >>
    BY <1>5 DEF StartBuild, MethodRuns
  <2>4. \/ UNCHANGED << status, owner >>
        \/ status' = {0} /\ owner' = "none"
    BY <1>5 DEF StartBuild
  <2>5. /\ status' \subseteq 0 .. MaxFiles /\ owner' \in {"none", "parser"}
        /\ owner' = "parser" => owner = "parser" /\ status' = status
    <3>1. CASE UNCHANGED << status, owner >>
      BY <3>1
    <3>2. CASE status' = {0} /\ owner' = "none"
      <4>1. 0 \in 0 .. MaxFiles
        OBVIOUS
      <4> QED
        BY <3>2, <4>1
    <3> QED
      BY <2>4, <3>1, <3>2
  <2>6. StateOK' /\ accepted' <= requests'
    BY <2>1, <2>2, <2>3, <2>5
  <2>7. CacheInv'
    BY <2>3, <2>5 DEF CacheInv, ParserSound
  <2> QED
    BY <2>1, <2>2, <2>3, <2>6, <2>7 DEF OneCompletionEach, WorkerInv
<1>6. CASE FinishInMethod
  <2>1. current # "none" /\ idle = {"runCommands"} /\ to_call' = {}
    BY <1>6, RunCommandsHasCommand DEF FinishInMethod, MethodRuns
  <2>2. /\ current' = "none" /\ finished' = finished + 1 /\ idle' = {}
        /\ result' \in {"completed", "failed", "exit"}
    BY <1>6, <2>1 DEF FinishInMethod, FinishAsyncCommand
  <2>3. UNCHANGED << pc, state, pool, total, left, failed, requests, accepted, rq >>
    BY <1>6 DEF FinishInMethod, MethodRuns
  <2>4. \/ UNCHANGED << status, owner >>
        \/ status' \in {{}, {0}} /\ owner' = "none"
    BY <1>6 DEF FinishInMethod
  <2>5. /\ status' \subseteq 0 .. MaxFiles /\ owner' \in {"none", "parser"}
        /\ owner' = "parser" => owner = "parser" /\ status' = status
    <3>1. CASE UNCHANGED << status, owner >>
      BY <3>1
    <3>2. CASE status' \in {{}, {0}} /\ owner' = "none"
      <4>1. 0 \in 0 .. MaxFiles
        OBVIOUS
      <4> QED
        BY <3>2, <4>1
    <3> QED
      BY <2>4, <3>1, <3>2
  <2>6. StateOK' /\ accepted' <= requests'
    BY <2>1, <2>2, <2>3, <2>5
  <2>7. CacheInv'
    BY <2>3, <2>5 DEF CacheInv, ParserSound
  <2> QED
    BY <2>1, <2>2, <2>3, <2>6, <2>7 DEF OneCompletionEach, WorkerInv
<1> QED
  BY <1>1, <1>2, <1>3, <1>4, <1>5, <1>6

(* The build's idle function takes a step.                                  *)
LEMMA BuildInv ==
  ASSUME IInv, BuildRaises \/ BuildGoesOn \/ BuildEnds
  PROVE  StateInv'
<1> USE DEF IInv, StateInv, StateOK, BuildCalled, Called, parserVars, cacheVars, countVars,
        commandVars
<1>1. CASE BuildRaises
  BY <1>1, BuildHasCommand DEF BuildRaises, OneCompletionEach, WorkerInv, CacheInv
<1>2. CASE BuildGoesOn
  BY <1>2, BuildHasCommand DEF BuildGoesOn, OneCompletionEach, WorkerInv, CacheInv
<1>3. CASE BuildEnds
  <2>1. current # "none"
    BY <1>3, BuildHasCommand DEF BuildEnds, BuildCommands
  <2> QED
    BY <1>3, <2>1, BuildHasCommand
    DEF BuildEnds, FinishAsyncCommand, OneCompletionEach, WorkerInv, CacheInv
<1> QED
  BY <1>1, <1>2, <1>3

(* The loop and its surroundings touch neither the command nor the parser.  *)
LEMMA LoopInv ==
  ASSUME IInv,
         NoCommand \/ TurnEnds \/ LeaveLoop \/ Quit \/ Down \/ UNCHANGED vars
  PROVE  StateInv'
<1> USE DEF IInv, StateInv, StateOK, vars, parserVars, cacheVars, countVars, commandVars,
        OneCompletionEach, WorkerInv, CacheInv
<1>1. CASE NoCommand \/ TurnEnds \/ LeaveLoop
  <2>1. UNCHANGED << current, finished, result, idle, pool, total, left, failed, status,
                     owner, rq, requests, accepted >>
    BY <1>1, Zenon DEF NoCommand, TurnEnds, LeaveLoop
  <2>2. state' \in {state, "stop"} /\ pc' \in {"idle", "leaving", "loop", "down"}
    BY <1>1 DEF NoCommand, TurnEnds, LeaveLoop
  <2>3. to_call' \in {idle, to_call}
    BY <1>1, Zenon DEF NoCommand, TurnEnds, LeaveLoop
  <2> QED
    BY <2>1, <2>2, <2>3
<1>2. CASE Quit \/ Down \/ UNCHANGED vars
  <2>1. UNCHANGED << state, current, finished, result, idle, to_call, pc, pool, total, left,
                     failed, status, owner, rq, requests, accepted >>
    BY <1>2, Zenon DEF Quit, Down
  <2> QED
    BY <2>1
<1> QED
  BY <1>1, <1>2

(* The invariant is inductive.                                              *)
LEMMA StepInv == IInv /\ [Next]_vars => IInv'
<1> SUFFICES ASSUME IInv, [Next]_vars PROVE IInv'
  OBVIOUS
<1>1. keep_running' \in BOOLEAN
  BY StepFlag
<1>2. StateInv'
  BY HandleCommandInv, RunCommandsInv, BuildInv, LoopInv DEF Next, Server, IdleCalls
<1> QED
  BY <1>1, <1>2 DEF IInv, StateInv

(* The inductive invariant holds in every reachable state.                  *)
THEOREM CookerInvariance == Spec => []IInv
BY InitInv, StepInv, PTL DEF Spec

(* The type invariant.                                                      *)
THEOREM CookerTypeCorrect == Spec => []TypeOK
<1>1. IInv => TypeOK
  BY DEF IInv, StateInv, TypeOK
<1> QED
  BY <1>1, CookerInvariance, PTL

(* Every accepted asynchronous command is finished once: currentAsyncCommand *)
(* holds the one that is accepted and not finished.                         *)
THEOREM OneCompletionEachHolds == Spec => []OneCompletionEach
<1>1. IInv => OneCompletionEach
  BY DEF IInv, StateInv
<1> QED
  BY <1>1, CookerInvariance, PTL

(* Between two turns the command in progress is in the hands of one idle    *)
(* function.                                                                *)
THEOREM CommandHasWorkerHolds == Spec => []CommandHasWorker
<1>1. IInv => CommandHasWorker
  BY DEF IInv, StateInv, WorkerInv, CommandHasWorker
<1> QED
  BY <1>1, CookerInvariance, PTL

(* No command is lost, answered twice, or worked on by two functions.       *)
THEOREM CommandTrackedHolds == Spec => []CommandTracked
<1>1. OneCompletionEach /\ CommandHasWorker => CommandTracked
  BY DEF CommandTracked
<1> QED
  BY <1>1, OneCompletionEachHolds, CommandHasWorkerHolds, PTL

(* A build of targets starts when every recipe was returned, and only those *)
(* that failed are missing, unless another command replaced the cache.      *)
THEOREM BuildMissesOnlyFailedHolds == Spec => BuildMissesOnlyFailed
<1> DEFINE Misses == left = 0 /\ ~Stopping
                     /\ (owner = "parser" => status = (1 .. total) \ failed)
<1>1. IInv /\ [Next]_vars => [TargetsStart => Misses]_vars
  <2> SUFFICES ASSUME IInv, Next, TargetsStart PROVE Misses
    BY DEF vars
  <2> USE DEF TargetsStart
  <2>1. CASE StartBuild
    <3>1. ~Stopping /\ state = "running"
      BY <2>1 DEF StartBuild, MethodRuns, MustParse, Stopping, IInv, StateInv, StateOK,
         CallsUpdateCache, NeedCache
    <3> QED
      BY <3>1 DEF IInv, StateInv, StateOK, CacheInv, ParserSound
  <2>2. CASE BuildGoesOn \/ BuildEnds \/ BuildRaises
    BY <2>2, BuildHasCommand DEF BuildGoesOn, BuildEnds, BuildRaises
  <2>3. rq' = rq \/ StartBuild \/ BuildGoesOn \/ BuildEnds \/ BuildRaises
    BY DEF Next, Server, IdleCalls, HandleCommand, NoCommand, UpdateCache, UpdateCacheFails,
       ParserHangs, RefuseCommand, FinishInMethod, TurnEnds, LeaveLoop, Quit, Down, vars
  <2> QED
    BY <2>1, <2>2, <2>3
<1> QED
  BY <1>1, CookerInvariance, PTL DEF Spec, BuildMissesOnlyFailed
=============================================================================
