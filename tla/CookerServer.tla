---------------------------- MODULE CookerServer ----------------------------
(***************************************************************************)
(* The command side of the server: Command (bitbake/lib/bb/command.py),    *)
(* the state of BBCooker and the functions it registers with the server    *)
(* (cooker.py), and the loop that runs them (server/process.py).           *)
(*                                                                         *)
(* The server is one thread.  A turn of its loop takes at most one command *)
(* of the client and then calls a copy of the list of idle functions.  An  *)
(* asynchronous command is only noted when it arrives; runCommands, an     *)
(* idle function, parses recipes for it and then carries it out, and a     *)
(* build goes on as an idle function of its own.  The run queue is seen    *)
(* here from outside: SceneQueue and RunQueueTasks say what its calls do.  *)
(***************************************************************************)
EXTENDS Naturals, FiniteSets

CONSTANTS
  MaxRequests,  \* bound of this model: the commands a client sends
  MaxFiles      \* bound of this model: the recipes there are to parse

ASSUME BoundsAssumption == MaxRequests \in Nat /\ MaxFiles \in Nat

(* The asynchronous commands differ in whether they need parsed recipes,    *)
(* call updateCache themselves, replace the cache, and go on as a build;    *)
(* one is enough of each kind.                                              *)
BuildCommands    == {"buildTargets", "buildFile"}
AsyncCommands    == BuildCommands \cup
  {"parseFiles", "compareRevisions", "findConfigFilePath", "showEnvironment"}
ReplacesCache    == {"buildFile", "showEnvironment"}
NeedCache        == {"buildTargets", "parseFiles", "compareRevisions"}
CallsUpdateCache == {"buildTargets", "parseFiles"}
SyncCommands     == {"stateShutdown", "stateStop", "resetCooker", "getVariable"}
Commands         == AsyncCommands \cup SyncCommands

VARIABLES
  state,        \* BBCooker.state
  current,      \* Command.currentAsyncCommand, "none" for None
  idle,         \* the registered idle functions
  to_call,      \* those of the copied list still to be called in this turn
  pc,           \* where the server's thread is
  keep_running, \* the event that keeps the loop going
  pool,         \* the processes of BBCooker.parser: none, open, done, terminated
  total,        \* the recipes this parser has: 1 to total
  left,         \* those parse_next has not returned yet
  failed,       \* those it could not parse, or lost with one it could not
  status,       \* the recipes in BBCooker.status; 0 is buildFile's, without dependencies
  owner,        \* "parser" while status is the cache this parser was made with
  rq,           \* the build's run queue, as its idle function finds it
  requests,     \* the commands taken
  accepted,     \* the asynchronous commands accepted
  finished,     \* the times finishAsyncCommand was called
  result        \* the last event it fired

parserVars  == << pool, total, left, failed >>
cacheVars   == << status, owner >>
countVars   == << requests, accepted >>
commandVars == << current, finished, result >>
vars == << state, commandVars, idle, to_call, pc, keep_running, parserVars, cacheVars, rq,
           countVars >>

-----------------------------------------------------------------------------
(* Command.runCommand                                                       *)

Stopping == state \in {"shutdown", "stop"}

Accept_WhileBusy(c) ==  \* currentAsyncCommand not tested
  /\ current' = c /\ accepted' = accepted + 1
  /\ idle' = idle \cup {"runCommands"}

(* An asynchronous command is noted when none is in progress; the reply is  *)
(* "Busy" otherwise.                                                        *)
Accept(c) ==
  IF current = "none"
  THEN /\ current' = c /\ accepted' = accepted + 1
       /\ idle' = idle \cup {"runCommands"}
  ELSE UNCHANGED << current, accepted, idle >>

SyncEffect(c) ==
  state' = CASE c = "stateShutdown" -> "shutdown"
             [] c = "stateStop"     -> "stop"
             [] c = "resetCooker"   -> "initial"
             [] OTHER               -> state

HandleCommand(c) ==
  /\ pc = "loop" /\ keep_running
  /\ requests < MaxRequests
  /\ requests' = requests + 1
  /\ \/ c \in SyncCommands /\ SyncEffect(c) /\ UNCHANGED << current, accepted, idle >>
     \/ c \in AsyncCommands /\ Accept(c) /\ UNCHANGED state
  /\ pc' = "idle" /\ to_call' = idle'
  /\ UNCHANGED << keep_running, parserVars, cacheVars, rq, finished, result >>

NoCommand ==
  /\ pc = "loop" /\ keep_running
  /\ pc' = "idle" /\ to_call' = idle
  /\ UNCHANGED << state, commandVars, idle, keep_running, parserVars, cacheVars, rq, countVars >>

-----------------------------------------------------------------------------
(* Idle functions.  One that returns False is unregistered.                 *)

Called(f) == pc \in {"idle", "leaving"} /\ f \in to_call /\ to_call' = to_call \ {f}

FinishAsyncCommand_Kept(event) ==  \* currentAsyncCommand not cleared
  /\ finished' = finished + 1
  /\ result' = event
  /\ UNCHANGED current

FinishAsyncCommand(event) ==
  /\ current' = "none"
  /\ finished' = finished + 1
  /\ result' = event

MustParse == current \in NeedCache /\ state \in {"initial", "parsing"}

RunCommandsCalled == Called("runCommands") /\ UNCHANGED << keep_running, countVars >>

NewParser(n) ==
  [pool |-> "open", total |-> n, left |-> n, failed |-> {}, status |-> {}, owner |-> "parser"]

(* The parser parse_next is called on: of the initial state, a new one with *)
(* any number of recipes and an empty cache; else the one there is, which   *)
(* an earlier command may have left in the middle.                          *)
Parsers ==
  IF state = "initial"
  THEN { NewParser(n) : n \in 0 .. MaxFiles }
  ELSE { [pool |-> pool, total |-> total, left |-> left, failed |-> failed,
          status |-> status, owner |-> owner] }

(* The recipes the parser returns when it has l left of n, until m are.     *)
Returned(n, l, m) == (n - l + 1) .. (n - m)

BecomesParser(p) ==
  /\ pool' = p.pool /\ total' = p.total /\ left' = p.left /\ failed' = p.failed
  /\ status' = p.status /\ owner' = p.owner

(* parse_next returns a recipe, which is added to the cache.                *)
Added(p) ==
  [p EXCEPT !.left = @ - 1, !.status = @ \cup Returned(p.total, p.left, p.left - 1)]

(* A recipe raises.  The error ends the generator over the cached recipes,  *)
(* whose rest is lost; it leaves the pool as it is, or terminates it.       *)
Failed(p, m, q) ==
  [p EXCEPT !.left = m, !.failed = @ \cup Returned(p.total, p.left, m), !.pool = q]

Failures(p) == { Failed(p, m, q) : m \in 0 .. p.left - 1, q \in {p.pool, "terminated"} }

UpdateCache_PastEnd ==  \* StopIteration not noticed
  /\ RunCommandsCalled /\ MustParse
  /\ \E p \in Parsers : BecomesParser(Added(p)) /\ state' = "parsing"
  /\ UNCHANGED << pc, commandVars, idle, rq >>

UpdateCache_Blind ==  \* running after the first call
  /\ RunCommandsCalled /\ MustParse
  /\ \E p \in Parsers : BecomesParser(p) /\ state' = "running"
  /\ UNCHANGED << pc, commandVars, idle, rq >>

(* updateCache returns: a recipe is parsed, or there is none left and the   *)
(* parser shuts down.  runAsyncCommand asks to be called again.             *)
UpdateCache ==
  /\ RunCommandsCalled /\ MustParse
  /\ \E p \in Parsers :
       \/ p.left > 0 /\ BecomesParser(Added(p)) /\ state' = "parsing"
       \/ p.left = 0 /\ BecomesParser([p EXCEPT !.pool = "done"]) /\ state' = "running"
  /\ UNCHANGED << pc, commandVars, idle, rq >>

(* parseConfiguration exits or the parser cannot be made, with the old      *)
(* cache or an empty one; a recipe cannot be parsed; or buildDepgraph       *)
(* raises.  In the last two the state stays "parsing", and the next command *)
(* that needs recipes goes on behind the failure.                           *)
UpdateCacheFails ==
  /\ RunCommandsCalled /\ MustParse
  /\ \/ state = "initial" /\ status' \in {status, {}} /\ owner' = "none"
        /\ UNCHANGED << state, parserVars >>
     \/ \E p \in Parsers :
          /\ \/ \E f \in Failures(p) : BecomesParser(f)
             \/ p.left = 0 /\ BecomesParser([p EXCEPT !.pool = "done"])
          /\ state' = "parsing"
  /\ FinishAsyncCommand("failed")
  /\ idle' = idle \ {"runCommands"}
  /\ UNCHANGED << pc, rq >>

(* What a terminated pool has not delivered never comes: results.next()     *)
(* waits for ever, and with it the server's thread.                         *)
ParserHangs ==
  /\ RunCommandsCalled /\ MustParse
  /\ state = "parsing" /\ pool = "terminated" /\ left > 0
  /\ pc' = "blocked"
  /\ UNCHANGED << state, commandVars, idle, parserVars, cacheVars, rq >>

(* A command that calls updateCache while the cooker is told to stop shuts  *)
(* the parser down and exits; without a parser, that raises.                *)
RefuseCommand ==
  /\ RunCommandsCalled /\ ~MustParse
  /\ current \in CallsUpdateCache /\ Stopping
  /\ FinishAsyncCommand("failed")
  /\ idle' = idle \ {"runCommands"}
  /\ \/ UNCHANGED pool
     \/ pool # "none" /\ pool' = "terminated"
  /\ UNCHANGED << pc, state, total, left, failed, cacheVars, rq >>

MethodRuns ==
  /\ RunCommandsCalled /\ ~MustParse /\ ~(current \in CallsUpdateCache /\ Stopping)
  /\ UNCHANGED << pc, state, parserVars >>

(* buildTargets, buildFile: a run queue, in state Prepare, is registered.   *)
(* buildFile has put its recipe alone into a new cache before that.         *)
StartBuild ==
  /\ MethodRuns /\ current \in BuildCommands
  /\ \/ current \in ReplacesCache /\ status' = {0} /\ owner' = "none"
     \/ current \notin ReplacesCache /\ UNCHANGED cacheVars
  /\ rq' = "new"
  /\ idle' = (idle \ {"runCommands"}) \cup {"build"}
  /\ UNCHANGED commandVars

(* The other methods finish the command themselves, and any may raise, also *)
(* after it has replaced the cache.  showEnvironment has no use for a cache *)
(* without a file to show; with one it leaves an empty cache.               *)
FinishInMethod ==
  /\ MethodRuns
  /\ \/ FinishAsyncCommand("failed")
     \/ current \notin BuildCommands /\ FinishAsyncCommand("completed")
     \/ current = "compareRevisions" /\ FinishAsyncCommand("exit")
  /\ \/ current = "buildFile" /\ status' = {0} /\ owner' = "none"
     \/ current \in ReplacesCache /\ status' = {} /\ owner' = "none"
     \/ UNCHANGED cacheVars
  /\ idle' = idle \ {"runCommands"}
  /\ UNCHANGED rq

-----------------------------------------------------------------------------
(* buildTargetsIdle and buildFileIdle                                       *)

BuildCalled ==
  /\ Called("build")
  /\ UNCHANGED << state, pc, keep_running, parserVars, cacheVars, countVars >>

(* finish_runqueue on a run queue that has no executor yet raises           *)
(* AttributeError, which idle_commands logs; nothing else has changed.      *)
BuildRaises ==
  /\ BuildCalled
  /\ rq = "new" /\ Stopping
  /\ UNCHANGED << commandVars, idle, rq >>

(* The run queue is not finished yet.                                       *)
BuildGoesOn ==
  /\ BuildCalled
  /\ \/ rq = "new" /\ ~Stopping /\ rq' = "running"
     \/ rq = "running" /\ state # "shutdown" /\ rq' \in {"running", "cleanup"}
     \/ rq = "running" /\ state = "shutdown" /\ rq' = "cleanup"
     \/ rq = "cleanup" /\ rq' = "cleanup"
  /\ UNCHANGED << commandVars, idle >>

(* It is: complete, failed, or out of a fatal error, all of which fire      *)
(* CommandCompleted.                                                        *)
BuildEnds ==
  /\ BuildCalled
  /\ rq # "new" \/ ~Stopping
  /\ rq' = "none"
  /\ FinishAsyncCommand("completed")
  /\ idle' = idle \ {"build"}

-----------------------------------------------------------------------------
(* The loop                                                                 *)

TurnEnds ==
  /\ pc \in {"idle", "leaving"} /\ to_call = {}
  /\ pc' = IF pc = "idle" THEN "loop" ELSE "down"
  /\ UNCHANGED << state, commandVars, idle, to_call, keep_running, parserVars, cacheVars, rq,
                  countVars >>

(* The client is gone: the idle functions are called once more.             *)
LeaveLoop ==
  /\ pc = "loop" /\ ~keep_running
  /\ state' = "stop"
  /\ pc' = "leaving" /\ to_call' = idle
  /\ UNCHANGED << commandVars, idle, keep_running, parserVars, cacheVars, rq, countVars >>

Quit ==  \* BitBakeServerConnection.terminate
  /\ keep_running
  /\ keep_running' = FALSE
  /\ UNCHANGED << state, commandVars, idle, to_call, pc, parserVars, cacheVars, rq, countVars >>

Down == pc \in {"down", "blocked"} /\ UNCHANGED vars

Init ==
  /\ state = "initial" /\ current = "none"
  /\ idle = {} /\ to_call = {} /\ pc = "loop" /\ keep_running = TRUE
  /\ pool = "none" /\ total = 0 /\ left = 0 /\ failed = {}
  /\ status = {} /\ owner = "none"
  /\ rq = "none"
  /\ requests = 0 /\ accepted = 0 /\ finished = 0 /\ result = "none"

IdleCalls ==
  \/ UpdateCache \/ UpdateCacheFails \/ ParserHangs
  \/ RefuseCommand \/ StartBuild \/ FinishInMethod
  \/ BuildRaises \/ BuildGoesOn \/ BuildEnds

Server == NoCommand \/ IdleCalls \/ TurnEnds \/ LeaveLoop

Next ==
  \/ Server
  \/ \E c \in Commands : HandleCommand(c)
  \/ Quit \/ Down

Spec == Init /\ [][Next]_vars

(* The thread of the server goes on, and a run queue that is called often   *)
(* enough ends (Termination of RunQueueTasks, SceneEnds of SceneQueue).     *)
Fairness == WF_vars(Server) /\ SF_vars(BuildEnds)

FairSpec == Spec /\ Fairness

-----------------------------------------------------------------------------
(* Properties                                                               *)

StateOK ==
  /\ state \in {"initial", "parsing", "running", "shutdown", "stop"}
  /\ current \in AsyncCommands \cup {"none"}
  /\ idle \subseteq {"runCommands", "build"}
  /\ to_call \subseteq {"runCommands", "build"}
  /\ pc \in {"loop", "idle", "leaving", "down", "blocked"}
  /\ pool \in {"none", "open", "done", "terminated"}
  /\ total \in 0 .. MaxFiles /\ left \in 0 .. total
  /\ failed \subseteq 1 .. total /\ status \subseteq 0 .. MaxFiles
  /\ owner \in {"none", "parser"}
  /\ rq \in {"none", "new", "running", "cleanup"}
  /\ requests \in 0 .. MaxRequests
  /\ accepted \in 0 .. MaxRequests
  /\ finished \in Nat
  /\ result \in {"none", "completed", "failed", "exit"}

TypeOK == keep_running \in BOOLEAN /\ StateOK

(* Every accepted asynchronous command is answered by one event, and two    *)
(* are never in progress together: what is accepted is what is finished     *)
(* and the one in currentAsyncCommand.                                      *)
OneCompletionEach ==
  accepted = finished + (IF current = "none" THEN 0 ELSE 1)

(* Between two turns of the loop the command in progress is in the hands of *)
(* one idle function, and no idle function is registered without one: no    *)
(* command is forgotten, and none is worked on twice.                       *)
CommandHasWorker ==
  pc = "loop" =>
    \/ current = "none" /\ idle = {}
    \/ current # "none" /\ idle = {"runCommands"}
    \/ current \in BuildCommands /\ idle = {"build"} /\ rq # "none"

(* No command is lost, answered twice, or worked on by two functions.       *)
CommandTracked == OneCompletionEach /\ CommandHasWorker

TargetsStart == current = "buildTargets" /\ rq = "none" /\ rq' = "new"

(* "Need files parsed" (cooker.py, in buildTargets; buildFile "doesn't use  *)
(* the cache"): when no recipe has failed, a build of targets has all of    *)
(* them in its cache.                                                       *)
BuildOnParsedFiles ==
  [][ TargetsStart /\ failed = {} => 1 .. total \subseteq status ]_vars

(* Whatever resets, shutdowns and failed parses, continued ones included,   *)
(* came before it: when a build of targets starts, the parser has returned  *)
(* every recipe, and no recipe is missing from the cache but those whose    *)
(* parse failed, unless a buildFile or a showEnvironment has replaced it.   *)
BuildMissesOnlyFailed ==
  [][ TargetsStart =>
        left = 0 /\ ~Stopping /\ (owner = "parser" => status = (1 .. total) \ failed) ]_vars

(* A command in progress ends, unless the client quits, a stop or a         *)
(* shutdown reached its run queue before the first call, or it waits for    *)
(* recipes of a pool that an earlier failure has terminated.                *)
TooEarly == rq = "new" /\ Stopping

CommandEnds ==
  (current # "none") ~> (current = "none" \/ TooEarly \/ ~keep_running \/ pc = "blocked")

(* The server leaves its loop once its client has gone, unless it waits for *)
(* such a pool.                                                             *)
ServerLeaves == ~keep_running ~> pc \in {"down", "blocked"}

(* Neither a command nor, without its client, the server goes on for ever.  *)
Ends == CommandEnds /\ ServerLeaves

(* "Force the cooker to stop as quickly as possible" (hobeventhandler.py,   *)
(* of stateStop): a command in progress when stateStop arrives ends.        *)
StopEndsCommand ==
  (current # "none" /\ state = "stop")
    ~> (current = "none" \/ state # "stop" \/ ~keep_running)
=============================================================================
