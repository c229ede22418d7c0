------------------------------- MODULE BtRunner -------------------------------
(***************************************************************************)
(* The process that runs one behaviour tree (trainit_run_bt_node.cpp): its *)
(* start-up checks, the tick loop, the stop request a shutdown sends while *)
(* the tree runs, and the exit code.                                       *)
(*                                                                         *)
(* Two threads: main, and the signal handler's, which runs the context's   *)
(* pre-shutdown callbacks before the context goes down.  The executor's    *)
(* spinner only matters by being joined.  What a tick does is abstract: it *)
(* may start motions, latch an end-effector FAULT, throw, or return.       *)
(***************************************************************************)
EXTENDS Naturals

CONSTANT MaxMotions       \* bound: the motions of a run

ASSUME RunnerAssumption == MaxMotions \in Nat \ {0}

VARIABLES
  canonical,    \* the project has an eef block
  pc,           \* where main is
  refused,      \* the start-up step that refused the configuration
  spinner,      \* the executor thread: none, running (joinable), joined
  status,       \* the tree's status, or "threw"
  latched,      \* an end-effector FAULT was latched
  motions,      \* the motions started; main is blocked in the last one in "motion"
  executing,    \* ... and move_group executes its trajectory
  stopped,      \* the newest motion a stop event reached while it executed
  registered,   \* StopOnShutdown's callback is in the context's list
  armed,        \* StopOnShutdown::State::armed
  mutex,        \* the holder of StopOnShutdown::State::m
  sig,          \* where the signal handler's thread is
  ctx,          \* the context: valid, stopping (pre-shutdown callbacks), down
  atRequest,    \* the motion that executed when the shutdown was requested
  exit          \* how the process ended

mainVars   == <<pc, refused, spinner, status, latched>>
motionVars == <<motions, executing, stopped>>
stopVars   == <<registered, armed, mutex>>
sigVars    == <<sig, ctx, atRequest>>
vars == <<canonical, mainVars, motionVars, stopVars, sigVars, exit>>

\* Start-up, in order: what follows each step once it passes.
Follows ==
  [parameters |-> "contract", contract |-> "paths", paths |-> "remaps",
   remaps |-> "moveit", moveit |-> "runtime", runtime |-> "profiles",
   profiles |-> "tree", tree |-> "check_tree", check_tree |-> "writers",
   writers |-> "arm"]

StartUp == DOMAIN Follows

\* Where StopOnShutdown is alive, and with it the runtime it stops.
TreeRuns == {"loop", "tick", "motion", "unwind", "disarm"}

TypeOK ==
  /\ canonical \in BOOLEAN
  /\ pc \in StartUp \cup TreeRuns \cup {"arm", "caught", "finish", "exited"}
  /\ refused \in StartUp \cup {"none"}
  /\ spinner \in {"none", "running", "joined"}
  /\ status \in {"RUNNING", "SUCCESS", "FAILURE", "threw"}
  /\ latched \in BOOLEAN /\ executing \in BOOLEAN
  /\ motions \in 0..MaxMotions /\ stopped \in 0..MaxMotions /\ atRequest \in 0..MaxMotions
  /\ registered \in BOOLEAN /\ armed \in BOOLEAN
  /\ mutex \in {"free", "signal"}
  /\ sig \in {"idle", "called", "locked", "stopping", "unlock", "shutdown", "done"}
  /\ ctx \in {"valid", "stopping", "down"}
  /\ exit \in {"none", "0", "1", "2", "3", "terminate"}

Init ==
  /\ canonical \in BOOLEAN
  /\ pc = "parameters" /\ refused = "none"
  /\ spinner = "none" /\ status = "RUNNING" /\ latched = FALSE
  /\ motions = 0 /\ executing = FALSE /\ stopped = 0
  /\ registered = FALSE /\ armed = FALSE /\ mutex = "free"
  /\ sig = "idle" /\ ctx = "valid" /\ atRequest = 0
  /\ exit = "none"

-----------------------------------------------------------------------------
(* main                                                                    *)

\* rclcpp::shutdown(); return code;  A joinable std::thread that goes out of
\* scope ends the process (std::terminate).
Return(code) ==
  /\ pc' = "exited" /\ ctx' = "down"
  /\ exit' = IF spinner = "running" THEN "terminate" ELSE code
  /\ UNCHANGED <<spinner, sig, atRequest>>

\* exec.cancel(); spinner.join(); then Return.
JoinAndReturn(code) ==
  /\ pc' = "exited" /\ ctx' = "down" /\ spinner' = "joined"
  /\ exit' = code
  /\ UNCHANGED <<sig, atRequest>>

\* A step that passes; the spinner is started once MoveIt is there, before the
\* runtime is built.  A run without an eef block skips the contract's checks.
StepPasses ==
  /\ pc \in StartUp
  /\ pc = "runtime" => ctx # "down"
  /\ pc' = Follows[pc]
  /\ spinner' = IF pc = "moveit" THEN "running" ELSE spinner
  /\ UNCHANGED <<canonical, refused, status, latched, motionVars, stopVars, sigVars, exit>>

\* A configuration error, MoveIt not served at the bound included.
StepRefuses ==
  /\ pc \in StartUp \ {"runtime"}
  /\ pc \in {"check_tree", "writers"} => canonical
  /\ refused' = pc
  /\ IF pc \in {"tree", "check_tree", "writers"} THEN JoinAndReturn("2") ELSE Return("2")
  /\ UNCHANGED <<canonical, status, latched, motionVars, stopVars>>

\* Ctrl-C during the MoveIt wait.
WaitInterrupted ==
  /\ pc = "moveit" /\ ctx = "down"
  /\ Return("1")
  /\ UNCHANGED <<canonical, refused, status, latched, motionVars, stopVars>>

\* The runtime's constructor throws when the context is down, out of main.
RuntimeThrows ==
  /\ pc = "runtime" /\ ctx = "down"
  /\ pc' = "exited" /\ exit' = "terminate"
  /\ UNCHANGED <<canonical, refused, spinner, status, latched, motionVars, stopVars, sigVars>>

\* StopOnShutdown's constructor: a context that is past its callbacks ignores it.
Arm ==
  /\ pc = "arm"
  /\ registered' = TRUE /\ armed' = TRUE
  /\ pc' = "loop"
  /\ UNCHANGED <<canonical, refused, spinner, status, latched, motionVars, mutex, sigVars, exit>>

\* Mutant of Loop: the loop does not look at the context.
LoopIgnoresContext ==
  /\ pc = "loop"
  /\ pc' = IF status = "RUNNING" THEN "tick" ELSE "unwind"
  /\ UNCHANGED <<canonical, refused, spinner, status, latched, motionVars, stopVars,
                 sigVars, exit>>

\* while (rclcpp::ok() && status == RUNNING)
Loop ==
  /\ pc = "loop"
  /\ pc' = IF ctx # "down" /\ status = "RUNNING" THEN "tick" ELSE "unwind"
  /\ UNCHANGED <<canonical, refused, spinner, status, latched, motionVars, stopVars,
                 sigVars, exit>>

TickReturns ==
  /\ pc = "tick"
  /\ status' \in {"RUNNING", "SUCCESS", "FAILURE"}
  /\ pc' = "loop"
  /\ UNCHANGED <<canonical, refused, spinner, latched, motionVars, stopVars, sigVars, exit>>

\* A node throws: the stack unwinds through StopOnShutdown.
TickThrows ==
  /\ pc = "tick"
  /\ status' = "threw" /\ pc' = "unwind"
  /\ UNCHANGED <<canonical, refused, spinner, latched, motionVars, stopVars, sigVars, exit>>

\* An end-effector node fails with a FAULT, which the tree may absorb.
LatchFault ==
  /\ pc = "tick" /\ canonical /\ ~latched
  /\ latched' = TRUE
  /\ UNCHANGED <<canonical, pc, refused, spinner, status, motionVars, stopVars, sigVars, exit>>

\* A motion node plans, then executes, and blocks the tick until it has ended.
BeginMotion ==
  /\ pc = "tick" /\ motions < MaxMotions
  /\ motions' = motions + 1
  /\ pc' = "motion"
  /\ UNCHANGED <<canonical, refused, spinner, status, latched, executing, stopped,
                 stopVars, sigVars, exit>>

\* ~StopOnShutdown: remove the callback, then disarm it under its mutex.
Unwind ==
  /\ pc = "unwind"
  /\ registered' = FALSE
  /\ pc' = "disarm"
  /\ UNCHANGED <<canonical, refused, spinner, status, latched, motionVars, armed, mutex,
                 sigVars, exit>>

\* Mutant of Disarm: the callback is disarmed without its mutex.
DisarmUnlocked ==
  /\ pc = "disarm"
  /\ armed' = FALSE
  /\ pc' = IF status = "threw" THEN "caught" ELSE "finish"
  /\ UNCHANGED <<canonical, refused, spinner, status, latched, motionVars, registered,
                 mutex, sigVars, exit>>

Disarm ==
  /\ pc = "disarm" /\ mutex = "free"
  /\ armed' = FALSE
  /\ pc' = IF status = "threw" THEN "caught" ELSE "finish"
  /\ UNCHANGED <<canonical, refused, spinner, status, latched, motionVars, registered,
                 mutex, sigVars, exit>>

\* A canonical run that threw is halted and fails; a LEGACY one ends the process.
Caught ==
  /\ pc = "caught"
  /\ IF canonical
       THEN status' = "FAILURE" /\ pc' = "finish" /\ UNCHANGED exit
       ELSE pc' = "exited" /\ exit' = "terminate" /\ UNCHANGED status
  /\ UNCHANGED <<canonical, refused, spinner, latched, motionVars, stopVars, sigVars>>

\* Mutant of Finish: the latch is not read.
FinishWithoutLatch ==
  /\ pc = "finish"
  /\ JoinAndReturn(IF status = "SUCCESS" THEN "0" ELSE "1")
  /\ UNCHANGED <<canonical, refused, status, latched, motionVars, stopVars>>

\* Mutant of Finish: the process returns the tree's status.
FinishWithStatus ==
  /\ pc = "finish"
  /\ JoinAndReturn(status)
  /\ UNCHANGED <<canonical, refused, status, latched, motionVars, stopVars>>

Finish ==
  /\ pc = "finish"
  /\ JoinAndReturn(IF status # "SUCCESS" THEN "1"
                   ELSE IF canonical /\ latched THEN "3" ELSE "0")
  /\ UNCHANGED <<canonical, refused, status, latched, motionVars, stopVars>>

MainStep ==
  \/ StepPasses \/ StepRefuses \/ WaitInterrupted \/ RuntimeThrows \/ Arm
  \/ Loop \/ TickReturns \/ TickThrows \/ LatchFault \/ BeginMotion
  \/ Unwind \/ Disarm \/ Caught \/ Finish

-----------------------------------------------------------------------------
(* The signal handler's thread: Context::shutdown and its callbacks.       *)

SigAt(from, to) == exit = "none" /\ sig = from /\ sig' = to

\* SIGINT, or any rclcpp::shutdown() of the context.
RequestShutdown ==
  /\ SigAt("idle", IF registered THEN "called" ELSE "shutdown")
  /\ ctx = "valid" /\ ctx' = "stopping"
  /\ atRequest' = IF executing THEN motions ELSE 0
  /\ UNCHANGED <<canonical, mainVars, motionVars, stopVars, exit>>

CallbackLocks ==
  /\ SigAt("called", "locked")
  /\ mutex = "free" /\ mutex' = "signal"
  /\ UNCHANGED <<canonical, mainVars, motionVars, registered, armed, ctx, atRequest, exit>>

\* if (!state->armed) return; state->armed = false;
CallbackChecks ==
  /\ SigAt("locked", IF armed THEN "stopping" ELSE "unlock")
  /\ armed' = FALSE
  /\ UNCHANGED <<canonical, mainVars, motionVars, registered, mutex, ctx, atRequest, exit>>

\* Mutant of CallbackStops: an on-shutdown callback, which can publish no more.
CallbackTooLate ==
  /\ SigAt("stopping", "unlock")
  /\ UNCHANGED <<canonical, mainVars, motionVars, stopVars, ctx, atRequest, exit>>

\* MotionRuntime::stop(): move_group's "stop" event, which stops what it executes.
CallbackStops ==
  /\ SigAt("stopping", "unlock")
  /\ stopped' = IF executing THEN motions ELSE stopped
  /\ UNCHANGED <<canonical, mainVars, motions, executing, stopVars, ctx, atRequest, exit>>

CallbackUnlocks ==
  /\ SigAt("unlock", "shutdown")
  /\ mutex' = "free"
  /\ UNCHANGED <<canonical, mainVars, motionVars, registered, armed, ctx, atRequest, exit>>

ContextDown ==
  /\ SigAt("shutdown", "done")
  /\ ctx' = "down"
  /\ UNCHANGED <<canonical, mainVars, motionVars, stopVars, atRequest, exit>>

SignalStep ==
  \/ CallbackLocks \/ CallbackChecks \/ CallbackStops \/ CallbackUnlocks \/ ContextDown

-----------------------------------------------------------------------------
(* move_group (external): a motion executes and ends.  Once the context is *)
(* down its end may never reach the tick.                                  *)

MotionExecutes ==
  /\ pc = "motion" /\ ~executing
  /\ executing' = TRUE
  /\ UNCHANGED <<canonical, mainVars, motions, stopped, stopVars, sigVars, exit>>

MotionEnds ==
  /\ pc = "motion"
  /\ executing' = FALSE
  /\ pc' = "tick"
  /\ UNCHANGED <<canonical, refused, spinner, status, latched, motions, stopped, stopVars,
                 sigVars, exit>>

Next == MainStep \/ RequestShutdown \/ SignalStep \/ MotionExecutes \/ MotionEnds

\* Both threads keep running; nothing is assumed of MoveIt, or of a signal.
Spec == Init /\ [][Next]_vars /\ WF_vars(MainStep) /\ WF_vars(SignalStep)

-----------------------------------------------------------------------------
(* Properties                                                              *)

\* A motion that executed when the shutdown was requested, and still does when
\* the context has gone down, has been sent the stop event.
MotionInFlightIsStopped ==
  ctx = "down" /\ pc = "motion" /\ executing /\ atRequest = motions => stopped = motions

\* The stop request never runs on a runtime that main has begun to tear down:
\* the destructor returns only once an invocation in flight has finished.
StopOnlyWhileTreeRuns == sig = "stopping" => pc \in TreeRuns

\* The exit code tells how the run ended: 0 only for a tree that succeeded with
\* no end-effector FAULT absorbed, 3 exactly for one that absorbed one, 2 only
\* for a configuration refused before anything moved.
ExitTellsOutcome ==
  /\ exit = "0" => status = "SUCCESS" /\ ~latched
  /\ exit = "3" <=> exit # "none" /\ status = "SUCCESS" /\ latched
  /\ exit = "2" => refused # "none" /\ motions = 0 /\ ~latched

\* Exit codes: "2 a configuration error before the first move".
ConfigurationErrorExits2 == refused # "none" => exit = "2"

\* A shutdown ends the process, whatever the callback and the destructor race
\* for, unless main is blocked in a motion (which the runner does not interrupt).
ShutdownEndsRun == (ctx = "down") ~> (exit # "none" \/ pc = "motion")

=============================================================================
