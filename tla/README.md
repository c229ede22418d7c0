# TLA+ models of the TrainIt motion runtime

This directory specifies the control logic of `trainit_motion_runtime`: the C++
package that runs one behaviour tree (or one YAML task) against MoveIt, one or
more end effectors, a servo node, perception and a planning scene. The models are
read from the code under `src/src/` and `src/include/`; what the code talks to
(MoveIt, action servers, adapters, `rclcpp`) is modelled from how the code uses it
and is marked *external* in `PROJECT.json`.

Check a run with `tlc -config X.cfg MCX.tla`, a proof with `tlapm X_proofs.tla`.

## 1. Inventory

### 1.1 Components, their state and operations

| Component | State it keeps | Operations |
|---|---|---|
| `trainit_run_bt` (the runner) | the executor's spinner thread, the tree and its status, `StopOnShutdown` (armed flag, mutex, callback handle), exit code | start-up checks in order, tick loop every 10 ms, stop on shutdown, halt on an exception, exit 0/1/2/3 |
| `EndEffectorRegistry` / `EndEffectorDevice` | newest state sample per device (`Feed`), newest applied command per actuator (`sent_`), fault latch, the scene signal's publisher, per goal a `GoalWatch` | `grip`, `actuate`, `verifyGrasp`, `checkTree`, `checkStateWriters`; per device `command*`, `confirm`, `verify` |
| outcome table (`mapOutcome`), failure vocabulary | none | one pure function; reason classes and the FAULT rule |
| judge (`verify_grasp.cpp`) | none | one pure function from a sample and a reference to SUCCESS, WAIT or FAILURE |
| `MoveItMotionRuntime` | MoveGroupInterface, planner mode, scene manager, validator | `movePtp/Linear/Circular/CollisionFree`, `executeProcessSequence`, `executeCartesianProcess`, `stop`, `currentTipPose` |
| `PilzSequenceBackend`, `CartesianWaypointBackend` | an action client per call | one goal, with send and result timeouts and a cancel; one Cartesian plan and execution |
| `ServoTrack` (in `bt_nodes.cpp`) | the per-process registry of started servo nodes | arbitrate, start once, unpause, stream, zero and pause |
| `FollowPath`, `MoveWaypoint`, the legacy `Move*` nodes | none between ticks (each tick is one synchronous call) | a motion, or a path split into runs at its process events |
| perception nodes (`DetectObject`, `DetectCandidates`, …) | a feed per topic, shared for the process | trigger, wait for a result stamped after the trigger |
| `RunPolicy`, `SetReleasePolicy`, `ResetScene`, `SetAttachedCollisionCheck`, `CheckRobotState` | shared clients, publishers and feeds | one call or wait with a deadline |
| `scene_manager_node` | which objects it believes attached, their grasp offsets, world poses, forced objects, the gripper edge | grasp on CLOSE, release on OPEN, reset, re-assert on a timer |
| process controllers, legacy gripper, task runner | publishers; one blocking goal; none | sequential |
| parsers, path library, profiles, selectors, validator, IK search, candidates | constant after loading | pure functions |

### 1.2 How they interact

* One thread ticks the tree; every node is synchronous: a tick that runs a motion
  or a command blocks until it is over. Executor threads (two, plus one for each
  device) run the callbacks: state samples, goal responses, results, detections.
  They share with the tick thread only small locked slots (`Feed`, `GoalWatch`,
  `LatestFeed`) and futures.
* The signal handler's thread runs the context's pre-shutdown callbacks, among
  them the runner's stop request.
* Everything else is another process: `move_group` (actions and planning scene),
  action and service servers of the tool, its state adapter, `servo_node`,
  detectors, the scene manager (a node of this package, in its own process).

### 1.3 What is hard

* **Late answers.** Each wait has a deadline, and what was asked for may happen
  after it: a goal accepted after its send timeout, a service that applies a call
  whose answer was given up, a result that arrives while the cancel is being sent.
* **Who may cancel, and who still has to.** Two threads can see the same late
  goal; some goals must never be cancelled; a shutdown must hold the tool.
* **References.** A grasp verdict is only worth something if the observation was
  made after the command it is about, on one clock, by the device it was sent to.
* **One owner for a controller.** Servo and planned motions drive the same joints.
* **State mirrored in another process.** The scene manager's idea of what is
  attached against move_group's.
* **Shutdown** at any point of start-up, of a tick, or of the runner's teardown.

What makes each component correct is listed with its module below; the hazards,
each with its line and the properties that would catch it, are in `PROJECT.json`.

## 2. Plan

| | Module | Of | Abstract specification, composition | Status |
|---|---|---|---|---|
| 1 | `EndEffectorReason`, `ActuatorOutcome` | failure vocabulary, outcome table | used by 2, 3, 8 | done |
| 2 | `EndEffectorCommand` | one command on one actuator | extends 1 | done, proved |
| 3 | `VerifyGrasp` | the judge | extends 1 | done, proved |
| 4 | `BtRunner` | the runner's process | | done, proved |
| 5 | `MotionOwnership` | `ServoTrack`, Pilz sequence and planned motions on one controller | implements `ControllerOwnership` | done, proved |
| 6 | `SceneManager` | grasp, release, reset against move_group's scene | | done, proved |
| 7 | `MotionFailure`, `PathLibrary`, `MotionDoor`, `MotionNodes` | the motion nodes, what they ask of MoveIt and what their failures say | `MotionNodes` composes the other three | done, proved |
| 8 | `GraspVerification` | confirmation window and verify loop against an adapter | extends 3, composes it with a command's record and a lossy state topic | done, proved |
| 9 | `Capture` | triggered and plain detections, candidates, the waypoints made of them | | done, proved |
| 10 | process controllers' latched values, the task runner | | | not modelled |

The safety properties of every module above are proved (section 4); liveness is
model-checked. What is left to state and to prove is about the parts of section 5.

## 3. The modules

### 3.1 EndEffectorReason, ActuatorOutcome

The 31 reasons with their classes, and `mapOutcome` as a function from
(command, phase, answer) to done or a reason. Texts and tokens are left out.
`ClassOf` and `IsFault` decide what a tree may absorb and what the runner latches.

### 3.2 EndEffectorCommand

One actuator of one device, and the commands a tree sends it one after another
(`EndEffectorDevice::command` and what it calls; `finish`, `grip`, `actuate` of the
registry). Variables and code:

| Variable | Code |
|---|---|
| `pc`, `cur`, `op` | where the tick thread is in `commandSetBool/Gripper/Trajectory`, `confirm` |
| `ros2` | `oc.ros2_control`: no state publisher was visible before the send |
| `srv` | external: the goal at its server |
| `fut`, `cb` | the goal response's future, and whether its callback has run |
| `abandoned`, `cancelSent` | the atomics of `GoalWatch` |
| `cancels` | cancel requests sent for a goal |
| `res` | the result's future |
| `out`, `latched`, `sent`, `scene` | the `EefResult`, the fault latch, `recordSent`, the scene signal |
| `ctx` | `rclcpp::ok` |

Each wait of `waitReady` is three actions: ready, interrupted, timed out. The
callback and the tick thread's re-check are separate actions, as are the store to
`abandoned` and the re-check after it: this is where the threads race. A cancel is
one action with two outcomes, since `async_cancel_goal` throws when the client
knows that the goal has ended. The confirmation window is one step with the
outcomes `confirm` can return (its sample matching is `GraspVerification`'s).

Run `EndEffectorCommand.cfg`: two commands; three actuators (SetBool, a
GripperCommand that takes a stall for a success and may belong to a third party,
FollowJointTrajectory), with and without an adapter; three server answers (done,
aborted with a stall or a refused goal, cancelled); one refusal of a command and one
failure of the confirmation window stand for their kinds, since the command
treats every member of a kind alike. Two commands are enough for what is checked: the properties relate one goal's two
threads, or a command and the one before it, and a third command adds no actor.
Properties:

* `LateAcceptCancelled`: a goal accepted after its sender gave up is cancelled, by
  the callback or by the tick thread.
* `CancelsAsAllowed`: a goal is cancelled at most once, never when a shutdown interrupted
  its command (the tool holds), and never when it is a third party's GripperCommand.
* `NoUnattendedGoal`, `AppliedButUnrecordedIsLatched`, `SceneSignalShowsNewestDone`:
  what was applied is waited for, recorded or latched as a fault, and the scene
  signal follows the newest command that was done.
* `CommandEnds`.

Fairness: `WF_vars(TickStep)`. The tick thread runs and the steady clock advances,
so a wait that can time out does. Nothing is assumed of servers, the executor
or discovery: `CommandEnds` holds although none of them ever answers.

### 3.3 VerifyGrasp

The judge as operators on an input record: the reference rule (`Reflects`), the
clock check (`InFuture`), freshness (`Fresh`), `Observation`, `Reading` (one site),
and the three rules over sites. Sites are numbers, times are small integers, and
evidence classes are four of the six (the two simulation classes behave as
`sensor` does). The cascades of the code become a `Reading` per site and sets of
sites. `MCVerifyGrasp` enumerates inputs as initial states and one step that
moves the deadline: the state space is the input space.

Properties: a success or a verdict rests on an observation made after the
reference, within the age, of an accepted class (`DecisionRestsOnFreshObservation`);
a failure a tree may absorb hides no site that holds or is faulty
(`AbsorbedFailureHidesNoHolder`); a tool-level release means every site is empty
(`ReleasedMeansEmpty`); at the deadline the verdict is the one before it, or the
decision of a wait (`DeadlineOnlyDecides`). The observation's age limit is 2,
the clock tolerance 1 and the time of judging 4, so that there is a stamp on each
side of every comparison in the code.

### 3.4 BtRunner

`main` of `trainit_run_bt` and the signal handler's thread. The start-up steps are
a sequence (`Follows`); each refuses with exit code 2, passes, or, at MoveIt and
the runtime, is interrupted or throws. `StopOnShutdown` is modelled to its mutex,
its `armed` flag and the callback's registration; `RequestShutdown`, the
callback's four steps and `ContextDown` are the signal thread. A tick starts a motion,
latches a FAULT, throws or returns; a motion plans, executes and ends (external).

Properties: `MotionInFlightIsStopped`, `StopOnlyWhileTreeRuns`, `ExitTellsOutcome`,
`ShutdownEndsRun`. `MaxMotions` = 2: one motion the stop reaches and one after it.
Fairness: weak for main's own steps and for the signal thread's; none for MoveIt,
so a run blocked in a motion may stay there (the code does not interrupt it, and
the property says so).

`BtRunnerRefusal.cfg` shows a disagreement: the architecture document gives exit
code 2 to a configuration error before the first move, and so do the node's
own FATAL lines; the unknown-profile refusal returns while the spinner thread is
still joinable, and the process is terminated.

### 3.5 MotionOwnership, ControllerOwnership

Who drives the arm's trajectory controller. A run's motions come one after another on
three routes: *planned* (`planAndExecute`), *sequence* (`PilzSequenceBackend::run`)
and *servo* (`ServoTrack::tick`).

| Variable | Code |
|---|---|
| `pc`, `cur`, `route`, `result` | where the tick thread is, in which motion, what its node returned |
| `goal`, `known` | external: the motion's goal at move_group; whether its response or result is here |
| `marked` | `ServoStartRegistry` |
| `started`, `paused`, `asked`, `reply` | external: the servo node, the `Trigger` requests it has not handled, the answer waited for |
| `foreign`, `feed` | another client's trajectory, and the newest execution status the arbitration has seen |
| `givenUp` | history: the movers whose end the run has not established |
| `ctx` | `rclcpp::ok` |

A request to the servo node stays in `asked` after its caller gave up, so it may be
applied during a later motion; that is how late answers interfere. `ControllerOwnership`
is the promise seen from outside: whoever takes the controller finds nobody on it
but movers the run has given up. `MotionOwnership` implements it with
`holds <- Holders`, the movers that really drive.

Run `MotionOwnership.cfg`, two motions (83,348 states; every property relates
one motion to one before it, and three motions also pass, in 4 minutes):
`HandedBack` (between motions only given-up movers drive),
`SuccessLeavesNothingPending` (a `ServoTrack` that succeeded leaves no start or
unpause on its way), `ImplementsOwnership`, and `MotionEnds`: every tick ends or
waits for move_group in `plan()` or `execute()`, whose waits for its answer have no
bound (moveit_motion_runtime.cpp:312, :424). Fairness is `WF(BoundedStep)`, over the
steps the tick thread takes by itself or by a deadline: the return of `execute()`, and
the steps of a sequence and of a stream. Neither `PlanEnds` nor the end of the goal
`execute()` waits for is among them, so a `move_group` that never answers blocks the tick for
good in the model too. Two kinds of overlap are outside `ImplementsOwnership`: with a
mover the run has given up, and with another client's trajectory.

`MotionOwnershipExit.cfg` shows a disagreement: a comment says that `ServoTrack`
pauses servo "on EVERY exit path"; when the unpause is refused or not answered it
returns without a pause, and the servo node may be live.

### 3.6 SceneManager

`scene_manager_node` against move_group's scene.

| Variable | Code |
|---|---|
| `loaded`, `closed`, `flag`, `attached`, `offset`, `forced` | `initial_loaded_`, `gripper_closed_`, `collision_check_`, `attached_`, `grasp_offset_`, `forced_` |
| `pc`, `job`, `batch`, `acm`, `answer` | where the handler is in `applyScene` / `fetchAcm`, and its locals |
| `timer`, `reasserts`, `pulse` | `init_timer_`, `force_republish_hz > 0`, the reset topic's level |
| `world`, `held`, `matrix` | external: move_group's scene |
| `queue`, `diff`, `command` | apply requests, the re-asserted objects and the gripper command on their way |
| `doubt`, `acmDoubt` | history: what was changed in the scene and not confirmed |
| `ghosts` | history: objects that a re-assertion of before their grasp put back after it |

The callbacks are in one mutually exclusive group, so one handler runs at a time; the
interleaving is with move_group, which handles requests in order, late, in part
or not at all. Left out: poses; the matrix entries an earlier node process
left; `removeCollisionObjects` over its topic is taken before the load or is
lost. Objects are one attached as a box and one removed as a mesh: the two
branches of every loop. Four events (gripper commands, resets, flag calls) and two
requests outstanding give 212,637 states; one more event passes too.
Grasp, failed release, reset, grasp is four.

Properties: `ViewMatchesScene`, `HeldLeavesWorld`, `CheckFollowsFlag`,
`HandlerEnds` under `WF(HandlerStep)`. The first three say nothing of objects whose
change was not confirmed (`doubt`, `acmDoubt`). `LoadInitialScene` is one step up to its
first request and leaves out the constructor of `PlanningSceneInterface`
(scene_manager_node.cpp:494), which waits for move_group without a bound: `HandlerEnds`
is about the load from there on, by the 5 s and 10 s waits of `applyScene` and
`fetchAcm`. `HeldLeavesWorld` holds with the
re-assertion on as well, but for the objects in `ghosts`: a re-assertion published
before a grasp and taken by move_group after it puts the held object back into the
world, although it "disappears on grasp" (scene_manager_node.cpp:215); only the
next release or reset that covers it clears it.

`SceneManagerReset.cfg` shows a disagreement: the reset claims that objects are
"transparent again"; it sets default entries only, and an explicit *checked* entry of
an object that was held wins over them.

### 3.7 MotionFailure, PathLibrary, MotionDoor, MotionNodes

`MotionFailure` is the table of `motion_failure.cpp`. `PathLibrary` is what the
loader of `paths.yaml` accepts and which part of a path `FollowPath` agrees to run.
`MotionDoor` is one call of the motion runtime; `MotionNodes` ticks the nodes:

| Variable | Code |
|---|---|
| `setup`, `path` | `process_path_backend` and whether pose goals are resolved to joints; the library's path |
| `mode` | the strategy selector's `mode_`, which a move changes for good |
| `mgi` | external: the `MoveGroupInterface`'s joint target, pose targets, kind of goal, reference frame |
| `pc`, `job`, `res` | where the call is, its locals, its `MotionResult` |
| `sent`, `moved` | history of the call: what it asked of MoveIt, whether an execution may have begun |
| `arm`, `drive`, `loose` | external: where the tip is, where its controller still takes it, where sequence goals nobody waits for may go |
| `bb` | the blackboard's waypoints, which a detection may rewrite between ticks |
| `ask`, `status`, `wrote` | the node's ports, what its tick returned and wrote to `fault` |
| `at`, `event` | the run of a path that just ended, the process event dispatched after it |
| `inherited` | history: the planner of the newest free or ptp move, `LaunchMode` before any |

A target is a *requirement*: a link at a place, in a frame. A joint target is the
requirement its configuration fulfils, so "the goal is what the node asked for" can
be said of both kinds, whatever the interface was left with. The arm may still be
settling when an execution reports success (`drive` is not `arm`), which is what
`FollowPath`'s arrival checks are for. A sequence goal whose response timed out is
never cancelled, and one whose result timed out is cancelled but may not have
ended: both go to `loose`, and `LooseGoal` moves the arm at any later time.

Run `MotionNodes.cfg`: two ticks of any two nodes with any targets of the small sets
(527,910 states), two places, one waypoint, seven path files of which each backend
accepts some, with and without resolution of poses; launched with `ompl`, with moves that
name no planner, `ompl_chomp` (available) or `stomp` (not), so that a planner left by
one move differs from the launch mode at the next. Two ticks are what an
interaction needs: what one call leaves on the interface, in the selector, in the
arm, and the call that meets it. Properties:

* `GoalsAsAsked`: a request carries this call's target, frame and blends,
  and nothing of an earlier call's. `Exempt` names the two asks the code does
  not carry out as written: a named or joint target the interface refuses, and the
  frame of a process path that runs through the Pilz sequence, which reads poses only
  (moveit_motion_runtime.cpp:750-763). Every planned request, exempt or not, is answered by
  a pipeline of its node's planner. Which planner that is, when the node names none, is
  where code and comments part: a `free` waypoint, `MoveCollisionFree` or `MovePtp` takes
  the selector's mode, "else the launch planner_mode" by bt_nodes.cpp:548 (and :688), but
  `setMode` (moveit_motion_runtime.cpp:515) is never undone, so the mode is the one
  the newest free or ptp move left, also if it failed; a ptp waypoint that names
  none leaves Pilz. The property states what the code does, with `inherited`; that the
  planner is the launch mode would be violated in two ticks.
* `FailureToldTruly`: a failure without a fault lets the tree try another target as
  if nothing had happened, so the arm has not been moved; a fault "during request"
  means that nothing was sent.
* `RunIsEventFree`, `EventAtItsState`: a run does not drive through a state where
  the path stops for an event, it leaves from its first state, and the event
  finds the arm at its state; unless a goal given up on moves the arm (`loose`).
* `AcceptedPathRuns`: which paths of those the loader accepts can be run, as their events
  split them. All can, dense or not, but one kind: of a *continuous dense path of two
  samples*, which the loader accepts (path_library.cpp:224-377 wants two samples),
  `FollowPath` drops the first sample (bt_nodes.cpp:973) and the Cartesian backend refuses
  the one that is left (cartesian_waypoint_backend.cpp:78): every run of it fails. The
  property is an equivalence, so it names that kind and no other.

No liveness is stated here: the waits of `MoveGroupInterface` have no bound. Left out:
`plan_only` (no node sets it), what a parse exception does to a tick of the older
nodes, the numeric drift of a planner's choice, and a waypoint half rewritten when a
detection's orientation is refused (bt_nodes.cpp:2096-2116).

`MotionNodesAsAsked.cfg` shows a disagreement: `moveCollisionFree` does not read
the answer of `setNamedTarget` and `setJointValueTarget`
(moveit_motion_runtime.cpp:587). A canonical `MoveWaypoint` with a joint vector of
the wrong size then plans to the joint target an earlier move left behind.

### 3.8 GraspVerification

How the runner learns from a device's state that its command arrived
(`EndEffectorDevice::confirm`), and then whether the tool holds the object
(`EndEffectorDevice::verify`, a loop around the judge of 3.3). One device with one
actuator and one site; how a command waits for its server is 3.2's.

| Variable | Code |
|---|---|
| `now` | the runner's clock; the adapter's is `now + wiring.skew` |
| `wiring` | the actuator's interface; whose server and whose state the names of the deployment reach |
| `pubs`, `feed` | the visible state publishers, `Feed::latest` |
| `device`, `wire` | external: the adapter's newest command and observation, its sample on the way (depth one) |
| `flight`, `answer`, `restarts` | external: requests not handled yet, the answer to the newest, restarts left |
| `sent` | `sent_[actuator]` |
| `pc`, `job`, `late`, `out` | where the tick is, the prior entry and send stamp, its deadline, how it ended |
| `shown`, `gap` | history: the state has shown the newest command; a command followed one it had not shown |

A sample and an observation carry, as history, which command of this run (`by`) was
the newest applied when they were made: the properties compare that to the command
the code believes it is looking at. Samples are late, replaced or lost; a request
whose caller gave up may be applied at any later time; the adapter may start with
a command of an earlier run, and may restart and forget all.

* `ConfirmedIsThisCommand`: what `confirm` takes for this command was applied by the
  device the client reaches, and is this command. The second half is claimed while the
  state has shown every command before it. An identical command that was given up
  unshown and is applied late cannot be told apart by any stamp the code has; the
  exclusion (`gap`) is wider than that: after any command that followed an unshown one,
  identical or not, nothing is claimed of it and the later ones.
* `VerdictOfThisGrasp`: `VerifyGrasp` succeeds only on an observation made after the
  newest recorded command was applied (again but for `gap`).
* `WaitEnds`, under `WF(TickStep)` alone: neither the server nor the adapter nor
  the topic has to do anything.

`GraspVerification.cfg`: seven wirings, among them each interface, each difference of
the clocks that the tolerance allows (-1, 0, 1) and each way a name can be remapped;
two commands, three clock values after the start, at most one restart (1.42 million
states). A second command is what a stale sample needs to be mistaken for, and
three values put a stamp before, at and after the tolerance. `GraspAssumption` says
that a command of an earlier run is older than any difference of the clocks:
the process has started in between. A skew past the tolerance is not in the
instance: the code does not promise anything of it.

### 3.9 Capture

`DetectObject` with and without a trigger, `DetectCandidates`, and the two nodes that
make waypoints of what those wrote, against a detector in another process.

| Variable | Code |
|---|---|
| `now` | the node's clock; 0 while it does not run (no `/clock`) |
| `dep` | the detector's clock difference, the nodes' `keep`, the source of the candidates |
| `feed`, `made` | `LatestFeed` of each topic; arrays that have arrived |
| `call` | external: the trigger's service call |
| `pc`, `job`, `late`, `out` | where the tick is, its boundary and what it has seen, its deadline, how it ended |
| `found`, `cands` | the blackboard's keys of the two nodes, each entry by the array and the detection it was written from |
| `goal` | the waypoint the last tick wrote |
| `newest`, `used` | history: the array each node's newest tick took; the newest one a triggered tick took |

A message late on its way is one of an older image (`Ages`), a lost one does not
arrive. A detection matches, does not, or matches and cannot be used; a transform may
be missing for any candidate, after the ones before it were written.

* `CaptureIsOfThisTrigger`: a triggered detection takes an image taken after its
  boundary, as far as the clocks agree, and none that an earlier capture took.
* `WaypointsOfNewest`: `SetWaypointFromCandidate` goes to a candidate of the newest
  `DetectCandidates`, or nowhere if that failed, at whatever point. For
  `SetWaypointFromDetection` it says less: after a `DetectObject` that *succeeded*, an
  index below its count is of that tick.
* `NodeEnds`, under `WF(TickStep)` and `WF(DeadlinePasses)`: the deadline has its
  own condition because a capture may trigger again and again until it.

`Capture.cfg`: four deployments (clock difference -1, 0, 1, 2 against a slack of 1,
`keep` 1 and 2, both sources), three arrays, two clock values (1.6 million states).
Three arrays are one before, one between and one after two captures.

What the properties leave out, because the code does: `SetWaypointFromDetection`
does not read the count, so an index at or above it finds what an earlier tick left
(docs/behavior_tree_migration_plan.md asks for indices below it); `DetectObject` does
not clear the count when it fails (bt_nodes.cpp:2001), so after a failure in the middle
the list mixes two arrays under the old count, and `SetWaypointFromDetection` may go to
either: the property claims nothing after a `DetectObject` that failed. A tree is expected
to stop at the failure.

## 4. Proofs

Every safety invariant and every action property that a passing run checks is also a
theorem, and so is the refinement; what remains model-checked only is listed at the
end of this section. The proofs assume the modules' `ASSUME`s and nothing
else. These give the constants their types and, beyond that,

* `MotionNodes`: a state of a path file has the shape `StateOK` gives the fields the code
  reads, its continuity is one of the two the parser knows; the place `Elsewhere`, where an arm under way is, is no target;
* `Capture`: the clock has at least one value after it started to run;
* `GraspVerification`: a command of an earlier run of the process is older than the
  start of this one by more than the tolerance, on the runner's clock and on the adapter's. The
  difference of the two clocks is otherwise free, past the tolerance included.

No invariant below is inductive by itself. Each proof module begins with the
strengthening, then has lemmas on the operators and on the actions, and ends in the
theorems.

### 4.1 EndEffectorCommand_proofs

For any number of commands, any set of actuators and any server answers: `TypeOK`,
`LateAcceptCancelled`, `CancelsAsAllowed`, and what an ended command leaves behind:
`NoUnattendedGoal`, `AppliedButUnrecordedIsLatched`, `SceneSignalShowsNewestDone`.
The invariant is `Inv`, the conjunction of

* `TypeOK`;
* `Current`: goals after the current one are untouched, those before it have
  ended, and the program counter says which;
* `Fresh`: a goal's watch is as it was created until its own steps touch it;
* `Watch`: a goal is abandoned exactly when its send timed out or the re-check is
  next; a cancel sent for a late acceptance is of an abandoned goal, any other
  belongs to a command that timed out, and there is at most one;
* `LateCancel`: an abandoned goal whose response is there has been dealt with by
  the tick thread, or its callback is still to run;
* `ThirdPartySeen`: with no adapter no publisher is ever visible, so a
  GripperCommand goal is marked as not cancellable before it is sent.

The count in `CancelsAsAllowed` needs `Watch` because both threads add to the count and only
`cancelSent` tells them apart; `LateAcceptCancelled` needs `LateCancel` because the
two orders of "abandon" and "response" leave the obligation with different
threads. What a command leaves behind is a second invariant on top, `AfterEnd`: the record follows
the current command from its acceptance, every end but DONE is latched (each is a
FAULT: `FailuresAreFaults`, by the reason table), what the client was told of a goal
is true of the server, and the scene signal is that of the last grip that was done.

### 4.2 VerifyGrasp_proofs

The four properties of the judge, for a device of *any* number of sites and any
stamps, clock, tolerance and age limit (`Inputs`); the run checks two sites and a small
clock. The rules over sites are cascades over sets, and the result names the first
of one of them. The argument: every reading that is not OK, a verdict or a
pending wait becomes a FAULT at the deadline (`DecidesOrFaults`, by the table); one
that is was read past the reference rule, the clock check and freshness
(`DecidedSite`); the first site of a set is one of it, since sites are numbers
(`FirstIsOne`, by well-foundedness). For `DeadlineOnlyDecides` no reading
depends on whether the deadline has passed, so that the two judgements run through the same cascade.
`JudgedSoundly` brings the four back to the inputs of the run.

### 4.3 BtRunner_proofs

For any number of motions: `TypeOK`, `MotionInFlightIsStopped`, `StopOnlyWhileTreeRuns`,
`ExitTellsOutcome`. `StopInv` is the protocol of the destructor and the callback: registered
while the tree runs, armed until the callback has looked, and the mutex held from
there to the end of the stop, so that main, which takes the mutex to disarm, cannot
pass it. `InFlightInv` is what the stop owes the motion that executed at the
request, step by step; `MainInv` says what has happened by where main is.

### 4.4 MotionOwnership_proofs

For any number of motions: `TypeOK`, `HandedBack`,
`SuccessLeavesNothingPending`, `OneOwner`, and that every behaviour implements
`ControllerOwnership` (`Refinement`). The invariant adds to the type

* `Begun`: motions not begun have no goal and no result, the one in progress has none
  before its release;
* `GoalsWatched`: a goal that may still move the arm is waited for or given up (this
  is `HandedBack` for the goals);
* `Learned`: what the client knows of its goal is true, without which a response in
  the past could be that of another goal;
* `CallsPending`: a start or unpause not yet handled is the one waited for, or belongs
  to a motion that did not succeed;
* `ServoOwned`: a servo node not given up is live only inside the `ServoTrack` that
  took it, and nothing else is on its way to it (this is `HandedBack` for servo).

A mover takes the controller when a goal begins to execute or a request makes the
servo node live; in both the last two conjuncts say that the motion in progress is
the only one that could, which is the step simulation's only hard case.

### 4.5 SceneManager_proofs

For any objects, any number of events and of requests outstanding: `TypeOK`,
`ViewMatchesScene`, `HeldLeavesWorld`, `CheckFollowsFlag`. The properties are about
the times between handlers; the invariant says what holds inside one. `View` and
`Place` are the first two with the objects the request in progress may have changed
taken out; `Awaited` says that every older request still in the queue touches only objects in
`doubt`, so that a late one changes nothing the node is sure of; `Accepted` what an
OK means for the scene when it is read, a re-assertion in between included;
`Entered` that the matrix a handler is about to apply has the flag's entries, and
that the scene's has them with no older matrix on its way. `Account` ties the
handler's locals to its job.

### 4.6 MotionNodes_proofs

For any places, planners, path files, configurations and number of ticks.

`FailureToldTruly` is about a tick's end, so its invariant carries it back through
the call: `Quiet` (until there is a plan to execute or an outcome of a sequence nothing
has moved, and until MoveIt was asked nothing was sent), `Answered` (a result
that names this target is of a call that moved nothing; one of phase REQUEST is of a
call that sent nothing), `Told` (the same of the fault written). `ModeOK` and
`Attempting` only make the planner's profile and the retry count well defined.
`FailureKeepsInv` is the heart of it: a failure after a motion has phase EXECUTE, or
PLAN_AND_EXECUTE with a code or a cause that names no target.

`GoalsAsAsked`, `RunIsEventFree`, `EventAtItsState`, `AcceptedPathRuns` and `TypeOK`
come from a second one, `AskInv`: while a motion is planned the
interface holds exactly one target, this call's (`Planning`: each kind of move sets or
clears the others, and an attempt that fails leaves it in place), and the profile that
is tried is one its planner honours, since the selector's mode is always that of
`inherited` (`Inherits`), fallen back once however often it is set (`ModeOfMode`); the reference
frame is the base frame but inside a Cartesian path, whose locals keep it
(`Framed`); a run still has the range that was checked, its items are the path's
states in that range, and it leaves from its first state (`RunAsked`); the arm is
where its controller takes it or on its way (`Still`), which is why an arrival check
that passed still holds when the event is dispatched (`AtRunEnd`), but for the
goals in `loose`.

`AcceptedPathsRun` is `AcceptedPathRuns` for every path definition and both backends:
the loader, `FollowPath` and the backend check blends and events, ranges, and poses apart
from each other, in different files. The theorem is that they agree on every path but a
continuous dense one of two samples, and that on this one they do not: the runs between
two neighbouring cuts end in no blend (`SplitRunInRange`), a dense path has no event, and
only a continuous dense path needs the route that wants two poses (`RouteOf`).

### 4.7 GraspVerification_proofs

For any wirings, any number of commands and restarts, and any samples late, replaced
or lost: `TypeOK`, `ConfirmedIsThisCommand`, `VerdictOfThisGrasp`. The invariant is
the order of things that arrive without one: the requests in flight are in the order
of their commands and none was applied (`Queue`); an observation made under an
earlier command is older than the entry it is shown with (`Told`); device, wire and
feed are later to earlier, but for a restart, after which nothing is applied twice
(`Ordered`). With no `gap`, only the newest command can be in flight and only it can
be newer than the entry seen when it was sent (`Chained`), and once it was seen it is
what every sample shows until a restart (`Settled`): so an entry newer than `prior` is this
command's, which is the reference rule.

### 4.8 Capture_proofs

For any clock difference, deployment, arrays and number of them: `TypeOK`,
`CaptureIsOfThisTrigger`, `WaypointsOfNewest`. `Capturing` says that what a tick has
seen is no older than what any earlier capture took, and its boundary is a reading of
its clock; `CandidatesOfNewest` and `ObjectOfNewest` that the entries below a count
are of the newest array, the candidates' count being zero while they are rewritten, and
the second of these only after a success. The order of
the counted set rests on lemmas about `FirstMatches`: the entry of each rank exists,
is the only one and comes before those of later ranks (cardinalities, and the least
number of a set).

### 4.9 Found by the proofs

The attempts that failed changed three models. Two `CASE`s of the judge had overlapping arms: TLC takes the
first, the logic any; they are now the chains of conditions the code has. The
assumption of `GraspVerification` named one condition twice and the other not at all.
`FirstMatches` of `Capture` and the requests a client gives up in `GraspVerification`
filtered a sequence, which takes an induction over it to reason about; the first is now defined by
rank, the second by the order the requests are in.

### 4.10 Only model-checked

The liveness properties, `CommandEnds`, `ShutdownEndsRun`, `MotionEnds`,
`HandlerEnds`, `WaitEnds` and `NodeEnds`: the prover does not reason about liveness
under fairness, nor about `ENABLED`. And the four runs that show a violation, which
are counterexamples.

## 5. Not modelled

* Parsers, profiles, geometry, inverse kinematics, trajectory validation, the
  launch file and the legacy gripper: sequential code over data, with unit tests.
* `RunPolicy`: it waits for a status of a policy runtime that is not in this
  repository; when that publishes, and what, would be the model's invention.
* `SetWaypointRelative` (arithmetic on one blackboard pose), `CheckRobotState` and
  `SetReleasePolicy` (one read or one call with a deadline, and nothing that
  outlives the tick).
* What `ResetScene` and `SetAttachedCollisionCheck` answer the tree. `onSetCheck`
  answers success whether or not its matrix edit was applied (scene_manager_node.cpp:858-868),
  so the node's SUCCESS says only that the manager was reached.
* The task runner: one step after another, without a stop on shutdown.
* Process controllers: a dispatch is a publisher that returns; `MotionNodes` records
  where the arm is when it happens.

The components table of `PROJECT.json` says for each part what is left and why.
