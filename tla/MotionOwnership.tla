-------------------------- MODULE MotionOwnership --------------------------
(***************************************************************************)
(* Who drives the arm's trajectory controller.  The tree runs its motions  *)
(* one after another, each in one tick, on one of three routes:            *)
(*   "planned"   MoveItMotionRuntime::planAndExecute: it plans, then sends *)
(*               an execute_trajectory goal; the tick waits for move_group *)
(*               in plan() and in execute(), for either without a bound;   *)
(*   "sequence"  PilzSequenceBackend::run, one sequence_move_group goal     *)
(*               that plans and executes, with bounded waits and a cancel; *)
(*   "servo"     ServoTrack::tick, which starts, unpauses, streams to and   *)
(*               pauses a servo node.                                      *)
(* move_group, the servo node and another client of execute_trajectory are *)
(* external.  Waiting times are not counted: a bounded wait may end in any *)
(* state in which what it waits for is not there.                          *)
(***************************************************************************)
EXTENDS Naturals

CONSTANT MaxMotions   \* bound: the motions of a run

ASSUME MotionAssumption == MaxMotions \in Nat \ {0}

Motions == 1..MaxMotions
Routes == {"planned", "sequence", "servo"}

\* The Trigger services of the servo node that ServoTrack calls.
Calls == {"start", "unpause", "pause"}

\* The servo node as a mover of the arm, beside the motions' goals.
Servo == 0

VARIABLES
  pc,         \* where the tick thread is
  cur,        \* the newest motion (0: none yet)
  route,      \* [Motions -> its route]
  result,     \* [Motions -> what its node returned]
  goal,       \* [Motions -> its goal at move_group]
  known,      \* the newest motion's goal response, then its result, is here
  marked,     \* ServoStartRegistry: this process started the servo node
  started,    \* the servo node's calculation thread runs
  paused,     \* the servo node is paused
  asked,      \* the service requests the servo node has not handled yet
  reply,      \* the answer to the request waited for
  foreign,    \* another client's trajectory executes
  feed,       \* the newest execute_trajectory status the runner has seen
  givenUp,    \* the movers whose end this run has not established (history)
  ctx         \* the ROS context is valid

tickVars  == <<pc, cur, route, result, marked, givenUp>>
groupVars == <<goal, known>>
servoVars == <<started, paused, asked, reply>>
envVars   == <<foreign, feed, ctx>>
vars == <<tickVars, groupVars, servoVars, envVars>>

ServoSteps == {"check", "start", "started", "unpause", "match", "stream", "pause"}
SequenceSteps == {"server", "response", "result", "cancel", "await"}
PlannedSteps == {"plan", "execute"}

\* What a goal at move_group may be; a sequence goal plans ("accepted") before it
\* executes.
Pending == {"flight", "accepted", "executing"}

Live == started /\ ~paused

\* The movers that drive the controller.
Holders == (IF Live THEN {Servo} ELSE {}) \cup {m \in Motions : goal[m] = "executing"}

TypeOK ==
  /\ pc \in {"idle"} \cup ServoSteps \cup SequenceSteps \cup PlannedSteps
  /\ cur \in 0..MaxMotions
  /\ route \in [Motions -> Routes \cup {"none"}]
  /\ result \in [Motions -> {"none", "SUCCESS", "FAILURE"}]
  /\ goal \in [Motions -> {"unsent", "rejected", "ended"} \cup Pending]
  /\ known \in BOOLEAN /\ marked \in BOOLEAN
  /\ started \in BOOLEAN /\ paused \in BOOLEAN
  /\ asked \subseteq Motions \X Calls
  /\ reply \in {"none", "waiting", "OK", "REFUSED"}
  /\ foreign \in BOOLEAN
  /\ feed \in {"unsubscribed", "none", "idle", "active"}
  /\ givenUp \subseteq Motions \cup {Servo}
  /\ ctx \in BOOLEAN

\* A new process: the servo node may have been left as an earlier one had it.
Init ==
  /\ pc = "idle" /\ cur = 0
  /\ route = [m \in Motions |-> "none"]
  /\ result = [m \in Motions |-> "none"]
  /\ goal = [m \in Motions |-> "unsent"]
  /\ known = FALSE /\ marked = FALSE
  /\ started \in BOOLEAN /\ paused \in BOOLEAN
  /\ asked = {} /\ reply = "none"
  /\ foreign = FALSE /\ feed = "unsubscribed"
  /\ givenUp = IF Live THEN {Servo} ELSE {}
  /\ ctx = TRUE

-----------------------------------------------------------------------------
(* The tick thread: steps every route shares.                              *)

\* The node returns r.
Return(r) ==
  /\ pc' = "idle"
  /\ result' = [result EXCEPT ![cur] = r]

\* The node returns a failure without knowing that the mover m has stopped.
GiveUp(m) ==
  /\ Return("FAILURE")
  /\ givenUp' = givenUp \cup {m}

Goto(step) == pc' = step /\ UNCHANGED <<result, givenUp>>

\* The next motion of the tree; a shutdown ends the run between two ticks, and one
\* tick may run several motions.
Begin(r) ==
  /\ pc = "idle" /\ cur < MaxMotions
  /\ cur' = cur + 1
  /\ route' = [route EXCEPT ![cur + 1] = r]
  /\ pc' = CASE r = "planned" -> "plan" [] r = "sequence" -> "server" [] OTHER -> "check"
  /\ known' = FALSE /\ reply' = "none"
  /\ UNCHANGED <<result, marked, givenUp, goal, started, paused, asked, envVars>>

-----------------------------------------------------------------------------
(* "planned".                                                              *)

\* Every attempt's plan failed, its validation refused it, or it was planned only.
\* plan() waits for move_group's answer without a bound.
PlanEnds ==
  /\ pc = "plan"
  /\ \E r \in {"SUCCESS", "FAILURE"} : Return(r)
  /\ UNCHANGED <<cur, route, marked, givenUp, groupVars, servoVars, envVars>>

\* No goal leaves once the context is shut down: its server is not found.
SendGoal(step) ==
  /\ ctx
  /\ goal' = [goal EXCEPT ![cur] = "flight"]
  /\ Goto(step)
  /\ UNCHANGED <<cur, route, marked, known, servoVars, envVars>>

Execute == pc = "plan" /\ SendGoal("execute")

\* MoveGroupInterface::execute returns when the goal was rejected or has ended.
ExecuteReturns ==
  /\ pc = "execute" /\ known
  /\ \/ goal[cur] = "ended" /\ Return("SUCCESS")
     \/ Return("FAILURE")
  /\ UNCHANGED <<cur, route, marked, givenUp, groupVars, servoVars, envVars>>

-----------------------------------------------------------------------------
(* "sequence".                                                             *)

\* No segments, a circle without its point, or no server within its bound.
SequenceRefused ==
  /\ pc = "server"
  /\ Return("FAILURE")
  /\ UNCHANGED <<cur, route, marked, givenUp, groupVars, servoVars, envVars>>

SequenceSend == pc = "server" /\ SendGoal("response")

\* No goal response within 10 s: the goal is not cancelled.
SequenceSendTimeout ==
  /\ pc = "response" /\ ~known
  /\ GiveUp(cur)
  /\ UNCHANGED <<cur, route, marked, groupVars, servoVars, envVars>>

SequenceAnswered ==
  /\ pc = "response" /\ known
  /\ IF goal[cur] = "rejected"
       THEN Return("FAILURE") /\ UNCHANGED <<givenUp, known>>
       ELSE Goto("result") /\ known' = FALSE
  /\ UNCHANGED <<cur, route, marked, goal, servoVars, envVars>>

SequenceResult ==
  /\ pc = "result" /\ known
  /\ \E r \in {"SUCCESS", "FAILURE"} : Return(r)
  /\ UNCHANGED <<cur, route, marked, givenUp, groupVars, servoVars, envVars>>

\* Mutant of SequenceResultTimeout: the failure is returned at once.
SequenceResultTimeoutReturns ==
  /\ pc = "result" /\ ~known
  /\ Return("FAILURE")
  /\ UNCHANGED <<cur, route, marked, givenUp, groupVars, servoVars, envVars>>

SequenceResultTimeout ==
  /\ pc = "result" /\ ~known
  /\ Goto("cancel")
  /\ UNCHANGED <<cur, route, marked, groupVars, servoVars, envVars>>

\* cancel(): asked and done, refused, unanswered, too late or not to be asked; a
\* cancelled goal ends like any other (GroupEnds).  Whatever came of it, the end
\* of the goal is awaited.
SequenceCancel ==
  /\ pc = "cancel"
  /\ Goto("await")
  /\ UNCHANGED <<cur, route, marked, groupVars, servoVars, envVars>>

\* Mutant of SequenceAwaited: the end of the goal is awaited without a bound.
SequenceAwaitedForever ==
  /\ pc = "await" /\ known
  /\ Return("FAILURE")
  /\ UNCHANGED <<cur, route, marked, givenUp, groupVars, servoVars, envVars>>

\* The goal has ended within 5 s, or it has not: the failure is the same.
SequenceAwaited ==
  /\ pc = "await"
  /\ IF known THEN Return("FAILURE") /\ UNCHANGED givenUp ELSE GiveUp(cur)
  /\ UNCHANGED <<cur, route, marked, groupVars, servoVars, envVars>>

-----------------------------------------------------------------------------
(* "servo".                                                                *)

\* No target, no runtime, no robot state, another frame.
ServoRefused ==
  /\ pc = "check"
  /\ Return("FAILURE")
  /\ UNCHANGED <<cur, route, marked, givenUp, groupVars, servoVars, envVars>>

\* The arbitration subscribes to the execution status, and waits 200 ms for the
\* first message at most.
Subscribe ==
  /\ pc = "check" /\ feed = "unsubscribed"
  /\ feed' = "none"
  /\ UNCHANGED <<tickVars, groupVars, servoVars, foreign, ctx>>

\* A trajectory execution is in flight: nothing was asked of the servo node.
ArbitrationRefuses ==
  /\ pc = "check" /\ feed = "active"
  /\ Return("FAILURE")
  /\ UNCHANGED <<cur, route, marked, givenUp, groupVars, servoVars, envVars>>

\* Nothing in flight that the runner knows of; start_servo once per process, or
\* not at all (the start_servo port).
ArbitrationPasses ==
  /\ pc = "check" /\ feed \in {"none", "idle"}
  /\ Goto(IF marked THEN "started" ELSE "start")
  /\ UNCHANGED <<cur, route, marked, groupVars, servoVars, envVars>>

StartNotAsked ==
  /\ pc = "start" /\ reply = "none"
  /\ Goto("started")
  /\ UNCHANGED <<cur, route, marked, groupVars, servoVars, envVars>>

\* callTrigger: the service is there, and is asked.
Ask(call, step) ==
  /\ ctx
  /\ asked' = asked \cup {<<cur, call>>}
  /\ reply' = "waiting"
  /\ Goto(step)
  /\ UNCHANGED <<cur, route, marked, groupVars, started, paused, envVars>>

AskStart == pc = "start" /\ reply = "none" /\ Ask("start", "start")

\* No start_servo within 2 s.
StartAbsent ==
  /\ pc = "start" /\ reply = "none"
  /\ Return("FAILURE")
  /\ UNCHANGED <<cur, route, marked, givenUp, groupVars, servoVars, envVars>>

\* Refused, or no answer within 15 s: the node fails without a pause.
StartFails ==
  /\ pc = "start" /\ reply \in {"waiting", "REFUSED"}
  /\ GiveUp(Servo)
  /\ UNCHANGED <<cur, route, marked, groupVars, servoVars, envVars>>

StartOK ==
  /\ pc = "start" /\ reply = "OK"
  /\ marked' = TRUE
  /\ Goto("started") /\ reply' = "none"
  /\ UNCHANGED <<cur, route, groupVars, started, paused, asked, envVars>>

AskUnpause == pc = "started" /\ Ask("unpause", "unpause")

\* A servo node without the pause pair is streaming already.
UnpauseAbsent ==
  /\ pc = "started"
  /\ Goto("match")
  /\ UNCHANGED <<cur, route, marked, groupVars, servoVars, envVars>>

\* Mutant of UnpauseFails: without an answer the node streams all the same.
UnpauseGoesOn ==
  /\ pc = "unpause" /\ reply \in {"waiting", "REFUSED"}
  /\ Goto("match")
  /\ UNCHANGED <<cur, route, marked, groupVars, servoVars, envVars>>

\* Refused, or no answer within 5 s: the node fails without a pause.
UnpauseFails ==
  /\ pc = "unpause" /\ reply \in {"waiting", "REFUSED"}
  /\ GiveUp(Servo)
  /\ UNCHANGED <<cur, route, marked, groupVars, servoVars, envVars>>

UnpauseOK ==
  /\ pc = "unpause" /\ reply = "OK"
  /\ Goto("match") /\ reply' = "none"
  /\ UNCHANGED <<cur, route, marked, groupVars, started, paused, asked, envVars>>

\* release(st): a zero twist, then the pause.
Release(st) ==
  /\ pc' = "pause" /\ reply' = "none"
  /\ result' = [result EXCEPT ![cur] = st]
  /\ UNCHANGED <<cur, route, marked, givenUp, groupVars, started, paused, asked, envVars>>

\* The twist topic has a subscriber within 2 s and the stream begins; or it has
\* none, or the context is shut down, and the servo node is released.
Match ==
  /\ pc = "match" /\ ctx
  /\ Goto("stream")
  /\ UNCHANGED <<cur, route, marked, groupVars, servoVars, envVars>>

MatchFails == pc = "match" /\ Release("FAILURE")

\* Mutant of StreamFails: a failed stream is not paused.
StreamFailsUnpaused ==
  /\ pc = "stream"
  /\ Return("FAILURE")
  /\ UNCHANGED <<cur, route, marked, givenUp, groupVars, servoVars, envVars>>

\* Converged; or a halt status, the timeout, no robot state or a shutdown.
StreamConverged == pc = "stream" /\ Release("SUCCESS")
StreamFails == pc = "stream" /\ Release("FAILURE")

AskPause == pc = "pause" /\ reply = "none" /\ Ask("pause", "pause")

PauseOK ==
  /\ pc = "pause" /\ reply = "OK"
  /\ pc' = "idle"
  /\ UNCHANGED <<cur, route, result, marked, givenUp, groupVars, servoVars, envVars>>

\* Mutant of PauseUnconfirmed: the outcome of the pause replaces the node's result.
PauseUnconfirmedReported ==
  /\ pc = "pause" /\ reply # "OK"
  /\ pc' = "idle"
  /\ result' = [result EXCEPT ![cur] = reply]
  /\ givenUp' = givenUp \cup {Servo}
  /\ UNCHANGED <<cur, route, marked, groupVars, servoVars, envVars>>

\* No service (silently), a refusal or no answer within 2 s (a warning): the
\* node's result stays what it was.
PauseUnconfirmed ==
  /\ pc = "pause" /\ reply # "OK"
  /\ pc' = "idle"
  /\ givenUp' = givenUp \cup {Servo}
  /\ UNCHANGED <<cur, route, result, marked, groupVars, servoVars, envVars>>

PlannedStep == PlanEnds \/ Execute \/ ExecuteReturns
SequenceStep ==
  \/ SequenceRefused \/ SequenceSend \/ SequenceSendTimeout \/ SequenceAnswered
  \/ SequenceResult \/ SequenceResultTimeout \/ SequenceCancel \/ SequenceAwaited
ServoStep ==
  \/ ServoRefused \/ Subscribe \/ ArbitrationRefuses \/ ArbitrationPasses
  \/ StartNotAsked \/ AskStart \/ StartAbsent \/ StartFails \/ StartOK
  \/ AskUnpause \/ UnpauseAbsent \/ UnpauseFails \/ UnpauseOK
  \/ Match \/ MatchFails \/ StreamConverged \/ StreamFails
  \/ AskPause \/ PauseOK \/ PauseUnconfirmed

-----------------------------------------------------------------------------
(* External: move_group, the servo node, another client, the executor.      *)

GroupDecides(m) ==
  /\ goal[m] = "flight"
  /\ \E s \in {"accepted", "rejected"} : goal' = [goal EXCEPT ![m] = s]
  /\ UNCHANGED <<tickVars, known, servoVars, envVars>>

GroupExecutes(m) ==
  /\ goal[m] = "accepted"
  /\ goal' = [goal EXCEPT ![m] = "executing"]
  /\ UNCHANGED <<tickVars, known, servoVars, envVars>>

GroupEnds(m) ==
  /\ goal[m] \in {"accepted", "executing"}
  /\ goal' = [goal EXCEPT ![m] = "ended"]
  /\ UNCHANGED <<tickVars, known, servoVars, envVars>>

\* What the tick waits for reaches the client: a sequence's response, then the
\* result; an execute() waits for the rejection or the result.
ClientLearns ==
  /\ ~known
  /\ \/ pc = "response" /\ goal[cur] # "flight"
     \/ pc = "execute" /\ goal[cur] \in {"rejected", "ended"}
     \/ pc \in {"result", "cancel", "await"} /\ goal[cur] = "ended"
  /\ known' = TRUE
  /\ UNCHANGED <<tickVars, goal, servoVars, envVars>>

\* start_servo respawns the calculation thread, unpaused.
Handled(call) ==
  CASE call = "start"   -> started' = TRUE /\ paused' = FALSE
    [] call = "unpause" -> paused' = FALSE /\ UNCHANGED started
    [] OTHER            -> paused' = TRUE /\ UNCHANGED started

\* The request is handled and answered, or the answer is late or lost, also when
\* nobody waits for it any more.
ServoHandles(r) ==
  /\ r \in asked /\ asked' = asked \ {r}
  /\ Handled(r[2])
  /\ \/ r = <<cur, pc>> /\ reply = "waiting" /\ reply' = "OK"
     \/ UNCHANGED reply
  /\ UNCHANGED <<tickVars, groupVars, envVars>>

ServoRefuses(r) ==
  /\ r \in asked /\ asked' = asked \ {r}
  /\ \/ r = <<cur, pc>> /\ reply = "waiting" /\ reply' = "REFUSED"
     \/ UNCHANGED reply
  /\ UNCHANGED <<tickVars, groupVars, started, paused, envVars>>

ForeignStep ==
  /\ foreign' = ~foreign
  /\ UNCHANGED <<tickVars, groupVars, servoVars, feed, ctx>>

\* The status of the execute_trajectory server reaches the runner, at any time
\* after it changed; a sequence goal is no execute_trajectory goal.
ExecutionActive ==
  foreign \/ \E m \in Motions : route[m] = "planned" /\ goal[m] \in {"accepted", "executing"}

StatusArrives ==
  /\ feed # "unsubscribed"
  /\ feed' = IF ExecutionActive THEN "active" ELSE "idle"
  /\ UNCHANGED <<tickVars, groupVars, servoVars, foreign, ctx>>

Shutdown ==
  /\ ctx /\ ctx' = FALSE
  /\ UNCHANGED <<tickVars, groupVars, servoVars, foreign, feed>>

EnvStep ==
  \/ \E m \in Motions : GroupDecides(m) \/ GroupExecutes(m) \/ GroupEnds(m)
  \/ ClientLearns
  \/ \E r \in asked : ServoHandles(r) \/ ServoRefuses(r)
  \/ ForeignStep \/ StatusArrives \/ Shutdown

TickStep == PlannedStep \/ SequenceStep \/ ServoStep

\* The steps the tick thread takes in bounded time: all but those that wait for
\* move_group's answer to plan(), or, in execute(), for a result that is not here.
BoundedStep == ExecuteReturns \/ SequenceStep \/ ServoStep

Next == (\E r \in Routes : Begin(r)) \/ TickStep \/ EnvStep

\* The tick thread keeps running and the steady clock advances.  Nothing is
\* assumed of move_group, of the servo node or of the messages: a plan() may never
\* be answered, an execute() never end.
Spec == Init /\ [][Next]_vars /\ WF_vars(BoundedStep)

-----------------------------------------------------------------------------
(* Properties                                                              *)

\* Between two motions nothing drives the arm's controller but a mover the run has
\* given up: a sequence goal whose send or cancel went unanswered, a servo node
\* whose start, unpause or pause was not confirmed, or that an earlier process
\* left unpaused.  Every other exit of every route hands the controller back.
HandedBack == pc = "idle" => Holders \subseteq givenUp

\* A start or an unpause that the servo node may still apply belongs to a motion
\* that is running or has failed: a ServoTrack that succeeded leaves nothing
\* behind that could take the controller from a later motion.
SuccessLeavesNothingPending ==
  \A r \in asked : r[2] # "pause" => result[r[1]] # "SUCCESS"

\* One owner per controller: the routes implement the abstract arbitration.
Ownership == INSTANCE ControllerOwnership
               WITH Movers <- Motions \cup {Servo}, holds <- Holders
ImplementsOwnership == Ownership!Spec

\* Among the movers the run has not given up, the controller has one owner.
OneOwner == Ownership!OneOwner

\* The two waits of MoveGroupInterface that have no bound.
AwaitsMoveGroup == pc = "plan" \/ (pc = "execute" /\ ~known)

\* Every motion's tick ends, or waits for move_group in plan() or in execute() (for
\* ever, when that never answers): every other wait, all of those of a sequence and
\* of a servo stream, is bounded, whatever move_group and the servo node do.
MotionEnds == (pc # "idle") ~> (pc = "idle" \/ AwaitsMoveGroup)

\* bt_nodes.cpp:2952-2954: ServoTrack "unpauses servo before streaming and PAUSES it
\* on EVERY exit path": no tick that has made the servo node live returns but by
\* release().
PausedOnEveryExit ==
  [][(pc \in {"unpause", "match", "stream"} /\ Live /\ Servo \notin givenUp)
       => (pc' # "idle")]_vars
=============================================================================
