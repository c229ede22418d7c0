------------------------- MODULE MotionNodes_proofs -------------------------
(***************************************************************************)
(* What a motion node's answer says of what happened, what it asks of      *)
(* MoveIt and where it leaves the robot, for every set of places,          *)
(* planners, paths and configurations, and any number of ticks: a failure  *)
(* the tree may absorb left the arm alone, "during request" means that     *)
(* nothing was sent, a plan is of the node's own request, and a process    *)
(* event finds the robot at its state.                                     *)
(***************************************************************************)
EXTENDS MotionNodes, SequenceTheorems, TLAPS

ModeOK == mode \in PlannerModes

\* What a planned motion's next attempt depends on.
Attempting ==
  pc = "plan" =>
    /\ job.chomp \in BOOLEAN /\ job.attempt \in Nat
    /\ job.profile.optimize \in BOOLEAN

\* Until a call has a plan to execute, or a sequence's outcome, nothing moves; and
\* until it has asked MoveIt for something, nothing is sent.
Quiet ==
  /\ pc \in {"idle", "start"} => sent = {}
  /\ pc \in {"idle", "start", "plan", "compute", "send", "sequence"} => ~moved

\* A MotionResult with a phase of the vocabulary.
IsResult(r) ==
  /\ r = [success |-> r.success, phase |-> r.phase, cause |-> r.cause, code |-> r.code,
          whole |-> r.whole]
  /\ r.success \in BOOLEAN /\ r.phase \in Phases

\* What a result says of the call that returned it.
Answered ==
  pc = "returned" =>
    /\ IsResult(res)
    /\ res.success => res.phase = "NONE" /\ res.cause = NoCause
    /\ moved => ~NamesTarget(res)
    /\ res.phase = "REQUEST" => sent = {} /\ ~moved

\* What a tick's end says of it.
Told ==
  pc = "ended" =>
    /\ status = "FAILURE" /\ ask.node \in HasFaultPort /\ wrote = NoFault => ~moved
    /\ wrote.phase = "REQUEST" => sent = {} /\ ~moved

Inv == ModeOK /\ Attempting /\ Quiet /\ Answered /\ Told

-----------------------------------------------------------------------------
(* The results of the door.                                                *)

LEMMA FailedResult ==
  ASSUME NEW phase \in Phases, NEW cause, NEW code
  PROVE  /\ IsResult(Failed(phase, cause, code))
         /\ ~Failed(phase, cause, code).success
         /\ Failed(phase, cause, code).phase = phase
         /\ Failed(phase, cause, code).cause = cause
         /\ Failed(phase, cause, code).code = code
  BY DEF Failed, IsResult

LEMMA SucceededResult ==
  ASSUME NEW whole, NEW r, r \in {Succeeded, [Succeeded EXCEPT !.whole = whole]}
  PROVE  IsResult(r) /\ r.success /\ r.phase = "NONE" /\ r.cause = NoCause /\ ~NamesTarget(r)
<1>1. r.success /\ r.phase = "NONE" /\ r.cause = NoCause
  BY DEF Succeeded
<1>2. IsResult(r)
  <2>1. r = [success |-> TRUE, phase |-> "NONE", cause |-> NoCause, code |-> "SUCCESS",
             whole |-> r.whole]
    BY DEF Succeeded
  <2>2. QED
    BY <1>1, <2>1 DEF IsResult, Phases
<1>3. QED
  BY <1>1, <1>2 DEF NamesTarget

\* A refusal, as it is returned before anything is asked.
LEMMA RefusalKeepsInv ==
  ASSUME Inv, pc \in {"idle", "start"}, NEW r, IsResult(r), Refuse(r),
         r.success => r.phase = "NONE" /\ r.cause = NoCause, mode' \in PlannerModes
  PROVE  Inv'
<1>1. pc' = "returned" /\ res' = r /\ sent' = {} /\ ~moved'
  BY DEF Refuse, Return, Inv, Quiet
<1>2. QED
  BY <1>1 DEF Inv, ModeOK, Attempting, Quiet, Answered, Told, NamesTarget

LEMMA SelectsProfile ==
  ASSUME NEW m \in PlannerModes,
         NEW intent \in {"PTP", "LINEAR", "COLLISION_FREE", "COLLISION_FREE_OPTIMIZED"}
  PROVE  SelectPlanner(intent, m).optimize \in BOOLEAN
  BY DEF SelectPlanner, PlannerModes

LEMMA PlanKeepsInv ==
  ASSUME Inv, pc \in {"idle", "plan"}, NEW m, NEW profile, NEW chomp \in BOOLEAN,
         NEW attempt \in Nat, profile.optimize \in BOOLEAN,
         DoPlan(m, profile, chomp, attempt), mode' \in PlannerModes
  PROVE  Inv'
<1>1. pc' = "plan" /\ ~moved'
  BY DEF DoPlan, Inv, Quiet
<1>2. job'.chomp \in BOOLEAN /\ job'.attempt \in Nat /\ job'.profile.optimize \in BOOLEAN
  BY DEF DoPlan
<1>3. QED
  BY <1>1, <1>2 DEF Inv, ModeOK, Attempting, Quiet, Answered, Told
-----------------------------------------------------------------------------
(* The door's methods and its answers.                                     *)

LEMMA ModeKept ==
  ASSUME NEW m \in PlannerModes
  PROVE  EffectiveMode(m) \in PlannerModes
  BY DEF EffectiveMode, PlannerModes

LEMMA UnrecordedResult ==
  /\ IsResult(Unrecorded) /\ ~Unrecorded.success
  /\ Unrecorded.phase = "NONE" /\ Unrecorded.cause = NoCause /\ ~NamesTarget(Unrecorded)
<1>1. IsResult(Unrecorded)
  BY FailedResult DEF Unrecorded, Phases
<1>2. ~Unrecorded.success /\ Unrecorded.phase = "NONE" /\ Unrecorded.cause = NoCause
  BY DEF Unrecorded, Failed
<1>3. QED
  BY <1>1, <1>2 DEF NamesTarget

LEMMA RequestResult ==
  ASSUME NEW cause
  PROVE  IsResult(RequestRefused(cause)) /\ ~RequestRefused(cause).success
  BY FailedResult DEF RequestRefused, Phases

LEMMA MovePtpKeepsInv ==
  ASSUME Inv, pc = "idle", NEW t, MovePtpDoor(t)
  PROVE  Inv'
<1>1. mode' \in PlannerModes
  BY DEF MovePtpDoor, Inv, ModeOK
<1>2. CASE t.kind = "bad" /\ t.named
  BY <1>1, <1>2, UnrecordedResult, RefusalKeepsInv DEF MovePtpDoor
<1>3. CASE ~(t.kind = "bad" /\ t.named)
  <2>1. PICK m : PlanAndExecute(m, SelectPlanner("PTP", mode))
    BY <1>3 DEF MovePtpDoor
  <2>2. SelectPlanner("PTP", mode).optimize \in BOOLEAN
    BY SelectsProfile DEF Inv, ModeOK
  <2>3. QED
    BY <1>1, <2>1, <2>2, PlanKeepsInv DEF PlanAndExecute
<1>4. QED
  BY <1>2, <1>3

LEMMA MoveLinearKeepsInv ==
  ASSUME Inv, pc = "idle", NEW link, NEW place, MoveLinearDoor(link, place)
  PROVE  Inv'
<1>1. mode' \in PlannerModes
  BY DEF MoveLinearDoor, Inv, ModeOK
<1>2. PICK m : PlanAndExecute(m, SelectPlanner("LINEAR", mode))
  BY DEF MoveLinearDoor
<1>3. SelectPlanner("LINEAR", mode).optimize \in BOOLEAN
  BY SelectsProfile DEF Inv, ModeOK
<1>4. QED
  BY <1>1, <1>2, <1>3, PlanKeepsInv DEF PlanAndExecute

LEMMA PoseGoalKeepsInv ==
  ASSUME Inv, pc = "idle", NEW t, NEW cleared, NEW profile, profile.optimize \in BOOLEAN,
         PoseGoal(cleared, t, profile), mode' \in PlannerModes
  PROVE  Inv'
<1>1. ASSUME PlanAndExecute(mgi', profile) PROVE Inv'
  BY <1>1, PlanKeepsInv DEF PlanAndExecute
<1>2. ASSUME NEW r, IsResult(r), ~r.success, Refuse(r) PROVE Inv'
  BY <1>2, RefusalKeepsInv
<1>3. ASSUME NEW cause, Refuse(RequestRefused(cause)) PROVE Inv'
  BY <1>2, <1>3, RequestResult
<1>4. ASSUME Refuse(Failed("PLAN", NoCause, "NO_IK_SOLUTION")) PROVE Inv'
  BY <1>2, <1>4, FailedResult DEF Phases
<1>5. CASE ~setup.resolves
  BY <1>5, <1>1, <1>3 DEF PoseGoal
<1>6. CASE setup.resolves
  BY <1>6, <1>1, <1>3, <1>4 DEF PoseGoal
<1>7. QED
  BY <1>5, <1>6

LEMMA MoveCollisionFreeKeepsInv ==
  ASSUME Inv, pc = "idle", NEW t, NEW asked \in PlannerModes, MoveCollisionFreeDoor(t, asked)
  PROVE  Inv'
<1>1. PICK profile :
        /\ profile.optimize \in BOOLEAN
        /\ \/ PoseGoal(ClearPoseTargets(mgi), t, profile)
           \/ PlanAndExecute(mgi', profile)
  <2>1. mode' \in PlannerModes
    BY ModeKept DEF MoveCollisionFreeDoor
  <2>2. SelectPlanner("COLLISION_FREE", mode').optimize \in BOOLEAN
        /\ SelectPlanner("COLLISION_FREE_OPTIMIZED", mode').optimize \in BOOLEAN
    BY <2>1, SelectsProfile
  <2>3. QED
    BY <2>2 DEF MoveCollisionFreeDoor
<1>2. mode' \in PlannerModes
  BY ModeKept DEF MoveCollisionFreeDoor
<1>3. QED
  BY <1>1, <1>2, PoseGoalKeepsInv, PlanKeepsInv DEF PlanAndExecute
LEMMA SequenceKeepsInv ==
  ASSUME Inv, pc \in {"idle", "start"}, NEW items, ExecuteProcessSequence(items), UNCHANGED mode
  PROVE  Inv'
<1>1. mode' \in PlannerModes
  BY DEF Inv, ModeOK
<1>2. CASE items = <<>> /\ Refuse(Unrecorded)
  BY <1>1, <1>2, UnrecordedResult, RefusalKeepsInv
<1>3. CASE Refuse(Unanswered("SERVER_UNAVAILABLE"))
  <2>1. IsResult(Unanswered("SERVER_UNAVAILABLE")) /\ ~Unanswered("SERVER_UNAVAILABLE").success
    BY FailedResult DEF Unanswered, Phases
  <2>2. QED
    BY <1>1, <1>3, <2>1, RefusalKeepsInv
<1>4. CASE pc' = "send" /\ UNCHANGED <<moved, res>>
  BY <1>1, <1>4 DEF Inv, ModeOK, Attempting, Quiet, Answered, Told
<1>5. QED
  BY <1>2, <1>3, <1>4 DEF ExecuteProcessSequence

LEMMA MoveCircularKeepsInv ==
  ASSUME Inv, pc = "idle", NEW link, NEW place, MoveCircularDoor(link, place)
  PROVE  Inv'
<1>1. mode' = mode /\ mode' \in PlannerModes
  BY DEF MoveCircularDoor, Inv, ModeOK
<1>2. QED
  BY <1>1, SequenceKeepsInv, RequestResult, RefusalKeepsInv DEF MoveCircularDoor

LEMMA CartesianKeepsInv ==
  ASSUME Inv, pc \in {"idle", "start"}, NEW places, NEW frame,
         ExecuteCartesianProcess(places, frame)
  PROVE  Inv'
<1>1. mode' = mode /\ mode' \in PlannerModes
  BY DEF ExecuteCartesianProcess, Inv, ModeOK
<1>2. CASE CartesianPath(places, frame)
  <2>1. CASE Refuse(Unrecorded)
    BY <1>1, <2>1, UnrecordedResult, RefusalKeepsInv
  <2>2. CASE Refuse(RequestRefused("STATE_UNAVAILABLE"))
    BY <1>1, <2>2, RequestResult, RefusalKeepsInv
  <2>3. CASE pc' = "compute" /\ UNCHANGED <<moved, res>>
    BY <1>1, <2>3 DEF Inv, ModeOK, Attempting, Quiet, Answered, Told
  <2>4. QED
    BY <1>2, <2>1, <2>2, <2>3 DEF CartesianPath
<1>3. QED
  BY <1>1, <1>2, SequenceKeepsInv DEF ExecuteCartesianProcess

\* The result r of a call that has asked MoveIt for something.
LEMMA ReturnKeepsInv ==
  ASSUME Inv, NEW r, IsResult(r), Return(r), UNCHANGED mode,
         r.success => r.phase = "NONE" /\ r.cause = NoCause,
         r.phase # "REQUEST", moved' => ~NamesTarget(r)
  PROVE  Inv'
  BY DEF Return, Inv, ModeOK, Attempting, Quiet, Answered, Told

\* A failure that names this target is a plan's, and nothing has moved.
LEMMA FailureKeepsInv ==
  ASSUME Inv, NEW phase \in Phases \ {"REQUEST"}, NEW cause, NEW code,
         Return(Failed(phase, cause, code)), UNCHANGED mode,
         \/ ~moved'
         \/ phase \in {"NONE", "EXECUTE"}
         \/ phase = "PLAN_AND_EXECUTE" /\ (cause # NoCause \/ code \notin TargetCodes)
  PROVE  Inv'
<1>1. moved' => ~NamesTarget(Failed(phase, cause, code))
  BY FailedResult DEF NamesTarget
<1>2. QED
  BY <1>1, FailedResult, ReturnKeepsInv

LEMMA DoorStepKeepsInv ==
  ASSUME Inv, DoorStep
  PROVE  Inv'
<1> USE DEF Phases
<1>1. ASSUME NEW code, PlanRefused(code) PROVE Inv'
  <2>1. pc = "plan" /\ ~moved /\ UNCHANGED mode /\ mode' \in PlannerModes
        /\ job.chomp \in BOOLEAN /\ job.attempt \in Nat /\ job.profile.optimize \in BOOLEAN
    BY <1>1 DEF PlanRefused, Inv, ModeOK, Attempting, Quiet
  <2>2. CASE job.chomp
    BY <1>1, <2>1, <2>2, PlanKeepsInv DEF PlanRefused
  <2>3. CASE ~job.chomp /\ job.attempt < PlanRetries + 1
    <3>1. job.attempt + 1 \in Nat /\ ~(job.attempt >= PlanRetries + 1)
      BY <2>1, <2>3, DoorAssumption DEF DoorAssumption
    <3>2. DoPlan(mgi, job.profile, job.profile.optimize, job.attempt + 1)
      BY <1>1, <2>1, <2>3, <3>1, Zenon DEF PlanRefused
    <3>3. QED
      BY <2>1, <3>1, <3>2, PlanKeepsInv
  <2>4. CASE ~job.chomp /\ ~(job.attempt < PlanRetries + 1)
    <3>1. job.attempt >= PlanRetries + 1
      BY <2>1, <2>4, DoorAssumption DEF DoorAssumption
    <3>2. Return(Failed("PLAN", NoCause, code)) /\ ~moved'
      BY <1>1, <2>1, <2>4, <3>1 DEF PlanRefused
    <3>3. QED
      BY <2>1, <3>2, FailureKeepsInv
  <2>5. QED
    BY <2>2, <2>3, <2>4
<1>2. ASSUME NEW cause, PlanInvalid(cause) PROVE Inv'
  BY <1>2, FailureKeepsInv DEF PlanInvalid, Inv, Quiet
<1>3. ASSUME PlanFound \/ GoalAccepted \/ \E whole \in BOOLEAN : PathComputed(whole)
      PROVE Inv'
  BY <1>3 DEF PlanFound, GoalAccepted, PathComputed, call,
              Inv, ModeOK, Attempting, Quiet, Answered, Told
<1>4. CASE ExecutionDone
  BY <1>4, SucceededResult, ReturnKeepsInv DEF ExecutionDone
<1>5. ASSUME NEW code, ExecutionFailed(code) PROVE Inv'
  <2>1. CASE job.at = "cartesian"
    BY <1>5, <2>1, FailureKeepsInv DEF ExecutionFailed, Unrecorded
  <2>2. CASE job.at # "cartesian"
    BY <1>5, <2>2, FailureKeepsInv DEF ExecutionFailed
  <2>3. QED
    BY <2>1, <2>2
<1>6. ASSUME NEW code, SequencePlanRefused(code) PROVE Inv'
  BY <1>6, FailureKeepsInv DEF SequencePlanRefused, Inv, Quiet
<1>7. ASSUME NEW code \in ExecutionCodes, SequenceFailed(code) PROVE Inv'
  BY <1>7, FailureKeepsInv DEF SequenceFailed, ExecutionCodes, TargetCodes
<1>8. CASE GoalRejected \/ GoalSendTimeout \/ ResultTimeout
  BY <1>8, FailureKeepsInv DEF GoalRejected, GoalSendTimeout, ResultTimeout, Unanswered, NoCause
<1>9. CASE SequenceDone
  BY <1>9, SucceededResult, ReturnKeepsInv DEF SequenceDone
<1>10. ASSUME NEW code, PathNotComputed(code) PROVE Inv'
  BY <1>10, FailureKeepsInv DEF PathNotComputed
<1>11. QED
  BY <1>1, <1>2, <1>3, <1>4, <1>5, <1>6, <1>7, <1>8, <1>9, <1>10 DEF DoorStep
-----------------------------------------------------------------------------
(* The nodes.                                                              *)

LEMMA NodeRefusalKeepsInv ==
  ASSUME Inv, pc \in {"idle", "start"}, NEW cause, NEW phase \in Phases,
         \/ RefuseNode(RequestRefused(cause))
         \/ RefuseNode(Failed(phase, cause, NoCode))
         \/ RefuseNode(Succeeded)
  PROVE  Inv'
<1>1. mode' \in PlannerModes
  BY DEF RefuseNode, Inv, ModeOK
<1>2. QED
  BY <1>1, RefusalKeepsInv, RequestResult, FailedResult, SucceededResult DEF RefuseNode

LEMMA MoveWaypointKeepsInv ==
  ASSUME Inv, NEW t, NEW planner \in Planners, NEW motion \in {"lin", "circ", "ptp", "free"},
         MoveWaypoint(t, motion, planner)
  PROVE  Inv'
<1>1. pc = "idle"
  BY DEF MoveWaypoint, Tick
<1>2. CASE RefuseNode(Exception)
  BY <1>1, <1>2, NodeRefusalKeepsInv DEF Exception, Phases
<1>3. CASE motion \in {"ptp", "free"}
  <2>1. MoveMode(motion, planner) \in PlannerModes
    BY <1>3, NodesAssumption DEF NodesAssumption, MoveMode, PlannerModes, Inv, ModeOK
  <2>2. MoveCollisionFreeDoor(t, MoveMode(motion, planner))
    BY <1>3 DEF MoveWaypoint
  <2>3. QED
    BY <1>1, <2>1, <2>2, MoveCollisionFreeKeepsInv
<1>4. CASE motion \in {"lin", "circ"}
  BY <1>1, <1>2, <1>4, MoveLinearKeepsInv, MoveCircularKeepsInv DEF MoveWaypoint
<1>5. QED
  BY <1>3, <1>4

LEMMA FollowPathKeepsInv ==
  ASSUME Inv, NEW ranged, NEW from, NEW to, FollowPath(ranged, from, to)
  PROVE  Inv'
<1>1. pc = "idle"
  BY DEF FollowPath, Tick
<1>2. CASE RefuseNode(RequestRefused("PATH_RANGE")) \/ RefuseNode(RequestRefused("PATH_GEOMETRY"))
  BY <1>1, <1>2, NodeRefusalKeepsInv DEF Phases
<1>3. CASE pc' = "start" /\ UNCHANGED <<setup, mode, mgi, job, call, robot, loose>>
  BY <1>1, <1>3 DEF call, Inv, ModeOK, Attempting, Quiet, Answered, Told
<1>4. QED
  BY <1>2, <1>3 DEF FollowPath

LEMMA StartKeepsInv ==
  ASSUME Inv, NotAtStart \/ AtOneState \/ SendRun
  PROVE  Inv'
<1>1. pc = "start"
  BY DEF NotAtStart, AtOneState, SendRun
<1>2. CASE NotAtStart
  BY <1>1, <1>2, NodeRefusalKeepsInv DEF NotAtStart, Phases
<1>3. CASE AtOneState
  BY <1>1, <1>3, NodeRefusalKeepsInv DEF AtOneState, Phases
<1>4. CASE SendRun
  <2>1. CASE RefuseNode(RequestRefused("UNKNOWN_PROFILE")) \/ RefuseNode(Exception)
    BY <1>1, <2>1, NodeRefusalKeepsInv DEF Exception, Phases
  <2>2. CASE ExecuteProcessSequence(ask.items) /\ UNCHANGED <<mode, mgi>>
    BY <1>1, <2>2, SequenceKeepsInv
  <2>3. ASSUME NEW places, ExecuteCartesianProcess(places, Base) PROVE Inv'
    BY <1>1, <2>3, CartesianKeepsInv
  <2>4. QED
    BY <1>4, <2>1, <2>2, <2>3 DEF SendRun
<1>5. QED
  BY <1>2, <1>3, <1>4

\* A result that is classified and not a fault names this target.
LEMMA EndKeepsInv ==
  ASSUME Inv, EndFailed \/ EndMoved \/ EndRun \/ NotArrived
  PROVE  Inv'
<1>1. pc = "returned" /\ pc' = "ended" /\ UNCHANGED <<mode, job, sent, moved, ask>>
  BY DEF EndFailed, EndMoved, EndRun, NotArrived, End, call
<1>2. NoFault.phase = "none written" /\ "none written" \notin Phases /\ "NONE" \in Phases
  BY DEF NoFault, Phases
<1>3. Told'
  <2>1. CASE EndFailed
    <3>1. /\ ~RunResult.success /\ RunResult.phase = res.phase /\ RunResult.cause = res.cause
          /\ RunResult.code = res.code /\ RunResult.phase \in Phases
      BY <1>1, <2>1 DEF EndFailed, RunResult, Inv, Answered, IsResult
    <3>2. moved => ~NamesTarget(RunResult)
      BY <1>1, <3>1 DEF NamesTarget, Inv, Answered
    <3>3. wrote' = Fault(RunResult) /\ status' = "FAILURE"
      BY <2>1 DEF EndFailed, End
    <3>4. MotionFaultText(RunResult).phase = res.phase
      BY <3>1 DEF MotionFaultText
    <3>5. ClassifyMotionFailure(RunResult) = "TARGET" => NamesTarget(RunResult)
      BY <3>1 DEF ClassifyMotionFailure
    <3>6. ClassifyMotionFailure(RunResult) \in {"TARGET", "FAULT"}
      BY <3>1 DEF ClassifyMotionFailure
    <3>7. wrote' \in {NoFault, MotionFaultText(RunResult)}
          /\ (ask.node \in HasFaultPort /\ wrote' = NoFault => NamesTarget(RunResult))
      BY <1>2, <3>1, <3>3, <3>4, <3>5, <3>6 DEF Fault
    <3>8. res.phase = "REQUEST" => sent = {} /\ ~moved
      BY <1>1 DEF Inv, Answered
    <3>9. QED
      BY <1>1, <1>2, <3>2, <3>4, <3>7, <3>8 DEF Told
  <2>2. CASE EndMoved \/ EndRun
    BY <1>1, <1>2, <2>2 DEF EndMoved, EndRun, End, Told
  <2>3. CASE NotArrived
    <3>1. wrote'.phase = "EXECUTE"
      BY <2>3, FailedResult DEF NotArrived, End, MotionFaultText, Phases
    <3>2. QED
      BY <1>1, <1>2, <3>1 DEF Told
  <2>4. QED
    BY <2>1, <2>2, <2>3
<1>4. QED
  BY <1>1, <1>3 DEF Inv, ModeOK, Attempting, Quiet, Answered
\* Everything else leaves the door's call alone, or starts a new one.
LEMMA BetweenKeepsInv ==
  ASSUME Inv, MoveOn \/ ProcessEvent \/ Background \/ UNCHANGED vars
              \/ \E w \in Waypoints, p \in Places : Detect(w, p)
  PROVE  Inv'
<1>1. CASE MoveOn
  BY <1>1 DEF MoveOn, Inv, ModeOK, Attempting, Quiet, Answered, Told
<1>2. CASE ~MoveOn
  <2>1. UNCHANGED <<mode, pc, job, sent, moved, res, ask, status, wrote>>
    BY <1>2 DEF ProcessEvent, Background, Settle, LooseGoal, Detect, vars, door, node, call
  <2>2. QED
    BY <2>1 DEF Inv, ModeOK, Attempting, Quiet, Answered, Told
<1>3. QED
  BY <1>1, <1>2

LEMMA InitInv == Init => Inv
<1>1. LaunchMode \in PlannerModes
  BY DoorAssumption DEF DoorAssumption
<1>2. QED
  BY <1>1 DEF Init, DoorInit, EffectiveMode, PlannerModes,
              Inv, ModeOK, Attempting, Quiet, Answered, Told

LEMMA NextInv == Inv /\ [Next]_vars => Inv'
<1> SUFFICES ASSUME Inv, [Next]_vars PROVE Inv'
    OBVIOUS
<1>1. ASSUME NEW t, NEW planner \in Planners, NEW motion \in {"lin", "circ", "ptp", "free"},
             MoveWaypoint(t, motion, planner)
      PROVE Inv'
  BY <1>1, MoveWaypointKeepsInv
<1>2. CASE MoveWaypointRefused
  BY <1>2, NodeRefusalKeepsInv DEF MoveWaypointRefused, Tick, Exception, Phases
<1>3. CASE BadPort
  BY <1>3, NodeRefusalKeepsInv DEF BadPort, Tick, Unrecorded, Phases
<1>4. ASSUME NEW t, MovePtp(t) PROVE Inv'
  BY <1>4, MovePtpKeepsInv DEF MovePtp, Tick
<1>5. ASSUME NEW link, NEW place, MoveLinear(link, place) \/ MoveCircular(link, place) PROVE Inv'
  BY <1>5, MoveLinearKeepsInv, MoveCircularKeepsInv DEF MoveLinear, MoveCircular, Tick
<1>6. ASSUME NEW t, NEW planner \in Planners, MoveCollisionFree(t, planner) PROVE Inv'
  <2>1. MoveMode("free", planner) \in PlannerModes
    BY NodesAssumption DEF NodesAssumption, Inv, ModeOK, MoveMode
  <2>2. QED
    BY <1>6, <2>1, MoveCollisionFreeKeepsInv DEF MoveCollisionFree, Tick
<1>7. ASSUME NEW places, NEW frame, ExecuteProcessPath(places, frame) PROVE Inv'
  BY <1>7, CartesianKeepsInv DEF ExecuteProcessPath, Tick
<1>8. ASSUME NEW ranged, NEW from, NEW to, FollowPath(ranged, from, to) PROVE Inv'
  BY <1>8, FollowPathKeepsInv
<1>9. CASE FollowPathRefused
  BY <1>9, NodeRefusalKeepsInv DEF FollowPathRefused, Tick, Phases
<1>10. CASE DoorStep
  BY <1>10, DoorStepKeepsInv
<1>11. CASE NotAtStart \/ AtOneState \/ SendRun
  BY <1>11, StartKeepsInv
<1>12. CASE EndFailed \/ EndMoved \/ EndRun \/ NotArrived
  BY <1>12, EndKeepsInv
<1>13. CASE MoveOn \/ ProcessEvent \/ Background \/ UNCHANGED vars
            \/ \E w \in Waypoints, p \in Places : Detect(w, p)
  BY <1>13, BetweenKeepsInv
<1>14. QED
  BY <1>1, <1>2, <1>3, <1>4, <1>5, <1>6, <1>7, <1>8, <1>9, <1>10, <1>11, <1>12, <1>13
     DEF Next

-----------------------------------------------------------------------------
\* What a node says of a failure is true of what happened before it.
THEOREM Invariance == Spec => []Inv
  BY InitInv, NextInv, PTL DEF Spec

\* A canonical node that fails and writes no fault has moved nothing: the tree may try
\* another target.  A fault "during request" was written before anything was sent
\* (motion_failure.hpp, motion_types.hpp, the nodes' fault ports).
THEOREM FailuresToldTruly == Spec => []FailureToldTruly
<1>1. Inv => FailureToldTruly
  BY DEF Inv, Told, FailureToldTruly
<1>2. QED
  BY <1>1, Invariance, PTL
-----------------------------------------------------------------------------
(* What is asked of MoveIt, and where the robot is.                        *)

\* The robot is where its controller takes it, or still on its way.
Still == arm \in {drive, Elsewhere}

\* The path is one the loader accepted.
Accepted == path \in PathFiles /\ setup \in Setups /\ ParsePath(path, setup.backend)

\* A job goes somewhere, and the interface's frame is the base frame, but while a Cartesian
\* path, which keeps it in its locals, has set its own.
InCartesian == pc = "compute" \/ (pc = "execute" /\ job.at = "cartesian")
Framed ==
  /\ IF InCartesian THEN job.frame = Base ELSE mgi.frame = Base
  /\ pc = "compute" =>
       job = [at |-> "cartesian", frame |-> job.frame, whole |-> job.whole, to |-> job.to]
  /\ pc \in {"send", "sequence", "compute", "execute"} => job.to \in Somewhere

\* The selector's mode is that of the planner moves inherit.
Inherits == mode = EffectiveMode(inherited)

\* What the next attempt of a planned motion asks for.
Planned(profile) ==
  /\ profile.pipeline \in {"pilz", "ompl", "stomp"}
  /\ profile.pipeline \in HonouredBy(ask.planner)
  /\ profile.optimize => "chomp" \in HonouredBy(ask.planner)
Planning ==
  pc = "plan" =>
    /\ ask.node # "FollowPath" /\ Planned(job.profile)
    /\ ~Exempt => Goal(mgi) = {ask.target.need}

\* A run of the path, from before the robot was looked for until it has succeeded.
Running ==
  /\ ask.node = "FollowPath"
  /\ pc \in {"start", "send", "sequence", "compute", "execute"} \/ (pc = "returned" /\ res.success)

RunAsked ==
  /\ pc = "start" => ask.node = "FollowPath"
  /\ Running =>
      /\ ask.from \in 0..path.last /\ ask.to \in 0..path.last
      /\ \A i \in 0..path.last : ask.place[i] \in Places
      /\ RunInRange(path, ~path.dense, ask.from, ask.to)
      /\ path.dense => ask.from = 0 /\ ask.to = path.last
      /\ ask.items = [k \in 1..ask.to - ask.from |->
           Item(Need(Tip, ask.place[ask.from + k], Base),
                ~path.dense /\ path.continuity = "blend" /\ ask.from + k - 1 \in path.blend)]
      /\ loose # {} => ask.loose
      /\ pc \notin {"start", "returned"} => ask.from # ask.to
      /\ pc \in {"send", "sequence"} \/ (pc = "returned" /\ ask.from = ask.to) =>
           ask.loose \/ arm = ask.place[ask.from]

\* The run that just ended, until its event is dispatched or the next tick begins.
AtRunEnd ==
  at.state # -1 =>
    /\ pc \in {"ended", "idle"} /\ at.place \in Places
    /\ loose # {} => at.loose
    /\ at.state \in EventStates(path) => at.loose \/ arm = at.place

AskInv ==
  /\ TypeOK /\ Inherits /\ Still /\ Accepted /\ Framed /\ Planning /\ RunAsked /\ AtRunEnd
  /\ GoalsAsAsked /\ EventAtItsState

-----------------------------------------------------------------------------
(* The interface's targets, and the planner a mode selects.                *)

Interfaces == [type : {"joint", "pose"}, joint : Needs,
               poses : [Links -> Needs \union {NoTarget}], frame : Frames]

NodeNames == HasFaultPort \union {"none", "MovePtp", "MoveLinear",
               "MoveCircular", "MoveCollisionFree", "ExecuteProcessPath"}

LEMMA NeedIsTarget ==
  ASSUME NEW link, NEW place, NEW frame
  PROVE  Need(link, place, frame) # NoTarget
<1>1. "place" \in DOMAIN Need(link, place, frame) /\ "place" \notin DOMAIN NoTarget
  BY DEF Need, NoTarget
<1>. QED  BY <1>1

LEMMA PoseSet ==
  ASSUME NEW type, NEW joint, NEW poses, NEW frame, NEW link, NEW place
  PROVE  SetPoseTarget([type |-> type, joint |-> joint, poses |-> poses, frame |-> frame], link, place)
         = [type |-> "pose", joint |-> joint,
            poses |-> [poses EXCEPT ![link] = Need(link, place, frame)], frame |-> frame]
<1> DEFINE m == [type |-> type, joint |-> joint, poses |-> poses, frame |-> frame]
           n == [type |-> "pose", joint |-> joint, poses |-> poses, frame |-> frame]
           need == Need(link, place, frame)
<1>1. SetPoseTarget(m, link, place) = [[m EXCEPT !.type = "pose"] EXCEPT !.poses[link] = need]
  BY DEF SetPoseTarget
<1>2. [m EXCEPT !.type = "pose"] = n  OBVIOUS
<1>3. [n EXCEPT !.poses[link] = need]
        = [type |-> "pose", joint |-> joint, poses |-> [poses EXCEPT ![link] = need], frame |-> frame]
  OBVIOUS
<1>. QED  BY <1>1, <1>2, <1>3

\* Whatever the interface's targets were, a cleared one that is given a target asks for it
\* alone.
LEMMA PoseTargetAlone ==
  ASSUME NEW m \in Interfaces, NEW link \in Links, NEW place \in Places
  PROVE  LET n == SetPoseTarget(ClearPoseTargets(m), link, place) IN
           n \in Interfaces /\ n.frame = m.frame /\ Goal(n) = {Need(link, place, m.frame)}
<1> DEFINE need  == Need(link, place, m.frame)
           poses == [l \in Links |-> IF l = link THEN need ELSE NoTarget]
           n     == SetPoseTarget(ClearPoseTargets(m), link, place)
<1>1. need \in Needs /\ need # NoTarget  BY NeedIsTarget DEF Need, Needs, Interfaces
<1>2. n = [type |-> "pose", joint |-> m.joint, poses |-> poses, frame |-> m.frame]
  <2> DEFINE none == [l \in Links |-> NoTarget]
             c    == [type |-> m.type, joint |-> m.joint, poses |-> none, frame |-> m.frame]
  <2>1. ClearPoseTargets(m) = c  BY DEF ClearPoseTargets, Interfaces
  <2>2. SetPoseTarget(c, link, place) = [type |-> "pose", joint |-> m.joint,
                                         poses |-> [none EXCEPT ![link] = need], frame |-> m.frame]
    BY PoseSet
  <2>3. [none EXCEPT ![link] = need] = poses  OBVIOUS
  <2>. QED  BY <2>1, <2>2, <2>3
<1>3. Goal(n) = {poses[l] : l \in {k \in Links : poses[k] # NoTarget}}  BY <1>2 DEF Goal
<1>4. {k \in Links : poses[k] # NoTarget} = {link}  BY <1>1
<1>5. Goal(n) = {need}  BY <1>3, <1>4
<1>6. poses \in [Links -> Needs \union {NoTarget}]  BY <1>1
<1>. QED  BY <1>2, <1>5, <1>6 DEF Interfaces

LEMMA JointTargetAlone ==
  ASSUME NEW m \in Interfaces, NEW need \in Needs
  PROVE  LET n == SetJointTarget(ClearPoseTargets(m), need) IN
           n \in Interfaces /\ n.frame = m.frame /\ Goal(n) = {need}
BY DEF SetJointTarget, ClearPoseTargets, Interfaces, Goal

LEMMA ClearedInterface ==
  ASSUME NEW m \in Interfaces
  PROVE  ClearPoseTargets(m) \in Interfaces /\ ClearPoseTargets(m).frame = m.frame
BY DEF ClearPoseTargets, Interfaces

LEMMA SetJointsTypes ==
  ASSUME NEW m \in Interfaces, NEW t, t.need \in Needs
  PROVE  LET n == SetJoints(ClearPoseTargets(m), t) IN
           n \in Interfaces /\ n.frame = m.frame /\ (t.kind # "bad" => Goal(n) = {t.need})
BY ClearedInterface, JointTargetAlone DEF SetJoints

LEMMA LandedType ==
  ASSUME NEW goal
  PROVE  Landed(goal) \in Somewhere
<1>1. CASE \E place \in Places : goal = {Need(Tip, place, Base)}
  <2>1. PICK place \in Places : goal = {Need(Tip, place, Base)}  BY <1>1
  <2>2. (CHOOSE q \in Places : goal = {Need(Tip, q, Base)}) \in Places  BY <2>1
  <2>. QED  BY <1>1, <2>2 DEF Landed, Somewhere
<1>2. CASE ~\E place \in Places : goal = {Need(Tip, place, Base)}
  BY <1>2 DEF Landed, Somewhere
<1>. QED  BY <1>1, <1>2

\* The pipelines a planner's mode selects are those that may answer for it.
LEMMA SelectedPipelines ==
  ASSUME NEW m \in PlannerModes,
         NEW intent \in {"PTP", "LINEAR", "COLLISION_FREE", "COLLISION_FREE_OPTIMIZED"}
  PROVE  SelectPlanner(intent, m).pipeline \in {"pilz", "ompl", "stomp"}
BY DEF SelectPlanner, PlannerModes

\* Falling back twice is falling back once.
LEMMA ModeOfMode ==
  ASSUME NEW planner \in PlannerModes
  PROVE  EffectiveMode(EffectiveMode(planner)) = EffectiveMode(planner)
BY DEF EffectiveMode, PlannerModes

\* A collision-free move is asked for by its planner's name, or by the mode that name left.
LEMMA SelectedIsHonoured ==
  ASSUME NEW planner \in PlannerModes, NEW asked \in {planner, EffectiveMode(planner)}
  PROVE  LET profile == SelectPlanner(IF asked = "ompl_chomp" THEN "COLLISION_FREE_OPTIMIZED"
                                      ELSE "COLLISION_FREE", EffectiveMode(planner))
         IN  /\ profile.pipeline \in HonouredBy(planner)
             /\ profile.optimize => "chomp" \in HonouredBy(planner)
<1>1. CASE planner = "pilz"
  BY <1>1 DEF SelectPlanner, EffectiveMode, HonouredBy, PlannerModes
<1>2. CASE planner = "ompl"
  BY <1>2 DEF SelectPlanner, EffectiveMode, HonouredBy, PlannerModes
<1>3. CASE planner = "stomp"
  BY <1>3 DEF SelectPlanner, EffectiveMode, HonouredBy, PlannerModes
<1>4. CASE planner = "ompl_chomp"
  BY <1>4 DEF SelectPlanner, EffectiveMode, HonouredBy, PlannerModes
<1>. QED  BY <1>1, <1>2, <1>3, <1>4 DEF PlannerModes

LEMMA PtpIsHonoured ==
  ASSUME NEW planner \in PlannerModes
  PROVE  LET profile == SelectPlanner("PTP", EffectiveMode(planner))
         IN  /\ profile.pipeline \in HonouredBy(planner)
             /\ profile.optimize => "chomp" \in HonouredBy(planner)
<1>1. CASE planner \in {"pilz", "ompl"}
  BY <1>1 DEF SelectPlanner, EffectiveMode, HonouredBy, PlannerModes
<1>2. CASE planner = "stomp"
  BY <1>2 DEF SelectPlanner, EffectiveMode, HonouredBy, PlannerModes
<1>3. CASE planner = "ompl_chomp"
  BY <1>3 DEF SelectPlanner, EffectiveMode, HonouredBy, PlannerModes
<1>. QED  BY <1>1, <1>2, <1>3 DEF PlannerModes

LEMMA LinearIsHonoured ==
  ASSUME NEW m
  PROVE  /\ SelectPlanner("LINEAR", m).pipeline \in HonouredBy("pilz")
         /\ ~SelectPlanner("LINEAR", m).optimize
BY DEF SelectPlanner, HonouredBy

-----------------------------------------------------------------------------
(* The ticks of nodes.                                                     *)

\* What a tick leaves alone, whatever its node asks for.
LEMMA TickKeeps ==
  ASSUME AskInv, NEW a, Tick(a), a.node \in NodeNames, UNCHANGED <<setup, robot, loose>>,
         inherited' \in PlannerModes, mode' = EffectiveMode(inherited'),
         mgi' \in Interfaces, moved' \in BOOLEAN,
         pc' \in {"returned", "plan", "send", "compute", "start"}
  PROVE  TypeOK' /\ Inherits' /\ Still' /\ Accepted' /\ AtRunEnd' /\ EventAtItsState'
<1>1. /\ pc = "idle" /\ ticks < MaxTicks /\ ticks' = ticks + 1 /\ ask' = a
      /\ at' = [state |-> -1] /\ event' = [state |-> -1]
      /\ UNCHANGED <<path, bb, status, wrote, setup, arm, drive, loose>>
  BY DEF Tick, NoRun, NoEvent, robot
<1>2. path.last \in Nat  BY NodesAssumption DEF AskInv, Accepted
<1>3. ticks' \in 0..MaxTicks
  <2>1. ticks \in 0..MaxTicks /\ MaxTicks \in Nat  BY NodesAssumption DEF AskInv, TypeOK
  <2>. QED  BY <1>1, <2>1
<1>4. at'.state = -1 /\ event'.state = -1  BY <1>1
<1>5. TypeOK'
  <2>1. mode' \in PlannerModes  BY ModeKept
  <2>2. DoorTypeOK'  BY <1>1, <2>1 DEF AskInv, TypeOK, DoorTypeOK, Interfaces, Somewhere
  <2>. QED  BY <1>1, <1>2, <1>3, <1>4, <2>2 DEF AskInv, TypeOK, NodeNames
<1>6. Inherits' /\ Still' /\ Accepted'  BY <1>1 DEF AskInv, Inherits, Still, Accepted
<1>7. AtRunEnd' /\ EventAtItsState'  BY <1>4 DEF AtRunEnd, EventAtItsState
<1>. QED  BY <1>5, <1>6, <1>7

\* A tick that is refused asks MoveIt for nothing.
LEMMA RefusedTick ==
  ASSUME Inv, AskInv, NEW a, Tick(a), a.node \in NodeNames, UNCHANGED <<setup, robot, loose>>,
         inherited' \in PlannerModes, mode' = EffectiveMode(inherited'),
         mgi' \in Interfaces, mgi'.frame = Base, NEW r, Refuse(r), ~r.success
  PROVE  AskInv'
<1>1. pc = "idle" /\ pc' = "returned" /\ sent' = {} /\ res' = r /\ moved' = FALSE
  BY DEF Tick, Refuse, Return, Inv, Quiet
<1>2. TypeOK' /\ Inherits' /\ Still' /\ Accepted' /\ AtRunEnd' /\ EventAtItsState'  BY <1>1, TickKeeps
<1>3. Framed' /\ Planning' /\ RunAsked' /\ GoalsAsAsked'
  BY <1>1 DEF Framed, InCartesian, Planning, RunAsked, Running, GoalsAsAsked
<1>. QED  BY <1>2, <1>3 DEF AskInv

\* A tick that plans asks for its target alone, of a pipeline of its planner.
LEMMA PlannedTick ==
  ASSUME Inv, AskInv, NEW who \in NodeNames \ {"FollowPath", "ExecuteProcessPath"}, NEW t, NEW planner,
         Tick(AskTarget(who, t, planner)), UNCHANGED <<setup, robot, loose>>,
         inherited' \in PlannerModes, mode' = EffectiveMode(inherited'),
         mgi' \in Interfaces, mgi'.frame = Base,
         NEW profile, PlanAndExecute(mgi', profile), profile.optimize \in BOOLEAN,
         profile.pipeline \in {"pilz", "ompl", "stomp"},
         profile.pipeline \in HonouredBy(planner),
         profile.optimize => "chomp" \in HonouredBy(planner),
         t.kind # "bad" => Goal(mgi') = {t.need}
  PROVE  AskInv'
<1> DEFINE a == AskTarget(who, t, planner)
           by == IF profile.optimize THEN "chomp" ELSE profile.pipeline
           r  == [by |-> by, goal |-> Goal(mgi')]
<1>1. /\ pc = "idle" /\ pc' = "plan" /\ sent' = {r} /\ moved' = FALSE
      /\ ask' = a /\ job'.profile = profile
  <2>1. pc = "idle" /\ ask' = a /\ sent = {} /\ moved = FALSE  BY DEF Tick, Inv, Quiet, AskInv, TypeOK, DoorTypeOK
  <2>2. /\ pc' = "plan" /\ moved' = moved
        /\ job' = [at |-> "plan", profile |-> profile, chomp |-> profile.optimize, attempt |-> 1]
        /\ sent' = sent \union {r}
    BY DEF PlanAndExecute, DoPlan
  <2>. QED  BY <2>1, <2>2
<1>2. a.node = who /\ a.target = t /\ a.planner = planner /\ "target" \in DOMAIN a
  BY DEF AskTarget
<1>3. TypeOK' /\ Inherits' /\ Still' /\ Accepted' /\ AtRunEnd' /\ EventAtItsState'  BY <1>1, <1>2, TickKeeps
<1>4. Exempt' \/ t.kind # "bad"  BY <1>1, <1>2 DEF Exempt
<1>5. Framed' /\ RunAsked'  BY <1>1, <1>2 DEF Framed, InCartesian, RunAsked, Running
<1>6. Planning'  BY <1>1, <1>2, <1>4 DEF Planning, Planned
<1>7. GoalsAsAsked'
  <2> SUFFICES ASSUME NEW q \in sent'
               PROVE  PlannerAsAsked(q)' /\ (t.kind # "bad" => TargetAsAsked(q)')
    BY <1>4 DEF GoalsAsAsked
  <2>1. q.by = by /\ (t.kind # "bad" => q.goal = {t.need})
    <3> HIDE DEF by
    <3>1. q = r  BY <1>1
    <3>. QED  BY <3>1
  <2>2. by \notin {"sequence", "cartesian"} /\ by \in HonouredBy(planner)  OBVIOUS
  <2>3. HonouredBy(ask.planner)' = HonouredBy(planner)  BY <1>1, <1>2 DEF HonouredBy
  <2> HIDE DEF by, a
  <2>. QED  BY <1>1, <1>2, <2>1, <2>2, <2>3 DEF TargetAsAsked, PlannerAsAsked
<1>. QED  BY <1>3, <1>5, <1>6, <1>7 DEF AskInv

\* A tick that sends a path, through the sequence backend.
LEMMA SequenceTick ==
  ASSUME Inv, AskInv, NEW a, Tick(a), a.node \in NodeNames \ {"FollowPath"}, UNCHANGED <<mode, mgi, inherited>>,
         NEW items, ExecuteProcessSequence(items),
         items # <<>> => Exempt' \/ AskedItems' = SequenceGoal(items)
  PROVE  AskInv'
<1>1. /\ mgi \in Interfaces /\ mgi.frame = Base /\ pc = "idle" /\ ask' = a
      /\ inherited \in PlannerModes /\ mode = EffectiveMode(inherited)
      /\ UNCHANGED <<setup, robot, loose>>
  BY DEF AskInv, Inherits, TypeOK, DoorTypeOK, Interfaces, Framed, InCartesian, Tick, ExecuteProcessSequence
<1>2. CASE Refuse(Unrecorded)
  BY <1>1, <1>2, RefusedTick, UnrecordedResult
<1>3. CASE Refuse(Unanswered("SERVER_UNAVAILABLE"))
  <2>1. ~Unanswered("SERVER_UNAVAILABLE").success  BY DEF Unanswered, Failed
  <2>. QED  BY <1>1, <1>3, <2>1, RefusedTick
<1>4. CASE /\ items # <<>> /\ pc' = "send"
           /\ job' = [at |-> "sequence", to |-> Landed({items[Len(items)].need})]
           /\ sent' = sent \union {[by |-> "sequence", items |-> SequenceGoal(items)]}
           /\ UNCHANGED <<moved, res>>
  <2>1. moved' = FALSE /\ sent' = {[by |-> "sequence", items |-> SequenceGoal(items)]}
        /\ job'.to \in Somewhere
    BY <1>1, <1>4, LandedType DEF Inv, Quiet
  <2>2. TypeOK' /\ Inherits' /\ Still' /\ Accepted' /\ AtRunEnd' /\ EventAtItsState'  BY <1>1, <1>4, <2>1, TickKeeps
  <2>3. Framed' /\ Planning' /\ RunAsked'
    BY <1>1, <1>4, <2>1 DEF Framed, InCartesian, Planning, RunAsked, Running
  <2>4. GoalsAsAsked'
    <3> SUFFICES ASSUME NEW q \in sent' PROVE PlannerAsAsked(q)' /\ (~Exempt' => TargetAsAsked(q)')
      BY DEF GoalsAsAsked
    <3>1. q.by = "sequence" /\ q.items = SequenceGoal(items)  BY <2>1
    <3>. QED  BY <1>4, <3>1 DEF TargetAsAsked, PlannerAsAsked
  <2>. QED  BY <2>2, <2>3, <2>4 DEF AskInv
<1>. QED  BY <1>2, <1>3, <1>4 DEF ExecuteProcessSequence

\* A tick that sends a path, through the Cartesian backend, which sets its frame.
LEMMA CartesianTick ==
  ASSUME Inv, AskInv, NEW a, Tick(a), a.node \in NodeNames \ {"FollowPath"}, UNCHANGED <<mode, inherited>>,
         NEW places, NEW frame \in Frames, CartesianPath(places, frame),
         Len(places) >= 2 =>
           AskedItems' = [k \in 1..Len(places) |-> Item(Need(Tip, places[k], frame), FALSE)]
  PROVE  AskInv'
<1>1. /\ mgi \in Interfaces /\ mgi.frame = Base /\ pc = "idle" /\ ask' = a
      /\ inherited \in PlannerModes /\ mode = EffectiveMode(inherited)
      /\ UNCHANGED <<setup, robot, loose>>
  BY DEF AskInv, Inherits, TypeOK, DoorTypeOK, Interfaces, Framed, InCartesian, Tick, CartesianPath
<1>2. CASE Refuse(Unrecorded) /\ mgi' = mgi
  BY <1>1, <1>2, RefusedTick, UnrecordedResult
<1>3. CASE Refuse(RequestRefused("STATE_UNAVAILABLE")) /\ mgi' = mgi
  BY <1>1, <1>3, RefusedTick, RequestResult
<1>4. CASE /\ Len(places) >= 2
           /\ mgi' = [mgi EXCEPT !.frame = frame]
           /\ pc' = "compute"
           /\ job' = [at |-> "cartesian", frame |-> mgi.frame, whole |-> TRUE,
                      to |-> Landed({Need(Tip, places[Len(places)], frame)})]
           /\ sent' = sent \union
                {[by |-> "cartesian",
                  items |-> [k \in 1..Len(places) |-> Item(Need(Tip, places[k], mgi'.frame), FALSE)]]}
           /\ UNCHANGED <<moved, res>>
  <2>1. mgi' \in Interfaces /\ mgi'.frame = frame  BY <1>1, <1>4 DEF Interfaces
  <2>2. /\ moved' = FALSE /\ job'.to \in Somewhere /\ job'.frame = Base
        /\ job' = [at |-> "cartesian", frame |-> job'.frame, whole |-> job'.whole, to |-> job'.to]
    BY <1>1, <1>4, LandedType DEF Inv, Quiet, AskInv, TypeOK, DoorTypeOK
  <2>3. TypeOK' /\ Inherits' /\ Still' /\ Accepted' /\ AtRunEnd' /\ EventAtItsState'
    BY <1>1, <1>4, <2>1, <2>2, TickKeeps
  <2>4. Framed' /\ Planning' /\ RunAsked'
    BY <1>1, <1>4, <2>2 DEF Framed, InCartesian, Planning, RunAsked, Running
  <2>5. GoalsAsAsked'
    <3> SUFFICES ASSUME NEW q \in sent' PROVE PlannerAsAsked(q)' /\ TargetAsAsked(q)'
      BY DEF GoalsAsAsked
    <3>1. sent = {}  BY <1>1 DEF Inv, Quiet
    <3>2. q.by = "cartesian" /\ q.items = [k \in 1..Len(places) |-> Item(Need(Tip, places[k], frame), FALSE)]
      <4> DEFINE its(f) == [k \in 1..Len(places) |-> Item(Need(Tip, places[k], f), FALSE)]
      <4>1. sent' = {[by |-> "cartesian", items |-> its(mgi'.frame)]}  BY <1>4, <3>1
      <4> HIDE DEF its
      <4>2. q.by = "cartesian" /\ q.items = its(frame)  BY <2>1, <4>1
      <4>. QED  BY <4>2 DEF its
    <3>. QED  BY <1>4, <3>2 DEF TargetAsAsked, PlannerAsAsked
  <2>. QED  BY <2>3, <2>4, <2>5 DEF AskInv
<1>. QED  BY <1>2, <1>3, <1>4 DEF CartesianPath

\* The interface between two calls.
LEMMA BetweenCalls ==
  ASSUME AskInv, pc \in {"idle", "start"}
  PROVE  /\ mgi \in Interfaces /\ mgi.frame = Base /\ moved \in BOOLEAN
         /\ mode \in PlannerModes /\ inherited \in PlannerModes /\ mode = EffectiveMode(inherited)
BY DEF AskInv, TypeOK, DoorTypeOK, Inherits, Interfaces, Framed, InCartesian

\* A target a node may name.
IsTarget(t) == t.need = Need(t.need.link, t.need.place, Base) /\ t.need \in Needs

LEMMA LinearTick ==
  ASSUME Inv, AskInv, NEW who \in NodeNames \ {"FollowPath", "ExecuteProcessPath"}, NEW t, IsTarget(t),
         Tick(AskTarget(who, t, "pilz")), UNCHANGED inherited,
         MoveLinearDoor(t.need.link, t.need.place)
  PROVE  AskInv'
<1> DEFINE n == SetPoseTarget(ClearPoseTargets(mgi), t.need.link, t.need.place)
<1>1. /\ pc = "idle" /\ mgi \in Interfaces /\ mgi.frame = Base /\ mode \in PlannerModes
      /\ inherited \in PlannerModes /\ mode = EffectiveMode(inherited)
  BY BetweenCalls DEF Tick
<1>2. t.need.link \in Links /\ t.need.place \in Places  BY DEF IsTarget, Needs
<1>3. n \in Interfaces /\ n.frame = Base /\ Goal(n) = {t.need}
  BY <1>1, <1>2, PoseTargetAlone DEF IsTarget
<1>4. /\ mgi' = n /\ PlanAndExecute(mgi', SelectPlanner("LINEAR", mode))
      /\ mode' = mode /\ UNCHANGED <<setup, robot, loose>>
  BY DEF MoveLinearDoor
<1>5. /\ SelectPlanner("LINEAR", mode).optimize \in BOOLEAN
      /\ SelectPlanner("LINEAR", mode).pipeline \in {"pilz", "ompl", "stomp"}
  BY <1>1, SelectsProfile, SelectedPipelines
<1>6. /\ SelectPlanner("LINEAR", mode).pipeline \in HonouredBy("pilz")
      /\ ~SelectPlanner("LINEAR", mode).optimize
  BY LinearIsHonoured
<1>. QED  BY <1>1, <1>3, <1>4, <1>5, <1>6, PlannedTick

LEMMA PtpTick ==
  ASSUME Inv, AskInv, NEW t \in JointTargets, MovePtp(t)
  PROVE  AskInv'
<1>1. /\ pc = "idle" /\ mgi \in Interfaces /\ mgi.frame = Base /\ mode \in PlannerModes
      /\ inherited \in PlannerModes /\ mode = EffectiveMode(inherited)
  BY BetweenCalls DEF MovePtp, Tick
<1>2. t.need \in Needs
  BY DoorAssumption DEF JointTargets, JointTarget, BadTarget, Need, Needs
<1>3. /\ Tick(AskTarget("MovePtp", t, inherited)) /\ UNCHANGED <<mode, inherited, setup, robot, loose>>
      /\ AskTarget("MovePtp", t, inherited).node = "MovePtp" /\ "MovePtp" \in NodeNames
  BY DEF MovePtp, MovePtpDoor, AskTarget, NodeNames
<1>4. CASE mgi' = ClearPoseTargets(mgi) /\ Refuse(Unrecorded)
  BY <1>1, <1>3, <1>4, ClearedInterface, RefusedTick, UnrecordedResult
<1>5. CASE mgi' = SetJoints(ClearPoseTargets(mgi), t) /\ PlanAndExecute(mgi', SelectPlanner("PTP", mode))
  <2>1. /\ SelectPlanner("PTP", mode).optimize \in BOOLEAN
        /\ SelectPlanner("PTP", mode).pipeline \in {"pilz", "ompl", "stomp"}
        /\ SelectPlanner("PTP", mode).pipeline \in HonouredBy(inherited)
        /\ SelectPlanner("PTP", mode).optimize => "chomp" \in HonouredBy(inherited)
    BY <1>1, SelectsProfile, SelectedPipelines, PtpIsHonoured
  <2>2. mgi' \in Interfaces /\ mgi'.frame = Base /\ (t.kind # "bad" => Goal(mgi') = {t.need})
    BY <1>1, <1>2, <1>5, SetJointsTypes
  <2>. QED  BY <1>1, <1>3, <1>5, <2>1, <2>2, PlannedTick
<1>. QED  BY <1>4, <1>5 DEF MovePtp, MovePtpDoor


LEMMA CollisionFreeTick ==
  ASSUME Inv, AskInv, NEW who \in NodeNames \ {"FollowPath", "ExecuteProcessPath"}, NEW t, IsTarget(t),
         NEW planner \in PlannerModes, NEW asked \in {planner, EffectiveMode(planner)},
         inherited' = planner,
         Tick(AskTarget(who, t, planner)), MoveCollisionFreeDoor(t, asked)
  PROVE  AskInv'
<1> DEFINE a       == AskTarget(who, t, planner)
           cleared == ClearPoseTargets(mgi)
           intent  == IF asked = "ompl_chomp" THEN "COLLISION_FREE_OPTIMIZED" ELSE "COLLISION_FREE"
           profile == SelectPlanner(intent, EffectiveMode(planner))
<1>1. pc = "idle" /\ mgi \in Interfaces /\ mgi.frame = Base
  BY BetweenCalls DEF Tick
<1>2. /\ mode' = EffectiveMode(planner) /\ UNCHANGED <<setup, robot, loose>>
      /\ a.node = who /\ mode' \in PlannerModes
  BY ModeKept, ModeOfMode DEF MoveCollisionFreeDoor, AskTarget
<1>3. /\ profile.optimize \in BOOLEAN /\ profile.pipeline \in {"pilz", "ompl", "stomp"}
      /\ profile.pipeline \in HonouredBy(planner)
      /\ profile.optimize => "chomp" \in HonouredBy(planner)
  <2>1. EffectiveMode(planner) \in PlannerModes  BY ModeKept
  <2>2. intent \in {"PTP", "LINEAR", "COLLISION_FREE", "COLLISION_FREE_OPTIMIZED"}  OBVIOUS
  <2>3. profile.optimize \in BOOLEAN /\ profile.pipeline \in {"pilz", "ompl", "stomp"}
    BY <2>1, <2>2, SelectsProfile, SelectedPipelines
  <2>. QED  BY <2>3, SelectedIsHonoured
<1>4. /\ t.need.link \in Links /\ t.need.place \in Places /\ t.need \in Needs
      /\ t.need = Need(t.need.link, t.need.place, Base)
  BY DEF IsTarget, Needs
<1>5. cleared \in Interfaces /\ cleared.frame = Base  BY <1>1, ClearedInterface
<1>6. \/ t.kind = "pose" /\ PoseGoal(cleared, t, profile)
      \/ mgi' = SetJoints(cleared, t) /\ PlanAndExecute(mgi', profile)
  BY <1>2 DEF MoveCollisionFreeDoor
<1> HIDE DEF profile, intent
<1>7. ASSUME mgi' \in Interfaces, mgi'.frame = Base, t.kind # "bad" => Goal(mgi') = {t.need},
             PlanAndExecute(mgi', profile)
      PROVE  AskInv'
  BY <1>2, <1>3, <1>7, PlannedTick
<1>8. ASSUME mgi' \in Interfaces, mgi'.frame = Base, NEW r, Refuse(r), ~r.success PROVE AskInv'
  BY <1>2, <1>8, RefusedTick DEF NodeNames
<1>9. ASSUME mgi' \in Interfaces, mgi'.frame = Base, NEW cause, Refuse(RequestRefused(cause)) PROVE AskInv'
  BY <1>8, <1>9, RequestResult
<1>10. CASE mgi' = SetJoints(cleared, t) /\ PlanAndExecute(mgi', profile)
  BY <1>1, <1>4, <1>7, <1>10, SetJointsTypes
<1>11. CASE t.kind = "pose" /\ PoseGoal(cleared, t, profile)
  <2>1. CASE mgi' = cleared /\ Refuse(Failed("PLAN", NoCause, "NO_IK_SOLUTION"))
    <3>1. ~Failed("PLAN", NoCause, "NO_IK_SOLUTION").success  BY DEF Failed
    <3>. QED  BY <1>5, <1>8, <2>1, <3>1
  <2>2. CASE \E cause : mgi' = cleared /\ Refuse(RequestRefused(cause))
    BY <1>5, <1>9, <2>2
  <2>3. CASE mgi' = SetPoseTarget(cleared, t.need.link, t.need.place) /\ PlanAndExecute(mgi', profile)
    <3>1. mgi' \in Interfaces /\ mgi'.frame = Base /\ Goal(mgi') = {t.need}
      BY <1>1, <1>4, <2>3, PoseTargetAlone
    <3>. QED  BY <1>7, <2>3, <3>1
  <2>4. CASE /\ mgi' = SetJointTarget(cleared, t.need)
             /\ PlanAndExecute(mgi', profile) \/ Refuse(RequestRefused("INVALID_CONFIGURATION"))
    <3>1. mgi' \in Interfaces /\ mgi'.frame = Base /\ Goal(mgi') = {t.need}
      BY <1>1, <1>4, <2>4, JointTargetAlone
    <3>. QED  BY <1>7, <1>9, <2>4, <3>1
  <2>. QED  BY <1>11, <2>1, <2>2, <2>3, <2>4 DEF PoseGoal
<1>. QED  BY <1>6, <1>10, <1>11

\* A sequence that ends without a blend is sent as it is.
LEMMA LastUnblended ==
  ASSUME NEW n \in Nat \ {0}, NEW items, items = [k \in 1..n |-> items[k]], Len(items) = n,
         NEW need, items[n] = Item(need, FALSE)
  PROVE  SequenceGoal(items) = items
<1>1. [Item(need, FALSE) EXCEPT !.blend = FALSE] = Item(need, FALSE)
  <2>1. ASSUME NEW b PROVE [Item(need, b) EXCEPT !.blend = b] = Item(need, b)  BY DEF Item
  <2>. QED  BY <2>1
<1>2. SequenceGoal(items) = [items EXCEPT ![n] = [items[n] EXCEPT !.blend = FALSE]]
  BY DEF SequenceGoal
<1>3. SequenceGoal(items) = [items EXCEPT ![n] = items[n]]  BY <1>1, <1>2
<1>4. [items EXCEPT ![n] = items[n]] = [k \in 1..n |-> items[k]]  OBVIOUS
<1>. QED  BY <1>3, <1>4

LEMMA OneUnblended ==
  ASSUME NEW need
  PROVE  SequenceGoal(<<Item(need, FALSE)>>) = <<Item(need, FALSE)>>
<1> DEFINE x == Item(need, FALSE)
<1>1. x = Item(need, FALSE)  OBVIOUS
<1> HIDE DEF x
<1>2. Len(<<x>>) = 1 /\ <<x>>[1] = x /\ 1 \in Nat \ {0}  OBVIOUS
<1>3. <<x>> = [k \in 1..1 |-> <<x>>[k]]  OBVIOUS
<1>4. SequenceGoal(<<x>>) = <<x>>  BY <1>1, <1>2, <1>3, LastUnblended
<1>. QED  BY <1>4 DEF x

LEMMA CircularTick ==
  ASSUME Inv, AskInv, NEW who \in NodeNames \ {"FollowPath", "ExecuteProcessPath"}, NEW t, IsTarget(t),
         Tick(AskTarget(who, t, "pilz")), UNCHANGED inherited,
         MoveCircularDoor(t.need.link, t.need.place)
  PROVE  AskInv'
<1> DEFINE a     == AskTarget(who, t, "pilz")
           items == <<Item(t.need, FALSE)>>
<1>1. /\ pc = "idle" /\ mgi \in Interfaces /\ mgi.frame = Base /\ mode \in PlannerModes /\ ask' = a
      /\ inherited \in PlannerModes /\ mode = EffectiveMode(inherited)
      /\ UNCHANGED <<mode, mgi>> /\ a.node = who /\ a.target = t
      /\ t.need = Need(t.need.link, t.need.place, Base)
  BY BetweenCalls DEF Tick, MoveCircularDoor, AskTarget, IsTarget
<1>2. CASE ExecuteProcessSequence(items)
  <2>1. AskedItems' = items  BY <1>1 DEF AskedItems
  <2>2. SequenceGoal(items) = items
    BY OneUnblended
  <2>. QED  BY <1>1, <1>2, <2>1, <2>2, SequenceTick
<1>3. ASSUME NEW cause, Refuse(RequestRefused(cause)), UNCHANGED <<setup, robot, loose>> PROVE AskInv'
  BY <1>1, <1>3, RefusedTick, RequestResult DEF NodeNames
<1>. QED  BY <1>1, <1>2, <1>3 DEF MoveCircularDoor


LEMMA TargetsAreTargets ==
  ASSUME AskInv, NEW links \in SUBSET Links, NEW taught,
         NEW t \in PoseTargets(links, taught) \union JointTargets
  PROVE  /\ IsTarget(t)
         /\ t \in JointTargets \/ t.need.link \in links
<1>1. Poses \subseteq Places /\ Base \in Frames /\ Tip \in Links /\ Home \in Places
  BY DoorAssumption DEF Poses, AskInv, TypeOK
<1>. QED
  BY <1>1 DEF PoseTargets, PoseTarget, JointTargets, JointTarget, BadTarget, IsTarget, Need, Needs

LEMMA MoveWaypointTick ==
  ASSUME Inv, AskInv, NEW t, IsTarget(t), t.need.link = Tip, NEW planner \in Planners,
         NEW motion \in {"lin", "circ", "ptp", "free"}, MoveWaypoint(t, motion, planner)
  PROVE  AskInv'
<1> DEFINE who == "MoveWaypoint"
           named == PlannerOf(motion, planner)
<1>1. /\ Tick(AskTarget(who, t, named)) /\ who \in NodeNames \ {"FollowPath", "ExecuteProcessPath"}
      /\ AskTarget(who, t, named).node = who
      /\ motion \in {"lin", "circ"} => named = "pilz" /\ inherited' = inherited
      /\ motion \in {"ptp", "free"} => inherited' = named
  BY DEF Leaves, PlannerOf, MoveWaypoint, NodeNames, HasFaultPort, AskTarget
<1>2. /\ pc = "idle" /\ mgi \in Interfaces /\ mgi.frame = Base /\ mode \in PlannerModes
      /\ inherited \in PlannerModes /\ mode = EffectiveMode(inherited)
  BY <1>1, BetweenCalls DEF Tick
<1>3. CASE motion \in {"lin", "circ"} /\ RefuseNode(Exception)
  <2>1. ~Exception.success  BY DEF Exception, Failed
  <2>. QED  BY <1>1, <1>2, <1>3, <2>1, RefusedTick DEF RefuseNode
<1>4. CASE motion = "lin" /\ MoveLinearDoor(Tip, t.need.place)
  BY <1>1, <1>4, LinearTick
<1>5. CASE motion = "circ" /\ MoveCircularDoor(Tip, t.need.place)
  BY <1>1, <1>5, CircularTick
<1>6. CASE motion \in {"ptp", "free"} /\ MoveCollisionFreeDoor(t, MoveMode(motion, planner))
  <2>1. named \in PlannerModes /\ MoveMode(motion, planner) \in {named, EffectiveMode(named)}
    BY <1>2, <1>6, NodesAssumption DEF MoveMode, PlannerOf, PlannerModes
  <2> HIDE DEF named
  <2>. QED  BY <1>1, <1>6, <2>1, CollisionFreeTick
<1>. QED  BY <1>3, <1>4, <1>5, <1>6 DEF MoveWaypoint

LEMMA ProcessPathTick ==
  ASSUME Inv, AskInv, NEW places \in Seq(Places), NEW frame \in Frames, ExecuteProcessPath(places, frame)
  PROVE  AskInv'
<1> DEFINE items == [k \in 1..Len(places) |-> Item(Need(Tip, places[k], frame), FALSE)]
           a == AskItems("ExecuteProcessPath", items)
           tips == [k \in 1..Len(places) |-> Item(Need(Tip, places[k], Base), FALSE)]
<1>1. /\ Tick(a) /\ a.node = "ExecuteProcessPath" /\ a.items = items /\ ask' = a
      /\ a.node \in NodeNames \ {"FollowPath"} /\ UNCHANGED <<mode, inherited>>
  BY DEF ExecuteProcessPath, ExecuteCartesianProcess, AskItems, NodeNames, HasFaultPort, Tick
<1>2. AskedItems' = items  BY <1>1 DEF AskedItems
<1>3. CASE CartesianPath(places, frame)
  BY <1>1, <1>2, <1>3, CartesianTick
<1>4. CASE setup.backend = "pilz_sequence" /\ ExecuteProcessSequence(tips) /\ mgi' = mgi
  <2>1. Exempt'  BY <1>1, <1>4 DEF Exempt, ExecuteProcessSequence
  <2>. QED  BY <1>1, <1>4, <2>1, SequenceTick
<1>. QED  BY <1>3, <1>4 DEF ExecuteProcessPath, ExecuteCartesianProcess


-----------------------------------------------------------------------------
(* FollowPath.                                                             *)

\* The blackboard's places are places: so are a path's states.
LEMMA ResolvedPlaces ==
  ASSUME AskInv
  PROVE  path.last \in Nat /\ \A i \in 0..path.last : Resolved[i] \in Places
<1>1. path.last \in Nat /\ \A i \in 0..path.last : StateOK(path.states[i])
  BY NodesAssumption DEF AskInv, Accepted
<1>2. bb \in [Waypoints -> Places]  BY DEF AskInv, TypeOK
<1>. QED  BY <1>1, <1>2 DEF Resolved, StateOK

\* The items of a run, one per state it goes to.
LEMMA RunItemsAre ==
  ASSUME NEW from \in Int, NEW to \in Int, from <= to
  PROVE  RunItems(from, to) =
           [k \in 1..to - from |->
              Item(Need(Tip, Resolved[from + k], Base),
                   ~path.dense /\ path.continuity = "blend" /\ from + k - 1 \in path.blend)]
<1> DEFINE place(k) == Resolved[from + k]
           blend(k) == ~path.dense /\ path.continuity = "blend" /\ from + k - 1 \in path.blend
           items == SequenceItems(path, Resolved, from, to)
<1>1. items = [k \in 1..to - from |-> [place |-> place(k), blend |-> blend(k)]]
  BY DEF SequenceItems
<1>2. RunItems(from, to) = [k \in 1..Len(items) |-> Item(Need(Tip, items[k].place, Base), items[k].blend)]
  BY DEF RunItems
<1>3. to - from \in Nat  OBVIOUS
<1> HIDE DEF place, blend, items
<1>4. Len(items) = to - from  BY <1>1, <1>3
<1>5. \A k \in 1..to - from : items[k].place = place(k) /\ items[k].blend = blend(k)  BY <1>1
<1>6. RunItems(from, to) = [k \in 1..to - from |-> Item(Need(Tip, place(k), Base), blend(k))]
  BY <1>2, <1>4, <1>5
<1>. QED  BY <1>6 DEF place, blend

LEMMA FollowPathTick ==
  ASSUME Inv, AskInv, NEW ranged \in BOOLEAN, NEW from \in 0..path.last, NEW to \in 0..path.last,
         FollowPath(ranged, from, to)
  PROVE  AskInv'
<1> DEFINE a == [node |-> "FollowPath", items |-> RunItems(from, to),
                 from |-> from, to |-> to, place |-> Resolved, loose |-> loose # {}]
<1>1. /\ pc = "idle" /\ Tick(a) /\ a.node \in NodeNames /\ ask' = a /\ path' = path
      /\ inherited' = inherited
      /\ ranged \/ (from = 0 /\ to = path.last)
  BY DEF FollowPath, Tick, NodeNames, HasFaultPort
<1>2. /\ mgi \in Interfaces /\ mgi.frame = Base /\ moved \in BOOLEAN
      /\ inherited \in PlannerModes /\ mode = EffectiveMode(inherited)
  BY <1>1, BetweenCalls
<1>3. ASSUME NEW cause, RefuseNode(RequestRefused(cause)) PROVE AskInv'
  BY <1>1, <1>2, <1>3, RefusedTick, RequestResult DEF RefuseNode
<1>4. CASE /\ pc' = "start" /\ UNCHANGED <<setup, mode, mgi, job, call, robot, loose>>
           /\ RunInRange(path, ranged, from, to)
  <2>1. TypeOK' /\ Inherits' /\ Still' /\ Accepted' /\ AtRunEnd' /\ EventAtItsState'
    BY <1>1, <1>2, <1>4, TickKeeps DEF call
  <2>2. Framed' /\ Planning'  BY <1>2, <1>4 DEF Framed, InCartesian, Planning
  <2>3. GoalsAsAsked'
    <3>1. sent' = {}  BY <1>1, <1>4 DEF call, Inv, Quiet
    <3>. QED  BY <3>1 DEF GoalsAsAsked
  <2>4. RunAsked'
    <3>1. path.last \in Nat /\ \A i \in 0..path.last : Resolved[i] \in Places  BY ResolvedPlaces
    <3>2. from \in Int /\ to \in Int /\ from <= to  BY <1>4, <3>1 DEF RunInRange
    <3>3. RunInRange(path, ~path.dense, from, to)  BY <1>4 DEF RunInRange
    <3>4. path.dense => from = 0 /\ to = path.last  BY <1>1, <1>4 DEF RunInRange
    <3>5. /\ a.from = from /\ a.to = to /\ a.place = Resolved /\ a.items = RunItems(from, to)
          /\ a.loose = (loose # {}) /\ a.node = "FollowPath"
      OBVIOUS
    <3>6. loose' # {} => a.loose  BY <1>4, <3>5
    <3>7. a.items = [k \in 1..a.to - a.from |->
            Item(Need(Tip, a.place[a.from + k], Base),
                 ~path.dense /\ path.continuity = "blend" /\ a.from + k - 1 \in path.blend)]
      BY <3>2, <3>5, RunItemsAre
    <3>8. \A i \in 0..path.last : a.place[i] \in Places  BY <3>1, <3>5
    <3> HIDE DEF a
    <3>. QED  BY <1>1, <1>4, <3>3, <3>4, <3>5, <3>6, <3>7, <3>8 DEF RunAsked
  <2>. QED  BY <2>1, <2>2, <2>3, <2>4 DEF AskInv
<1>5. \/ \E cause : RefuseNode(RequestRefused(cause))
      \/ /\ pc' = "start" /\ UNCHANGED <<setup, mode, mgi, job, call, robot, loose>>
         /\ RunInRange(path, ranged, from, to)
  BY DEF FollowPath
<1>. QED  BY <1>3, <1>4, <1>5


\* What a step of the door, or one before it, leaves alone of the node.
LEMMA DoorKeeps ==
  ASSUME AskInv, UNCHANGED node, UNCHANGED setup,
         mode' = mode, mgi' \in Interfaces, moved' \in BOOLEAN,
         pc' \in {"returned", "plan", "execute", "send", "sequence", "compute"},
         arm' \in Somewhere, drive' \in Somewhere, loose' \subseteq Somewhere,
         arm' \in {drive', Elsewhere}, at.state = -1
  PROVE  TypeOK' /\ Inherits' /\ Still' /\ Accepted' /\ AtRunEnd' /\ EventAtItsState'
<1>1. UNCHANGED <<path, bb, ask, status, wrote, at, event, ticks, inherited, setup>>  BY DEF node
<1>2. TypeOK'
  <2>1. DoorTypeOK'  BY <1>1 DEF AskInv, TypeOK, DoorTypeOK, Interfaces
  <2>. QED  BY <1>1, <2>1 DEF AskInv, TypeOK
<1>3. Inherits' /\ Still' /\ Accepted'  BY <1>1 DEF AskInv, Inherits, Still, Accepted
<1>4. AtRunEnd' /\ EventAtItsState'  BY <1>1 DEF AskInv, AtRunEnd, EventAtItsState
<1>. QED  BY <1>2, <1>3, <1>4

\* A run's end is gone as soon as a tick has begun.
LEMMA NoRunYet ==
  ASSUME AskInv, pc \notin {"ended", "idle"}
  PROVE  at.state = -1
BY DEF AskInv, AtRunEnd

LEMMA StartRefused ==
  ASSUME Inv, AskInv, pc = "start", UNCHANGED node, NEW r, RefuseNode(r), ~r.success
  PROVE  AskInv'
<1>1. /\ pc' = "returned" /\ res' = r /\ sent' = {}
      /\ UNCHANGED <<setup, mode, mgi, moved, arm, drive, loose>>
  BY DEF RefuseNode, Refuse, Return, robot, Inv, Quiet
<1>2. mgi \in Interfaces /\ mgi.frame = Base /\ mode \in PlannerModes /\ moved \in BOOLEAN
  BY BetweenCalls
<1>3. TypeOK' /\ Inherits' /\ Still' /\ Accepted' /\ AtRunEnd' /\ EventAtItsState'
  <2>1. /\ arm \in Somewhere /\ drive \in Somewhere /\ loose \subseteq Somewhere
        /\ arm \in {drive, Elsewhere} /\ at.state = -1
    BY NoRunYet DEF AskInv, TypeOK, DoorTypeOK, Still
  <2>. QED  BY <1>1, <1>2, <2>1, DoorKeeps
<1>4. Framed' /\ Planning' /\ RunAsked' /\ GoalsAsAsked'
  BY <1>1, <1>2 DEF Framed, InCartesian, Planning, RunAsked, Running, GoalsAsAsked
<1>. QED  BY <1>3, <1>4 DEF AskInv

\* The providers that go through the Cartesian backend take dense paths alone.
LEMMA CartesianRouteIsDense ==
  ASSUME AskInv, Providers[Provider(path)].route = "cartesian_path"
  PROVE  path.dense /\ setup.backend = "cartesian_waypoints"
<1> DEFINE provider == Provider(path)
<1>1. /\ provider \in DOMAIN Providers
      /\ MissingCapabilities(provider, RequiredCapabilities(path)) = {}
      /\ setup.backend = "cartesian_waypoints"
  BY DEF AskInv, Accepted, ParsePath, ProviderAccepted
<1>2. provider = "cartesian_waypoints"
  <2> HIDE DEF provider
  <2>1. Providers[provider].route = "cartesian_path"  BY DEF provider
  <2>. QED  BY <1>1, <2>1 DEF Providers
<1>3. Providers["cartesian_waypoints"].provides = {"continuous_path"}  BY DEF Providers
<1>4. RequiredCapabilities(path) \subseteq {"continuous_path"}
  BY <1>1, <1>2, <1>3 DEF MissingCapabilities
<1>5. ~path.dense => "multi_segment_path" \in RequiredCapabilities(path)
  BY DEF RequiredCapabilities
<1>. QED  BY <1>1, <1>4, <1>5

\* The last segment of a run does not blend: the run's items are sent as they are.
LEMMA RunSentAsIs ==
  ASSUME AskInv, Running, ask.from # ask.to
  PROVE  ask.items # <<>> /\ SequenceGoal(ask.items) = ask.items
<1> DEFINE n == ask.to - ask.from
           need(k)  == Need(Tip, ask.place[ask.from + k], Base)
           blend(k) == ~path.dense /\ path.continuity = "blend" /\ ask.from + k - 1 \in path.blend
<1>1. /\ path.last \in Nat /\ ask.from \in 0..path.last /\ ask.to \in 0..path.last
      /\ RunInRange(path, ~path.dense, ask.from, ask.to)
      /\ ask.items = [k \in 1..n |-> Item(need(k), blend(k))]
  BY NodesAssumption DEF AskInv, Accepted, RunAsked
<1>2. n \in Nat \ {0}  BY <1>1 DEF RunInRange
<1>3. blend(n) = FALSE
  <2>1. ask.from + n - 1 = ask.to - 1  BY <1>1
  <2>2. CASE ask.to = path.last
    <3>1. ~path.dense => path.last - 1 \notin path.blend
      BY DEF AskInv, Accepted, ParsePath, SegmentsAccepted
    <3>. QED  BY <2>1, <2>2, <3>1
  <2>3. CASE ask.to # path.last
    <3>1. ask.to > ask.from /\ ask.to < path.last  BY <1>1, <2>3 DEF RunInRange
    <3>2. ~path.dense => ask.to - 1 \notin path.blend
      BY <1>1, <3>1 DEF RunInRange, EndsInBlend
    <3>. QED  BY <2>1, <3>2
  <2>. QED  BY <2>2, <2>3
<1> HIDE DEF n, need, blend
<1>4. /\ ask.items = [k \in 1..n |-> ask.items[k]] /\ Len(ask.items) = n
      /\ ask.items[n] = Item(need(n), FALSE)
  <2>1. Len(ask.items) = n /\ \A k \in 1..n : ask.items[k] = Item(need(k), blend(k))  BY <1>1, <1>2
  <2>2. ask.items = [k \in 1..n |-> ask.items[k]]  BY <1>1
  <2>3. ask.items[n] = Item(need(n), blend(n))  BY <1>2, <2>1
  <2>. QED  BY <1>3, <2>1, <2>2, <2>3
<1>5. SequenceGoal(ask.items) = ask.items  BY <1>2, <1>4, LastUnblended
<1>. QED  BY <1>2, <1>4, <1>5

LEMMA StartStep ==
  ASSUME Inv, AskInv, NotAtStart \/ AtOneState \/ SendRun
  PROVE  AskInv'
<1>1. pc = "start" /\ UNCHANGED node /\ sent = {} /\ at.state = -1
  BY NoRunYet DEF NotAtStart, AtOneState, SendRun, Inv, Quiet
<1>2. mgi \in Interfaces /\ mgi.frame = Base /\ mode \in PlannerModes /\ moved \in BOOLEAN
  BY <1>1, BetweenCalls
<1>3. /\ arm \in Somewhere /\ drive \in Somewhere /\ loose \subseteq Somewhere
      /\ arm \in {drive, Elsewhere}
  BY DEF AskInv, TypeOK, DoorTypeOK, Still
<1>4. UNCHANGED <<path, bb, ask, at, event>>  BY <1>1 DEF node
<1>5. ASSUME NEW cause, RefuseNode(RequestRefused(cause)) PROVE AskInv'
  BY <1>1, <1>5, StartRefused, RequestResult
<1>6. CASE NotAtStart  BY <1>5, <1>6 DEF NotAtStart
<1>7. CASE AtOneState
  <2>1. /\ pc' = "returned" /\ sent' = {} /\ arm = ask.place[ask.from] /\ ask.from = ask.to
        /\ UNCHANGED <<setup, mode, mgi, moved, arm, drive, loose>>
    BY <1>1, <1>7 DEF AtOneState, SettledAt, RefuseNode, Refuse, Return, robot
  <2>2. TypeOK' /\ Inherits' /\ Still' /\ Accepted' /\ AtRunEnd' /\ EventAtItsState'
    BY <1>1, <1>2, <1>3, <2>1, DoorKeeps
  <2>3. Framed' /\ Planning' /\ GoalsAsAsked'
    BY <1>2, <2>1 DEF Framed, InCartesian, Planning, GoalsAsAsked
  <2>4. RunAsked'
    BY <1>1, <1>4, <2>1 DEF AskInv, RunAsked, Running
  <2>. QED  BY <2>2, <2>3, <2>4 DEF AskInv
<1>8. CASE /\ ask.from # ask.to /\ arm = ask.place[ask.from]
           /\ ExecuteProcessSequence(ask.items) /\ UNCHANGED <<mode, mgi>>
  <2>1. CASE Refuse(Unrecorded)
    BY <1>1, <1>8, <2>1, StartRefused, UnrecordedResult DEF RefuseNode, ExecuteProcessSequence
  <2>2. CASE Refuse(Unanswered("SERVER_UNAVAILABLE"))
    <3>1. ~Unanswered("SERVER_UNAVAILABLE").success  BY DEF Unanswered, Failed
    <3>. QED  BY <1>1, <1>8, <2>2, <3>1, StartRefused DEF RefuseNode, ExecuteProcessSequence
  <2>3. CASE /\ pc' = "send"
             /\ job' = [at |-> "sequence", to |-> Landed({ask.items[Len(ask.items)].need})]
             /\ sent' = sent \union {[by |-> "sequence", items |-> SequenceGoal(ask.items)]}
             /\ UNCHANGED <<moved, res>>
    <3>1. UNCHANGED <<setup, arm, drive, loose>>
      BY <1>8 DEF ExecuteProcessSequence, robot
    <3>2. job'.to \in Somewhere  BY <2>3, LandedType
    <3>3. TypeOK' /\ Inherits' /\ Still' /\ Accepted' /\ AtRunEnd' /\ EventAtItsState'
      BY <1>1, <1>2, <1>3, <1>8, <2>3, <3>1, DoorKeeps
    <3>4. Framed' /\ Planning'  BY <1>2, <1>8, <2>3, <3>2 DEF Framed, InCartesian, Planning
    <3>5. RunAsked'  BY <1>1, <1>4, <1>8, <2>3, <3>1 DEF AskInv, RunAsked, Running
    <3>6. GoalsAsAsked'
      <4> SUFFICES ASSUME NEW q \in sent', ask.node = "FollowPath"
                   PROVE  PlannerAsAsked(q)' /\ TargetAsAsked(q)'
        BY <1>1, <1>4 DEF AskInv, RunAsked, GoalsAsAsked
      <4>1. SequenceGoal(ask.items) = ask.items
        BY <1>1, <1>8, RunSentAsIs DEF Running
      <4>2. q.by = "sequence" /\ q.items = ask.items  BY <1>1, <2>3, <4>1
      <4>. QED  BY <1>4, <4>2 DEF TargetAsAsked, PlannerAsAsked, AskedItems
    <3>. QED  BY <3>3, <3>4, <3>5, <3>6 DEF AskInv
  <2>. QED  BY <1>8, <2>1, <2>2, <2>3 DEF ExecuteProcessSequence
<1>9. CASE /\ ask.from # ask.to /\ Providers[Provider(path)].route = "cartesian_path"
           /\ ExecuteCartesianProcess([k \in 1..path.last |-> ask.place[k]], Base)
  <2> DEFINE places == [k \in 1..path.last |-> ask.place[k]]
             items  == [k \in 1..path.last |-> Item(Need(Tip, ask.place[k], Base), FALSE)]
  <2>1. path.dense /\ CartesianPath(places, Base) /\ mode' = mode
    BY <1>9, CartesianRouteIsDense DEF ExecuteCartesianProcess
  <2>2. /\ path.last \in Nat /\ ask.from = 0 /\ ask.to = path.last
        /\ ask.items = [k \in 1..ask.to - ask.from |->
             Item(Need(Tip, ask.place[ask.from + k], Base),
                  ~path.dense /\ path.continuity = "blend" /\ ask.from + k - 1 \in path.blend)]
    BY <1>1, <2>1, NodesAssumption DEF AskInv, Accepted, RunAsked, Running
  <2>3. Len(places) = path.last /\ \A k \in 1..path.last : places[k] = ask.place[k]  BY <2>2
  <2>4. ask.items = items
    <3>1. ask.to - ask.from = path.last /\ \A k \in 1..path.last : ask.from + k = k  BY <2>2
    <3>. QED  BY <2>1, <2>2, <3>1
  <2> DEFINE its(f) == [k \in 1..Len(places) |-> Item(Need(Tip, places[k], f), FALSE)]
  <2>5. its(Base) = items  BY <2>3
  <2> HIDE DEF places, items
  <2>6. CASE Refuse(Unrecorded) /\ mgi' = mgi
    BY <1>1, <2>1, <2>6, StartRefused, UnrecordedResult DEF RefuseNode, CartesianPath
  <2>7. CASE Refuse(RequestRefused("STATE_UNAVAILABLE")) /\ mgi' = mgi
    BY <1>1, <2>1, <2>7, StartRefused, RequestResult DEF RefuseNode, CartesianPath
  <2>8. CASE /\ mgi' = [mgi EXCEPT !.frame = Base]
             /\ pc' = "compute"
             /\ job' = [at |-> "cartesian", frame |-> mgi.frame, whole |-> TRUE,
                        to |-> Landed({Need(Tip, places[Len(places)], Base)})]
             /\ sent' = sent \union {[by |-> "cartesian", items |-> its(mgi'.frame)]}
             /\ UNCHANGED <<moved, res>>
    <3>1. UNCHANGED <<setup, arm, drive, loose>>  BY <2>1 DEF CartesianPath, robot
    <3>2. mgi' \in Interfaces /\ mgi'.frame = Base  BY <1>2, <2>8 DEF Interfaces
    <3>3. /\ job'.to \in Somewhere /\ job'.frame = Base
          /\ job' = [at |-> "cartesian", frame |-> job'.frame, whole |-> job'.whole, to |-> job'.to]
      BY <1>2, <2>8, LandedType
    <3>4. TypeOK' /\ Inherits' /\ Still' /\ Accepted' /\ AtRunEnd' /\ EventAtItsState'
      BY <1>1, <1>2, <1>3, <2>1, <2>8, <3>1, <3>2, DoorKeeps
    <3>5. Framed' /\ Planning'  BY <2>8, <3>3 DEF Framed, InCartesian, Planning
    <3>6. RunAsked'  BY <1>1, <1>4, <1>9, <2>8, <3>1 DEF AskInv, RunAsked, Running
    <3>7. GoalsAsAsked'
      <4> HIDE DEF its
      <4> SUFFICES ASSUME NEW q \in sent', ask.node = "FollowPath"
                   PROVE  PlannerAsAsked(q)' /\ TargetAsAsked(q)'
        BY <1>1, <1>4 DEF AskInv, RunAsked, GoalsAsAsked
      <4>1. q.by = "cartesian" /\ q.items = its(Base)  BY <1>1, <2>8, <3>2
      <4>. QED  BY <1>4, <2>4, <2>5, <4>1 DEF TargetAsAsked, PlannerAsAsked, AskedItems
    <3>. QED  BY <3>4, <3>5, <3>6, <3>7 DEF AskInv
  <2>. QED  BY <2>1, <2>6, <2>7, <2>8 DEF CartesianPath
<1>10. CASE SendRun
  <2>1. ASSUME RefuseNode(Exception) PROVE AskInv'
    <3>1. ~Exception.success  BY DEF Exception, Failed
    <3>. QED  BY <1>1, <2>1, <3>1, StartRefused
  <2>. QED  BY <1>5, <1>8, <1>9, <1>10, <2>1 DEF SendRun, SettledAt
<1>. QED  BY <1>6, <1>7, <1>10


-----------------------------------------------------------------------------
(* The door's steps.                                                       *)

\* What the next attempt of a plan, or the next step of a call, leaves as it is.
LEMMA DoorCarriesOn ==
  ASSUME Inv, AskInv, UNCHANGED <<node, setup, mode, mgi, robot, loose>>,
         pc \notin {"idle", "ended"}, moved' \in BOOLEAN,
         pc' \in {"plan", "execute", "send", "sequence", "compute"}
  PROVE  TypeOK' /\ Inherits' /\ Still' /\ Accepted' /\ AtRunEnd' /\ EventAtItsState'
<1>1. /\ arm' = arm /\ drive' = drive /\ mgi' \in Interfaces /\ mode' \in PlannerModes
      /\ arm \in Somewhere /\ drive \in Somewhere /\ loose \subseteq Somewhere
      /\ arm \in {drive, Elsewhere} /\ at.state = -1
  BY NoRunYet DEF AskInv, TypeOK, DoorTypeOK, Interfaces, Still, robot
<1>. QED  BY <1>1, DoorKeeps

\* A call that returns leaves the interface in the base frame, and what it asked as it was.
LEMMA DoorReturns ==
  ASSUME Inv, AskInv, UNCHANGED <<node, setup, mode, sent>>,
         pc \in {"plan", "execute", "send", "sequence", "compute"},
         NEW r, Return(r), moved' \in BOOLEAN, mgi' \in Interfaces, mgi'.frame = Base,
         arm' \in Somewhere, drive' \in Somewhere, loose' \subseteq Somewhere,
         arm' \in {drive', Elsewhere},
         r.success => pc \in {"execute", "sequence"} /\ loose' = loose
  PROVE  AskInv'
<1>1. pc' = "returned" /\ res' = r /\ UNCHANGED <<path, ask>>  BY DEF Return, node
<1>2. mode' \in PlannerModes /\ at.state = -1
  BY NoRunYet DEF AskInv, TypeOK, DoorTypeOK
<1>3. TypeOK' /\ Inherits' /\ Still' /\ Accepted' /\ AtRunEnd' /\ EventAtItsState'
  BY <1>1, <1>2, DoorKeeps
<1>4. Framed' /\ Planning'  BY <1>1 DEF Framed, InCartesian, Planning
<1>5. RunAsked'  BY <1>1 DEF AskInv, RunAsked, Running
<1>6. GoalsAsAsked'
  BY <1>1 DEF AskInv, GoalsAsAsked, TargetAsAsked, PlannerAsAsked, AskedItems, Exempt, HonouredBy
<1>. QED  BY <1>3, <1>4, <1>5, <1>6 DEF AskInv

\* The interface, and where the robot is, while a call is in progress.
LEMMA InCall ==
  ASSUME AskInv
  PROVE  /\ mgi \in Interfaces /\ mode \in PlannerModes /\ moved \in BOOLEAN
         /\ arm \in Somewhere /\ drive \in Somewhere /\ loose \subseteq Somewhere
         /\ arm \in {drive, Elsewhere} /\ Elsewhere \in Somewhere
         /\ ~InCartesian => mgi.frame = Base
         /\ pc \in {"send", "sequence", "execute"} => job.to \in Somewhere
         /\ pc \in {"compute", "execute"} => /\ RestoredInterface \in Interfaces
                                             /\ RestoredInterface.frame = Base
<1>1. mgi \in Interfaces /\ Base \in Frames
  BY DoorAssumption DEF AskInv, TypeOK, DoorTypeOK, Interfaces
<1>2. pc \in {"compute", "execute"} => /\ RestoredInterface \in Interfaces
                                       /\ RestoredInterface.frame = Base
  <2>1. CASE job.at = "cartesian"
    <3>1. pc \in {"compute", "execute"} => job.frame = Base
      BY <2>1 DEF AskInv, Framed, InCartesian
    <3>2. [mgi EXCEPT !.frame = Base] \in Interfaces /\ [mgi EXCEPT !.frame = Base].frame = Base
      BY <1>1 DEF Interfaces
    <3>. QED  BY <2>1, <3>1, <3>2 DEF RestoredInterface
  <2>2. CASE job.at # "cartesian"
    <3>1. pc # "compute"
      <4>1. [at |-> "cartesian", frame |-> job.frame, whole |-> job.whole, to |-> job.to].at = "cartesian"
        OBVIOUS
      <4>. QED  BY <2>2, <4>1 DEF AskInv, Framed
    <3>. QED  BY <1>1, <2>2, <3>1 DEF RestoredInterface, AskInv, Framed, InCartesian
  <2>. QED  BY <2>1, <2>2
<1>. QED  BY <1>1, <1>2 DEF AskInv, TypeOK, DoorTypeOK, Still, Framed, Somewhere

\* Where an arm stops, or arrives.
LEMMA StopsSomewhere ==
  ASSUME AskInv, \/ StopShort
                 \/ job.to \in Somewhere /\ Arrive(job.to)
                 \/ arm' = Elsewhere /\ drive' = Elsewhere
  PROVE  arm' \in Somewhere /\ drive' \in Somewhere /\ arm' \in {drive', Elsewhere}
BY InCall DEF StopShort, Arrive

\* A next attempt asks for what the attempt before it asked for.
LEMMA RetryAsks ==
  ASSUME Inv, AskInv, pc = "plan", UNCHANGED <<node, setup, mode, mgi, robot, loose>>,
         NEW chomp \in BOOLEAN, chomp => job.profile.optimize, NEW attempt,
         DoPlan(mgi, job.profile, chomp, attempt)
  PROVE  AskInv'
<1> DEFINE by == IF chomp THEN "chomp" ELSE job.profile.pipeline
           r  == [by |-> by, goal |-> Goal(mgi)]
<1>1. /\ pc' = "plan" /\ job'.profile = job.profile /\ sent' = sent \union {r} /\ moved' = moved
      /\ UNCHANGED <<path, ask, setup, mgi>>
  BY DEF DoPlan, node
<1>2. TypeOK' /\ Inherits' /\ Still' /\ Accepted' /\ AtRunEnd' /\ EventAtItsState'
  BY <1>1, InCall, DoorCarriesOn
<1>3. Framed' /\ RunAsked'
  BY <1>1 DEF AskInv, Framed, InCartesian, RunAsked, Running
<1>4. Planning'
  <2>1. (Exempt' <=> Exempt) /\ Goal(mgi)' = Goal(mgi)  BY <1>1 DEF Exempt
  <2>2. \A planner : HonouredBy(planner)' = HonouredBy(planner)  BY DEF HonouredBy
  <2> HIDE DEF by, r
  <2>. QED  BY <1>1, <2>1, <2>2 DEF AskInv, Planning, Planned
<1>5. GoalsAsAsked'
  <2> SUFFICES ASSUME NEW q \in sent'
               PROVE  PlannerAsAsked(q)' /\ (~Exempt => TargetAsAsked(q)')
    BY <1>1 DEF GoalsAsAsked, Exempt
  <2>1. CASE q \in sent
    BY <1>1, <2>1 DEF AskInv, GoalsAsAsked, TargetAsAsked, PlannerAsAsked, AskedItems, HonouredBy
  <2>2. CASE q = r
    <3>1. /\ by \notin {"sequence", "cartesian"} /\ by \in HonouredBy(ask.planner)
          /\ ~Exempt => Goal(mgi) = {ask.target.need}
      BY DEF AskInv, Planning, Planned
    <3>2. r.by = by /\ r.goal = Goal(mgi)  OBVIOUS
    <3> HIDE DEF by, r
    <3>. QED  BY <1>1, <2>2, <3>1, <3>2 DEF TargetAsAsked, PlannerAsAsked, HonouredBy
  <2>. QED  BY <1>1, <2>1, <2>2
<1>. QED  BY <1>2, <1>3, <1>4, <1>5 DEF AskInv

LEMMA PlanRefusedAsks ==
  ASSUME Inv, AskInv, UNCHANGED node, NEW code, PlanRefused(code)
  PROVE  AskInv'
<1>1. pc = "plan" /\ UNCHANGED <<setup, mode, mgi, robot, loose>>  BY DEF PlanRefused
<1>2. job.chomp \in BOOLEAN /\ job.attempt \in Nat /\ job.profile.optimize \in BOOLEAN
  BY <1>1 DEF Inv, Attempting
<1>3. CASE DoPlan(mgi, job.profile, FALSE, job.attempt)
  BY <1>1, <1>3, RetryAsks
<1>4. CASE DoPlan(mgi, job.profile, job.profile.optimize, job.attempt + 1)
  BY <1>1, <1>2, <1>4, RetryAsks
<1>5. CASE Return(Failed("PLAN", NoCause, code)) /\ UNCHANGED <<sent, moved>>
  <2>1. ~Failed("PLAN", NoCause, code).success  BY DEF Failed
  <2>2. arm' = arm /\ drive' = drive /\ loose' = loose  BY <1>1 DEF robot
  <2>3. mgi.frame = Base  BY <1>1 DEF AskInv, Framed, InCartesian
  <2>. QED  BY <1>1, <1>5, <2>1, <2>2, <2>3, InCall, DoorReturns
<1>6. job.attempt < PlanRetries + 1 \/ job.attempt >= PlanRetries + 1
  BY <1>2, DoorAssumption DEF DoorAssumption
<1>. QED  BY <1>2, <1>3, <1>4, <1>5, <1>6 DEF PlanRefused

\* The steps that end a call.
LEMMA CallEnds ==
  ASSUME Inv, AskInv, UNCHANGED node,
         \/ \E cause : PlanInvalid(cause)
         \/ \E code : SequencePlanRefused(code) \/ SequenceFailed(code) \/ ExecutionFailed(code)
                      \/ PathNotComputed(code)
         \/ ExecutionDone \/ GoalRejected \/ GoalSendTimeout \/ SequenceDone \/ ResultTimeout
  PROVE  AskInv'
<1>1. /\ ~Unrecorded.success
      /\ \A phase, cause, code : ~Failed(phase, cause, code).success
      /\ \A cause : ~Unanswered(cause).success
  BY UnrecordedResult DEF Failed, Unanswered
<1>2. ASSUME pc \in {"plan", "send", "sequence"}, UNCHANGED <<setup, mode, mgi, sent, loose>>,
             moved' \in BOOLEAN, NEW r, Return(r), r.success => pc = "sequence",
             \/ UNCHANGED robot
             \/ StopShort
             \/ pc = "sequence" /\ Arrive(job.to)
      PROVE  AskInv'
  <2>1. arm' \in Somewhere /\ drive' \in Somewhere /\ arm' \in {drive', Elsewhere}
    <3>1. CASE UNCHANGED robot  BY <3>1, InCall DEF robot
    <3>2. CASE StopShort  BY <3>2, StopsSomewhere
    <3>3. CASE pc = "sequence" /\ Arrive(job.to)  BY <3>3, InCall, StopsSomewhere
    <3>. QED  BY <1>2, <3>1, <3>2, <3>3
  <2>2. mgi' \in Interfaces /\ mgi'.frame = Base /\ loose' \subseteq Somewhere
    BY <1>2, InCall DEF InCartesian
  <2>. QED  BY <1>2, <2>1, <2>2, DoorReturns
<1>3. ASSUME pc \in {"send", "sequence"}, UNCHANGED <<setup, mode, mgi, sent>>,
             moved' \in BOOLEAN, loose' \in {loose, loose \union {job.to}},
             NEW cause, Return(Unanswered(cause)), UNCHANGED robot \/ StopShort
      PROVE  AskInv'
  <2>1. arm' \in Somewhere /\ drive' \in Somewhere /\ arm' \in {drive', Elsewhere}
    <3>1. CASE UNCHANGED robot  BY <3>1, InCall DEF robot
    <3>2. CASE StopShort  BY <3>2, StopsSomewhere
    <3>. QED  BY <1>3, <3>1, <3>2
  <2>2. mgi' \in Interfaces /\ mgi'.frame = Base /\ loose' \subseteq Somewhere
    BY <1>3, InCall DEF InCartesian
  <2>. QED  BY <1>1, <1>3, <2>1, <2>2, DoorReturns
<1>4. ASSUME NEW cause, PlanInvalid(cause) PROVE AskInv'
  BY <1>1, <1>2, <1>4, InCall DEF PlanInvalid
<1>5. ASSUME NEW code, SequencePlanRefused(code) PROVE AskInv'
  BY <1>1, <1>2, <1>5, InCall DEF SequencePlanRefused
<1>6. ASSUME NEW code, SequenceFailed(code) PROVE AskInv'
  BY <1>1, <1>2, <1>6 DEF SequenceFailed
<1>7. CASE GoalRejected  BY <1>1, <1>3, <1>7, InCall DEF GoalRejected
<1>8. CASE GoalSendTimeout  BY <1>1, <1>3, <1>8, InCall DEF GoalSendTimeout
<1>9. CASE SequenceDone  BY <1>2, <1>9 DEF SequenceDone
<1>10. CASE ResultTimeout  BY <1>1, <1>3, <1>10 DEF ResultTimeout
<1>11. CASE ExecutionDone
  <2>1. /\ pc = "execute" /\ mgi' = RestoredInterface /\ UNCHANGED <<setup, mode, sent, moved, loose>>
        /\ Return([Succeeded EXCEPT !.whole = job.whole])
        /\ Arrive(job.to) \/ (arm' = Elsewhere /\ drive' = Elsewhere)
    BY <1>11 DEF ExecutionDone
  <2>2. arm' \in Somewhere /\ drive' \in Somewhere /\ arm' \in {drive', Elsewhere}
    BY <2>1, InCall, StopsSomewhere
  <2>3. moved' \in BOOLEAN /\ mgi' \in Interfaces /\ mgi'.frame = Base /\ loose' \subseteq Somewhere
    BY <2>1, InCall
  <2> HIDE DEF RestoredInterface
  <2>. QED  BY <2>1, <2>2, <2>3, DoorReturns
<1>12. ASSUME NEW code, ExecutionFailed(code) PROVE AskInv'
  <2>1. /\ pc = "execute" /\ mgi' = RestoredInterface /\ UNCHANGED <<setup, mode, sent, moved, loose>>
        /\ StopShort
        /\ Return(IF job.at = "cartesian" THEN Unrecorded ELSE Failed("EXECUTE", NoCause, code))
    BY <1>12 DEF ExecutionFailed
  <2>2. arm' \in Somewhere /\ drive' \in Somewhere /\ arm' \in {drive', Elsewhere}
    BY <2>1, StopsSomewhere
  <2>3. moved' \in BOOLEAN /\ mgi' \in Interfaces /\ mgi'.frame = Base /\ loose' \subseteq Somewhere
    BY <2>1, InCall
  <2>4. ~(IF job.at = "cartesian" THEN Unrecorded ELSE Failed("EXECUTE", NoCause, code)).success
    BY <1>1
  <2>. QED  BY <2>1, <2>2, <2>3, <2>4, DoorReturns
<1>13. ASSUME NEW code, PathNotComputed(code) PROVE AskInv'
  <2>1. /\ pc = "compute" /\ mgi' = RestoredInterface
        /\ UNCHANGED <<setup, mode, sent, moved, robot, loose>>
        /\ Return(Failed("NONE", NoCause, code))
    BY <1>13 DEF PathNotComputed
  <2>2. arm' \in Somewhere /\ drive' \in Somewhere /\ arm' \in {drive', Elsewhere}
    BY <2>1, InCall DEF robot
  <2>3. moved' \in BOOLEAN /\ mgi' \in Interfaces /\ mgi'.frame = Base /\ loose' \subseteq Somewhere
    BY <2>1, InCall
  <2>. QED  BY <1>1, <2>1, <2>2, <2>3, DoorReturns
<1>. QED
  BY <1>4, <1>5, <1>6, <1>7, <1>8, <1>9, <1>10, <1>11, <1>12, <1>13

\* The steps that carry a call on.
LEMMA CallGoesOn ==
  ASSUME Inv, AskInv, UNCHANGED node,
         PlanFound \/ GoalAccepted \/ \E whole : PathComputed(whole)
  PROVE  AskInv'
<1>1. /\ pc \in {"plan", "send", "compute"} /\ UNCHANGED <<setup, mode, mgi, sent, robot, loose>>
      /\ moved' \in BOOLEAN /\ pc' \in {"execute", "sequence"} /\ UNCHANGED <<path, ask>>
      /\ arm' = arm
  BY InCall DEF PlanFound, GoalAccepted, PathComputed, call, node, robot
<1>2. TypeOK' /\ Inherits' /\ Still' /\ Accepted' /\ AtRunEnd' /\ EventAtItsState'
  BY <1>1, DoorCarriesOn
<1>3. Planning' /\ GoalsAsAsked'
  BY <1>1 DEF AskInv, Planning, GoalsAsAsked, TargetAsAsked, PlannerAsAsked, AskedItems, Exempt, HonouredBy
<1>4. RunAsked'
  <2>1. Running' => Running /\ (pc' = "sequence" => pc = "send")
    BY <1>1 DEF PlanFound, GoalAccepted, PathComputed, AskInv, Planning, Running
  <2>. QED  BY <1>1, <2>1 DEF AskInv, RunAsked, Running
<1>5. Framed'
  <2>1. CASE PlanFound
    <3>1. job'.at = "planned" /\ job'.to = Landed(Goal(mgi)) /\ pc = "plan" /\ pc' = "execute"
      BY <2>1 DEF PlanFound
    <3>. QED  BY <1>1, <3>1, LandedType DEF AskInv, Framed, InCartesian
  <2>2. CASE GoalAccepted
    BY <1>1, <2>2 DEF GoalAccepted, AskInv, Framed, InCartesian
  <2>3. ASSUME NEW whole, PathComputed(whole) PROVE Framed'
    <3>1. /\ pc = "compute" /\ pc' = "execute" /\ job.frame = Base /\ job.to \in Somewhere
          /\ job = [at |-> "cartesian", frame |-> job.frame, whole |-> job.whole, to |-> job.to]
      BY <2>3 DEF PathComputed, AskInv, Framed, InCartesian
    <3>2. job' = [at |-> "cartesian", frame |-> job.frame, whole |-> whole, to |-> job.to]
      BY <2>3, <3>1 DEF PathComputed
    <3>. QED  BY <3>1, <3>2 DEF Framed, InCartesian
  <2>. QED  BY <2>1, <2>2, <2>3
<1>. QED  BY <1>2, <1>3, <1>4, <1>5 DEF AskInv

\* The end of a tick.
LEMMA EndAsks ==
  ASSUME Inv, AskInv, EndFailed \/ EndMoved \/ EndRun \/ NotArrived
  PROVE  AskInv'
<1>1. /\ pc = "returned" /\ pc' = "ended"
      /\ UNCHANGED <<setup, mode, mgi, job, sent, moved, res, arm, drive, loose>>
      /\ UNCHANGED <<path, bb, ask, event, ticks, inherited>>
  BY DEF EndFailed, EndMoved, EndRun, NotArrived, End, call, robot
<1>2. /\ path.last \in Nat /\ IsResult(res)
  BY <1>1, NodesAssumption DEF AskInv, Accepted, Inv, Answered
<1>3. wrote'.phase \in Phases \union {NoFault.phase}
  <2>1. RunResult.phase = res.phase /\ RunResult.cause = res.cause
    BY <1>2 DEF RunResult, IsResult
  <2>2. res.phase \in Phases  BY <1>2 DEF IsResult
  <2>3. MotionFaultText(RunResult).phase = res.phase  BY <2>1 DEF MotionFaultText
  <2>4. Fault(RunResult).phase \in Phases \union {NoFault.phase}  BY <2>2, <2>3 DEF Fault
  <2>5. MotionFaultText(Failed("EXECUTE", "NOT_AT_PATH_STATE", NoCode)).phase \in Phases
    BY FailedResult DEF MotionFaultText, Phases
  <2>. QED  BY <2>4, <2>5 DEF EndFailed, EndMoved, EndRun, NotArrived, End
<1>4. /\ at' \in {NoRun, RunEnd} /\ status' \in {"SUCCESS", "FAILURE"}
      /\ at' = RunEnd /\ at' # NoRun => EndRun
  BY DEF EndFailed, EndMoved, EndRun, NotArrived, End
<1>5. NoRun.state = -1 /\ RunEnd.state = ask.to /\ RunEnd.place = ask.place[ask.to]
      /\ RunEnd.loose = (ask.loose \/ loose # {})
  BY DEF NoRun, RunEnd
<1>6. ASSUME at' # NoRun
      PROVE  /\ ask.to \in 0..path.last /\ ask.place[ask.to] \in Places
             /\ at' = RunEnd
             /\ ask.to \in EventStates(path) => ask.loose \/ arm = ask.place[ask.to]
  <2>1. EndRun /\ at' = RunEnd  BY <1>4, <1>6
  <2>2. Running /\ (Confirms => arm = ask.place[ask.to])
    BY <1>1, <2>1, <1>2 DEF EndRun, RunResult, Running, SettledAt, IsResult
  <2>. QED  BY <1>1, <2>1, <2>2 DEF AskInv, RunAsked, Confirms
<1>7. at'.state \in -1..path.last  BY <1>2, <1>4, <1>5, <1>6
<1>8. AtRunEnd'
  <2>1. CASE at' = NoRun  BY <1>5, <2>1 DEF AtRunEnd
  <2>2. CASE at' # NoRun  BY <1>1, <1>5, <1>6, <2>2 DEF AtRunEnd
  <2>. QED  BY <2>1, <2>2
<1>9. TypeOK'
  <2>1. DoorTypeOK'  BY <1>1 DEF AskInv, TypeOK, DoorTypeOK
  <2>. QED  BY <1>1, <1>3, <1>4, <1>7, <2>1 DEF AskInv, TypeOK
<1>10. Inherits' /\ Still' /\ Accepted' /\ EventAtItsState'
  BY <1>1 DEF AskInv, Inherits, Still, Accepted, EventAtItsState
<1>11. Framed' /\ Planning' /\ RunAsked'
  BY <1>1 DEF AskInv, Framed, InCartesian, Planning, RunAsked, Running
<1>12. GoalsAsAsked'
  BY <1>1 DEF AskInv, GoalsAsAsked, TargetAsAsked, PlannerAsAsked, AskedItems, Exempt, HonouredBy
<1>. QED  BY <1>8, <1>9, <1>10, <1>11, <1>12 DEF AskInv

\* What the environment does between and during calls: the arm settles, a goal nobody waits
\* for moves it, a detection rewrites a waypoint, the event of a run is dispatched.
LEMMA BackgroundAsks ==
  ASSUME Inv, AskInv, Background
  PROVE  AskInv'
<1>1. /\ UNCHANGED <<setup, mode, mgi, pc, job, sent, moved, res>>
      /\ UNCHANGED <<path, bb, ask, status, wrote, at, event, ticks, inherited>>
  BY DEF Background, Settle, LooseGoal, call, node
<1>2. /\ arm' \in Somewhere /\ drive' \in Somewhere /\ loose' \subseteq loose
      /\ arm' \in {drive', Elsewhere} /\ loose \subseteq Somewhere
  BY InCall DEF Background, Settle, LooseGoal
<1>3. loose # {} \/ arm = Elsewhere
  BY DEF Background, Settle, LooseGoal, AskInv, Still
<1>4. Elsewhere \notin Places  BY NodesAssumption
<1>5. TypeOK'
  <2>1. DoorTypeOK'  BY <1>1, <1>2 DEF AskInv, TypeOK, DoorTypeOK
  <2>. QED  BY <1>1, <2>1 DEF AskInv, TypeOK
<1>6. Inherits' /\ Still' /\ Accepted' /\ EventAtItsState' /\ Framed'
  BY <1>1, <1>2 DEF AskInv, Inherits, Still, Accepted, EventAtItsState, Framed, InCartesian
<1>7. Planning'
  <2>1. (Exempt' <=> Exempt) /\ Goal(mgi)' = Goal(mgi)  BY <1>1 DEF Exempt
  <2>2. \A planner : HonouredBy(planner)' = HonouredBy(planner)  BY DEF HonouredBy
  <2>. QED  BY <1>1, <2>1, <2>2 DEF AskInv, Planning, Planned
<1>8. GoalsAsAsked'
  BY <1>1 DEF AskInv, GoalsAsAsked, TargetAsAsked, PlannerAsAsked, AskedItems, Exempt, HonouredBy
<1>9. RunAsked'
  <2> SUFFICES ASSUME Running PROVE RunAsked'
    BY <1>1 DEF AskInv, RunAsked, Running
  <2>1. ask.loose \/ ~(pc \in {"send", "sequence"} \/ (pc = "returned" /\ ask.from = ask.to))
    <3>1. ask.from \in 0..path.last /\ ask.place[ask.from] \in Places
      BY DEF AskInv, RunAsked
    <3>. QED  BY <1>3, <1>4, <3>1 DEF AskInv, RunAsked
  <2>. QED  BY <1>1, <1>2, <2>1 DEF AskInv, RunAsked, Running
<1>10. AtRunEnd'
  BY <1>1, <1>2, <1>3, <1>4 DEF AskInv, AtRunEnd
<1>. QED  BY <1>5, <1>6, <1>7, <1>8, <1>9, <1>10 DEF AskInv

\* The steps of the door, whoever called it.
LEMMA DoorStepAsks ==
  ASSUME Inv, AskInv, DoorStep, UNCHANGED node
  PROVE  AskInv'
<1>1. ASSUME NEW code, PlanRefused(code) PROVE AskInv'
  BY <1>1, PlanRefusedAsks
<1>2. ASSUME ~\E code : PlanRefused(code) PROVE AskInv'
  BY <1>2, CallEnds, CallGoesOn DEF DoorStep
<1>. QED  BY <1>1, <1>2

\* The tree moves on, and the event of the run that just ended is dispatched with the robot
\* at its state.
LEMMA BetweenAsks ==
  ASSUME Inv, AskInv, \/ MoveOn \/ ProcessEvent \/ UNCHANGED vars
                      \/ \E w \in Waypoints, p \in Places : Detect(w, p)
  PROVE  AskInv'
<1>1. mode \in PlannerModes /\ mgi \in Interfaces  BY InCall
<1>2. CASE MoveOn
  <2>1. /\ pc = "ended" /\ pc' = "idle" /\ sent' = {} /\ moved' = FALSE
        /\ ask' = [node |-> "none"] /\ status' = "none" /\ wrote' = NoFault
        /\ UNCHANGED <<setup, mode, mgi, job, arm, drive, loose, path, bb, at, event, ticks, inherited>>
    BY <1>2 DEF MoveOn, robot, NoAsk
  <2>2. TypeOK'
    <3>1. DoorTypeOK'  BY <2>1 DEF AskInv, TypeOK, DoorTypeOK
    <3>. QED  BY <2>1, <3>1 DEF AskInv, TypeOK
  <2>3. Inherits' /\ Still' /\ Accepted' /\ AtRunEnd' /\ EventAtItsState'
    BY <2>1 DEF AskInv, Inherits, Still, Accepted, AtRunEnd, EventAtItsState
  <2>4. Framed' /\ Planning' /\ RunAsked' /\ GoalsAsAsked'
    BY <2>1 DEF AskInv, Framed, InCartesian, Planning, RunAsked, Running, GoalsAsAsked
  <2>. QED  BY <2>2, <2>3, <2>4 DEF AskInv
<1>3. CASE ProcessEvent
  <2>1. /\ pc = "idle" /\ at.state \in EventStates(path)
        /\ event' = [state |-> at.state, place |-> at.place, arm |-> arm, loose |-> at.loose]
        /\ at' = [state |-> -1]
        /\ UNCHANGED <<setup, mode, mgi, pc, job, sent, moved, res, arm, drive, loose>>
        /\ UNCHANGED <<path, bb, ask, status, wrote, ticks, inherited>>
    BY <1>3 DEF ProcessEvent, door, NoRun
  <2>2. path.last \in Nat /\ at'.state = -1 /\ event'.state = at.state /\ event'.place = at.place
        /\ event'.arm = arm /\ event'.loose = at.loose
    BY <2>1, NodesAssumption DEF AskInv, Accepted
  <2>3. TypeOK'
    <3>1. DoorTypeOK'  BY <2>1 DEF AskInv, TypeOK, DoorTypeOK
    <3>. QED  BY <2>1, <2>2, <3>1 DEF AskInv, TypeOK
  <2>4. Inherits' /\ Still' /\ Accepted' /\ AtRunEnd'  BY <2>1, <2>2 DEF AskInv, Inherits, Still, Accepted, AtRunEnd
  <2>5. EventAtItsState'  BY <2>1, <2>2 DEF AskInv, AtRunEnd, EventAtItsState
  <2>6. Framed' /\ Planning' /\ RunAsked'
    BY <2>1 DEF AskInv, Framed, InCartesian, Planning, RunAsked, Running
  <2>7. GoalsAsAsked'
    <3>1. sent' = {}  BY <2>1 DEF Inv, Quiet
    <3>. QED  BY <3>1 DEF GoalsAsAsked
  <2>. QED  BY <2>3, <2>4, <2>5, <2>6, <2>7 DEF AskInv
<1>4. ASSUME NEW w \in Waypoints, NEW p \in Places, Detect(w, p) PROVE AskInv'
  <2>1. /\ pc = "idle" /\ bb' = [bb EXCEPT ![w] = p]
        /\ UNCHANGED <<setup, mode, mgi, pc, job, sent, moved, res, arm, drive, loose>>
        /\ UNCHANGED <<path, ask, status, wrote, at, event, ticks, inherited>>
    BY <1>4 DEF Detect, door
  <2>2. TypeOK'
    <3>1. DoorTypeOK'  BY <2>1 DEF AskInv, TypeOK, DoorTypeOK
    <3>2. bb' \in [Waypoints -> Places]  BY <2>1 DEF AskInv, TypeOK
    <3>. QED  BY <2>1, <3>1, <3>2 DEF AskInv, TypeOK
  <2>3. Inherits' /\ Still' /\ Accepted' /\ AtRunEnd' /\ EventAtItsState'
    BY <2>1 DEF AskInv, Inherits, Still, Accepted, AtRunEnd, EventAtItsState
  <2>4. Framed' /\ Planning' /\ RunAsked'
    BY <2>1 DEF AskInv, Framed, InCartesian, Planning, RunAsked, Running
  <2>5. GoalsAsAsked'
    <3>1. sent' = {}  BY <2>1 DEF Inv, Quiet
    <3>. QED  BY <3>1 DEF GoalsAsAsked
  <2>. QED  BY <2>2, <2>3, <2>4, <2>5 DEF AskInv
<1>5. CASE UNCHANGED vars
  <2>1. /\ UNCHANGED <<setup, mode, mgi, pc, job, sent, moved, res, arm, drive, loose>>
        /\ UNCHANGED <<path, bb, ask, status, wrote, at, event, ticks, inherited>>
    BY <1>5 DEF vars, door, node
  <2>2. TypeOK' /\ Inherits' /\ Still' /\ Accepted' /\ AtRunEnd' /\ EventAtItsState' /\ Framed' /\ RunAsked'
    BY <2>1 DEF AskInv, TypeOK, DoorTypeOK, Inherits, Still, Accepted, AtRunEnd, EventAtItsState,
                Framed, InCartesian, RunAsked, Running
  <2>3. Planning'
    <3>1. (Exempt' <=> Exempt) /\ Goal(mgi)' = Goal(mgi)  BY <2>1 DEF Exempt
    <3>2. \A planner : HonouredBy(planner)' = HonouredBy(planner)  BY DEF HonouredBy
    <3>. QED  BY <2>1, <3>1, <3>2 DEF AskInv, Planning, Planned
  <2>4. GoalsAsAsked'
    BY <2>1 DEF AskInv, GoalsAsAsked, TargetAsAsked, PlannerAsAsked, AskedItems, Exempt, HonouredBy
  <2>. QED  BY <2>2, <2>3, <2>4 DEF AskInv
<1>. QED  BY <1>2, <1>3, <1>4, <1>5

LEMMA InitAsk == Init => AskInv
<1> SUFFICES ASSUME Init PROVE AskInv
  OBVIOUS
<1>1. /\ setup \in Setups /\ mode = EffectiveMode(LaunchMode) /\ mgi = InitialInterface
      /\ pc = "idle" /\ sent = {} /\ moved = FALSE /\ arm = Home /\ drive = Home /\ loose = {}
      /\ path \in PathFiles /\ ParsePath(path, setup.backend) /\ bb \in [Waypoints -> Places]
      /\ ask = [node |-> "none"] /\ status = "none" /\ wrote = NoFault
      /\ at = [state |-> -1] /\ event = [state |-> -1] /\ ticks = 0 /\ inherited = LaunchMode
  BY DEF Init, DoorInit, NoAsk, NoRun, NoEvent
<1>2. /\ Tip \in Links /\ Base \in Frames /\ Home \in Places /\ LaunchMode \in PlannerModes
      /\ MaxTicks \in Nat /\ path.last \in Nat
  BY <1>1, DoorAssumption, NodesAssumption
<1>3. mgi \in Interfaces /\ mgi.frame = Base
  <2>1. Need(Tip, Home, Base) \in Needs  BY <1>2 DEF Need, Needs
  <2>2. [l \in Links |-> NoTarget] \in [Links -> Needs \union {NoTarget}]  OBVIOUS
  <2>. QED  BY <1>1, <1>2, <2>1, <2>2 DEF InitialInterface, Interfaces
<1>4. mode \in PlannerModes  BY <1>1, <1>2 DEF EffectiveMode, PlannerModes
<1>5. DoorTypeOK  BY <1>1, <1>2, <1>3, <1>4 DEF DoorTypeOK, Interfaces, Somewhere
<1>6. TypeOK  BY <1>1, <1>2, <1>5 DEF TypeOK
<1>7. Inherits /\ Still /\ Accepted /\ AtRunEnd /\ EventAtItsState
  BY <1>1 DEF Inherits, Still, Accepted, AtRunEnd, EventAtItsState
<1>8. Framed /\ Planning /\ RunAsked /\ GoalsAsAsked
  BY <1>1, <1>3 DEF Framed, InCartesian, Planning, RunAsked, Running, GoalsAsAsked
<1>. QED  BY <1>6, <1>7, <1>8 DEF AskInv

LEMMA NextAsk == Inv /\ AskInv /\ [Next]_vars => AskInv'
<1> SUFFICES ASSUME Inv, AskInv, [Next]_vars PROVE AskInv'
  OBVIOUS
<1>1. ASSUME NEW t \in PoseTargets({Tip}, TRUE) \union PoseTargets({Tip}, FALSE) \union JointTargets,
             NEW planner \in Planners, NEW motion \in {"lin", "circ", "ptp", "free"},
             MoveWaypoint(t, motion, planner)
      PROVE  AskInv'
  <2>1. {Tip} \in SUBSET Links  BY DoorAssumption
  <2>2. IsTarget(t) /\ (t \in JointTargets \/ t.need.link = Tip)  BY <1>1, <2>1, TargetsAreTargets
  <2>3. t.need.link = Tip
    BY <2>2 DEF JointTargets, JointTarget, BadTarget, Need
  <2>. QED  BY <1>1, <2>2, <2>3, MoveWaypointTick
<1>2. ASSUME NEW who \in NodeNames, NEW r, Tick(AskRefused(who)), UNCHANGED inherited, RefuseNode(r), ~r.success
      PROVE  AskInv'
  <2>1. AskRefused(who).node = who  BY DEF AskRefused
  <2>2. pc = "idle" /\ UNCHANGED <<setup, mode, mgi, robot, loose>> /\ Refuse(r)
    BY <1>2 DEF Tick, RefuseNode
  <2>3. /\ inherited' \in PlannerModes /\ mode' = EffectiveMode(inherited')
        /\ mgi' \in Interfaces /\ mgi'.frame = Base
    BY <1>2, <2>2, BetweenCalls
  <2>. QED  BY <1>2, <2>1, <2>2, <2>3, RefusedTick
<1>3. ~Exception.success /\ ~Unrecorded.success /\ \A cause : ~RequestRefused(cause).success
  BY RequestResult, UnrecordedResult DEF Exception, Failed
<1>4. {"MoveWaypoint", "FollowPath", "MovePtp", "MoveLinear", "MoveCircular", "MoveCollisionFree"}
        \subseteq NodeNames
  BY DEF NodeNames, HasFaultPort
<1>5. CASE MoveWaypointRefused  BY <1>2, <1>3, <1>4, <1>5 DEF MoveWaypointRefused
<1>6. CASE BadPort  BY <1>2, <1>3, <1>4, <1>6 DEF BadPort
<1>7. CASE FollowPathRefused  BY <1>2, <1>3, <1>4, <1>7 DEF FollowPathRefused
<1>8. ASSUME NEW t \in JointTargets, MovePtp(t) PROVE AskInv'
  BY <1>8, PtpTick
<1>9. ASSUME NEW link \in Links, NEW place \in Poses,
             MoveLinear(link, place) \/ MoveCircular(link, place)
      PROVE  AskInv'
  <2> DEFINE t == PoseTarget(link, place, FALSE)
  <2>1. t.need = Need(link, place, Base) /\ t.need.link = link /\ t.need.place = place
    BY DEF PoseTarget, Need
  <2>2. Poses \subseteq Places /\ Base \in Frames  BY DoorAssumption DEF Poses, AskInv, TypeOK
  <2>3. IsTarget(t)
    <3>1. Need(link, place, Base) \in Needs  BY <2>2 DEF Need, Needs
    <3>. QED  BY <2>1, <3>1 DEF IsTarget
  <2> HIDE DEF t
  <2>4. CASE Tick(AskTarget("MoveLinear", t, "pilz")) /\ UNCHANGED inherited /\ MoveLinearDoor(link, place)
    BY <1>4, <2>1, <2>3, <2>4, LinearTick
  <2>5. CASE Tick(AskTarget("MoveCircular", t, "pilz")) /\ UNCHANGED inherited /\ MoveCircularDoor(link, place)
    BY <1>4, <2>1, <2>3, <2>5, CircularTick
  <2>. QED  BY <1>9, <2>4, <2>5 DEF MoveLinear, MoveCircular, t
<1>10. ASSUME NEW t \in PoseTargets(Links, FALSE) \union JointTargets, NEW planner \in Planners,
              MoveCollisionFree(t, planner)
       PROVE  AskInv'
  <2>1. IsTarget(t)  BY <1>10, TargetsAreTargets
  <2> DEFINE named == PlannerOf("free", planner)
  <2>2. inherited \in PlannerModes /\ mode = EffectiveMode(inherited)
    BY DEF AskInv, TypeOK, Inherits
  <2>3. named \in PlannerModes /\ MoveMode("free", planner) \in {named, EffectiveMode(named)}
    BY <2>2, NodesAssumption DEF MoveMode, PlannerOf, PlannerModes
  <2>4. /\ Tick(AskTarget("MoveCollisionFree", t, named)) /\ inherited' = named
        /\ MoveCollisionFreeDoor(t, MoveMode("free", planner))
    BY <1>10 DEF MoveCollisionFree, Leaves
  <2> HIDE DEF named
  <2>. QED  BY <1>4, <2>1, <2>3, <2>4, CollisionFreeTick
<1>11. ASSUME NEW f \in ProcessFiles, ExecuteProcessPath(f.places, f.frame) PROVE AskInv'
  <2>1. f.places \in Seq(Places) /\ f.frame \in Frames  BY NodesAssumption
  <2>. QED  BY <1>11, <2>1, ProcessPathTick
<1>12. ASSUME NEW ranged \in BOOLEAN, NEW from \in 0..path.last, NEW to \in 0..path.last,
              FollowPath(ranged, from, to)
       PROVE  AskInv'
  BY <1>12, FollowPathTick
<1>13. CASE DoorStep /\ UNCHANGED node  BY <1>13, DoorStepAsks
<1>14. CASE NotAtStart \/ AtOneState \/ SendRun  BY <1>14, StartStep
<1>15. CASE EndFailed \/ EndMoved \/ EndRun \/ NotArrived  BY <1>15, EndAsks
<1>16. CASE Background  BY <1>16, BackgroundAsks
<1>17. CASE MoveOn \/ ProcessEvent \/ UNCHANGED vars
            \/ \E w \in Waypoints, p \in Places : Detect(w, p)
  BY <1>17, BetweenAsks
<1>. QED
  BY <1>1, <1>5, <1>6, <1>7, <1>8, <1>9, <1>10, <1>11, <1>12, <1>13, <1>14, <1>15, <1>16, <1>17
     DEF Next

-----------------------------------------------------------------------------
\* The door and the nodes together keep what was asked and where the robot is.
THEOREM AskInvariance == Spec => []AskInv
<1>1. Init => Inv /\ AskInv  BY InitInv, InitAsk
<1>2. Inv /\ AskInv /\ [Next]_vars => Inv' /\ AskInv'  BY NextInv, NextAsk
<1>. QED  BY <1>1, <1>2, PTL DEF Spec

\* The door's and the nodes' variables keep their types.
THEOREM TypeCorrect == Spec => []TypeOK
<1>1. AskInv => TypeOK  BY DEF AskInv
<1>. QED  BY <1>1, AskInvariance, PTL

\* MoveIt is asked for the target of the node being ticked, whatever targets and frames
\* the moves before it left on the shared interface (moveit_motion_runtime.cpp clears
\* targets first; ScopedFrameAndLink; a sequence's last blend is zeroed), and by a
\* pipeline of its planner: Pilz for a lin, a circ and a ptp waypoint that names none, the
\* one the node names, and else the one the newest free or ptp move left in the selector
\* (setMode is never undone), which need not be the launch mode bt_nodes.cpp:548 and 688
\* speak of.
THEOREM RequestsAreAsAsked == Spec => []GoalsAsAsked
<1>1. AskInv => GoalsAsAsked  BY DEF AskInv
<1>. QED  BY <1>1, AskInvariance, PTL

\* A run in flight drives through no state where its path stops for an event, and left
\* from its first state (bt_nodes.cpp: the range checks and settleAt of FollowPath).
THEOREM RunsAreEventFree == Spec => []RunIsEventFree
<1>1. AskInv => RunIsEventFree
  BY DEF AskInv, RunAsked, Running, RunIsEventFree, RunInRange, DrivesThroughEvent
<1>. QED  BY <1>1, AskInvariance, PTL

\* A process event finds the robot at its state: the run before it settled there, or the
\* node failed (bt_nodes.cpp, FollowPath's arrival check).
THEOREM EventsAtTheirStates == Spec => []EventAtItsState
<1>1. AskInv => EventAtItsState  BY DEF AskInv
<1>. QED  BY <1>1, AskInvariance, PTL

-----------------------------------------------------------------------------
(* The path library: which accepted paths can be run, split at their        *)
(* events.                                                                 *)

\* What the lemmas need of a path definition: its states are numbered.
Numbered(p) == p.last \in Int

\* The loader anchors every event at a state of the path.
LEMMA EventStatesAreStates ==
  ASSUME NEW p, EventsAccepted(p)
  PROVE  EventStates(p) \subseteq 0..p.last
BY DEF EventsAccepted, EventAccepted, EventStates

\* The robot stops at an event state: the segment that arrives does not blend
\* (path_library.cpp, the last check of parseEvents).
LEMMA EventStatesEndNoBlend ==
  ASSUME NEW p, EventsAccepted(p), NEW s \in EventStates(p)
  PROVE  s - 1 \notin p.blend
BY DEF EventsAccepted, EventAccepted, EventStates

\* Every cut is a state.
LEMMA CutsAreStates ==
  ASSUME NEW p, Numbered(p), p.last >= 1, EventsAccepted(p)
  PROVE  Cuts(p) \subseteq 0..p.last
BY EventStatesAreStates DEF Cuts, Numbered

\* A run between two neighbouring cuts stops where the path stops: it drives
\* through no event state and ends in no blend.
LEMMA SplitRunInRange ==
  ASSUME NEW p, Numbered(p), p.last >= 1, ~p.dense, EventsAccepted(p),
         NEW from \in Cuts(p), NEW to \in Cuts(p), from < to,
         \A c \in Cuts(p) : ~(from < c /\ c < to)
  PROVE  RunInRange(p, TRUE, from, to)
<1>1. from \in 0..p.last /\ to \in 0..p.last
  BY CutsAreStates
<1>2. ~DrivesThroughEvent(p, from, to)
  BY DEF DrivesThroughEvent, Cuts
<1>3. ~EndsInBlend(p, from, to)
  <2>1. CASE to = p.last
    BY <2>1, <1>1 DEF EndsInBlend, Numbered
  <2>2. CASE to # p.last
    <3>1. to \in EventStates(p)
      BY <2>2, <1>1 DEF Cuts
    <3>2. QED
      BY <3>1, EventStatesEndNoBlend DEF EndsInBlend
  <2>3. QED
    BY <2>1, <2>2
<1>4. QED
  BY <1>1, <1>2, <1>3 DEF RunInRange, Numbered

\* Only a dense continuous path goes through the Cartesian backend, which wants two poses:
\* every other path has enough with one pose a run.
LEMMA RouteOf ==
  ASSUME NEW p, NEW backend, ProviderAccepted(p, backend)
  PROVE  /\ ~p.dense => FewestPoses(p) = 1
         /\ p.dense /\ p.continuity = "stop"  => FewestPoses(p) = 1
         /\ p.dense /\ p.continuity = "blend" => FewestPoses(p) = 2
<1> DEFINE provider == Provider(p)
           required == RequiredCapabilities(p)
<1>1. provider \in DOMAIN Providers /\ required \subseteq Providers[provider].provides
  BY DEF ProviderAccepted, MissingCapabilities
<1>2. /\ ~p.dense => "multi_segment_path" \in required
      /\ p.dense /\ p.continuity = "stop"  => "multi_segment_path" \in required
      /\ p.dense /\ p.continuity = "blend" => "continuous_path" \in required
  BY DEF RequiredCapabilities
<1> HIDE DEF provider, required
<1>3. "multi_segment_path" \in required => Providers[provider].route # "cartesian_path"
  BY <1>1 DEF Providers
<1>4. "continuous_path" \in required => Providers[provider].route = "cartesian_path"
  BY <1>1 DEF Providers
<1>. QED  BY <1>2, <1>3, <1>4 DEF FewestPoses, provider

\* Of every path the loader accepts, of any length, with any events and blends, the runs
\* its events split it into are runs FollowPath agrees to, with poses enough for their
\* backend; but those of a continuous dense path of two samples are not: it is accepted
\* and cannot be run (path_library.cpp against the range checks of FollowPath and
\* cartesian_waypoint_backend.cpp:78).
THEOREM AcceptedPathsRun ==
  ASSUME NEW p, NEW backend, Numbered(p), p.continuity \in {"blend", "stop"}
  PROVE  AcceptedIsRunnable(p, backend)
<1> SUFFICES ASSUME ParsePath(p, backend) PROVE Runnable(p) <=> ~TwoSamples(p)
  BY DEF AcceptedIsRunnable
<1>1. p.last \in Int /\ p.last >= 1 /\ EventsAccepted(p) /\ ProviderAccepted(p, backend)
  BY DEF Numbered, ParsePath, SegmentsAccepted, SourceAccepted
<1>2. CASE ~p.dense
  <2>1. ~TwoSamples(p) /\ FewestPoses(p) = 1  BY <1>1, <1>2, RouteOf DEF TwoSamples
  <2>2. ASSUME NEW run \in SplitRuns(p)
        PROVE  RunInRange(p, TRUE, run[1], run[2]) /\ run[2] - run[1] >= 1
    <3>1. PICK from \in Cuts(p), to \in Cuts(p) :
            /\ run = <<from, to>> /\ from < to
            /\ \A c \in Cuts(p) : ~(from < c /\ c < to)
      BY <2>2 DEF SplitRuns
    <3>2. RunInRange(p, TRUE, from, to)  BY <1>1, <1>2, <3>1, SplitRunInRange
    <3>3. from \in 0..p.last /\ to \in 0..p.last
      <4>1. Numbered(p)  OBVIOUS
      <4>. QED  BY <1>1, <4>1, CutsAreStates
    <3>4. to - from >= 1  BY <1>1, <3>1, <3>3
    <3>. QED  BY <3>1, <3>2, <3>4
  <2>3. Runs(p) = SplitRuns(p) /\ ~p.dense = TRUE  BY <1>2 DEF Runs
  <2>. QED  BY <2>1, <2>2, <2>3 DEF Runnable
<1>3. CASE p.dense
  <2>1. EventStates(p) = {}  BY <1>1, <1>3 DEF EventsAccepted, EventStates
  <2>2. RunInRange(p, ~p.dense, 0, p.last)
    BY <1>1, <1>3, <2>1 DEF RunInRange, DrivesThroughEvent, EndsInBlend
  <2>3. Runnable(p) <=> p.last >= FewestPoses(p)
    <3>1. Runs(p) = {<<0, p.last>>}  BY <1>3 DEF Runs
    <3>2. p.last - 0 = p.last  BY <1>1
    <3>. QED  BY <2>2, <3>1, <3>2 DEF Runnable
  <2>4. CASE p.continuity = "blend"
    BY <1>1, <1>3, <2>3, <2>4, RouteOf DEF TwoSamples
  <2>5. CASE p.continuity = "stop"
    BY <1>1, <1>3, <2>3, <2>5, RouteOf DEF TwoSamples
  <2>. QED  BY <2>4, <2>5
<1>. QED  BY <1>2, <1>3

\* The library's path can be run, split at its events, if and only if it is not a
\* continuous dense path of two samples (bt_nodes.cpp:973, cartesian_waypoint_backend.cpp:78).
THEOREM LoadedPathsRun == Spec => []AcceptedPathRuns
<1>1. AskInv => AcceptedPathRuns
  <2> SUFFICES ASSUME AskInv PROVE AcceptedIsRunnable(path, setup.backend)
    BY DEF AcceptedPathRuns
  <2>1. path.last \in Nat /\ path.continuity \in {"blend", "stop"}
    BY NodesAssumption DEF AskInv, Accepted
  <2>. QED  BY <2>1, AcceptedPathsRun DEF Numbered
<1>. QED  BY <1>1, AskInvariance, PTL

=============================================================================
