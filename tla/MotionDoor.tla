----------------------------- MODULE MotionDoor -----------------------------
(***************************************************************************)
(* The motion runtime behind the BT nodes (moveit_motion_runtime.cpp, its  *)
(* strategy selector, and the Pilz-sequence and Cartesian-waypoint         *)
(* backends): one call of a door method, from the targets it sets on the   *)
(* one shared MoveGroupInterface to the result it returns.                 *)
(*                                                                         *)
(* What outlives a call is what makes calls interact: the interface's      *)
(* targets and reference frame, the selector's planner mode, the arm (an   *)
(* execution may report success while the arm still settles), and sequence *)
(* goals whose caller gave up waiting.                                     *)
(*                                                                         *)
(* A target is a requirement: a link at a place, in a frame.  A joint      *)
(* target is the requirement its configuration fulfils (the joints that    *)
(* put the tip at that place), so that a pose and its configuration        *)
(* compare equal.  Scalings, tolerances, metrics and texts are left out,   *)
(* as is plan_only (no node asks for it).                                  *)
(***************************************************************************)
EXTENDS Integers, Sequences, MotionFailure

CONSTANTS
  Places,       \* where a link can be asked to be
  Links,        \* links a goal can be for
  Tip,          \* the configured tip link
  Frames,       \* reference frames
  Base,         \* the runtime's base frame
  Home,         \* the place of the interface's initial joint target
  Pipelines,    \* the planning pipelines move_group has
  LaunchMode,   \* planner_mode
  PlanRetries,  \* plan_retries
  PlanCodes,    \* the codes a refused planning answer may carry
  Defects,      \* the causes the validator may refuse a plan for
  Setups        \* the configurations a runner may have

PlannerModes == {"pilz", "ompl", "ompl_chomp", "stomp"}

Backends == {"pilz_sequence", "cartesian_waypoints"}

ASSUME DoorAssumption ==
  /\ Setups \subseteq [backend : Backends, resolves : BOOLEAN]
  /\ Tip \in Links /\ Base \in Frames /\ Home \in Places
  /\ Pipelines \subseteq {"pilz", "ompl", "chomp", "stomp"}
  /\ LaunchMode \in PlannerModes /\ PlanRetries \in Nat
  /\ Defects \subseteq ValidationCauses(TRUE)

VARIABLES
  setup,    \* backend: process_path_backend; resolves: a pose goal's joints
            \* are the runtime's choice (nearest, and the group has a solver)
  mode,     \* the selector's mode_
  mgi,      \* the MoveGroupInterface: its target and its reference frame
  pc,       \* where the call is: "idle" when none is
  job,      \* the call's locals
  sent,     \* what this call has asked of MoveIt
  moved,    \* an execution this call asked for may have begun
  res,      \* the call's result
  arm,      \* where the tip is: a place, or Elsewhere
  drive,    \* where its controller still takes it
  loose     \* places sequence goals nobody waits for may still go to

door == <<setup, mode, mgi, pc, job, sent, moved, res, arm, drive, loose>>
call == <<sent, moved, res>>
robot == <<arm, drive>>

Elsewhere == "elsewhere"
NoTarget  == [link |-> "none"]
Somewhere == Places \union {Elsewhere}

Need(link, place, frame) == [link |-> link, place |-> place, frame |-> frame]
Needs == [link : Links, place : Places, frame : Frames]

\* Where the tip is once a goal, the set of what it needs, is reached.
Landed(goal) ==
  IF \E p \in Places : goal = {Need(Tip, p, Base)}
    THEN CHOOSE p \in Places : goal = {Need(Tip, p, Base)}
    ELSE Elsewhere

-----------------------------------------------------------------------------
(* The MoveGroupInterface (MoveIt, external): one joint target, a pose     *)
(* target per link, and which kind the next goal is built from.            *)

InitialInterface == [type |-> "joint", joint |-> Need(Tip, Home, Base),
                     poses |-> [l \in Links |-> NoTarget], frame |-> Base]

\* clearPoseTargets() leaves the joint target and the kind alone.
ClearPoseTargets(m) == [m EXCEPT !.poses = [l \in Links |-> NoTarget]]

SetPoseTarget(m, link, place) ==
  [m EXCEPT !.type = "pose", !.poses[link] = Need(link, place, m.frame)]

SetJointTarget(m, need) == [m EXCEPT !.type = "joint", !.joint = need]

\* setNamedTarget / setJointValueTarget: an unknown name and a vector of the
\* wrong size are refused (false) and change nothing.
SetJoints(m, t) == IF t.kind = "bad" THEN m ELSE SetJointTarget(m, t.need)

\* The goal constraints of a planning request.
Goal(m) == IF m.type = "joint" THEN {m.joint}
           ELSE {m.poses[l] : l \in {k \in Links : m.poses[k] # NoTarget}}

-----------------------------------------------------------------------------
(* The strategy selector.                                                  *)

PipelineAvailable(pipeline) == Pipelines = {} \/ pipeline \in Pipelines

EffectiveMode(requested) ==
  CASE requested = "stomp" /\ ~PipelineAvailable("stomp")      -> "ompl"
    [] requested = "ompl_chomp" /\ ~PipelineAvailable("chomp") -> "ompl"
    [] OTHER -> requested

\* The pipeline, and whether CHOMP is tried first.
SelectPlanner(intent, m) ==
  CASE intent = "LINEAR" -> [pipeline |-> "pilz", optimize |-> FALSE]
    [] intent # "LINEAR" /\ m = "pilz"  -> [pipeline |-> "pilz", optimize |-> FALSE]
    [] intent # "LINEAR" /\ m = "stomp" -> [pipeline |-> "stomp", optimize |-> FALSE]
    [] intent # "LINEAR" /\ m = "ompl_chomp" ->
         [pipeline |-> "ompl", optimize |-> TRUE]
    [] intent # "LINEAR" /\ m = "ompl" ->
         [pipeline |-> "ompl",
          optimize |-> intent = "COLLISION_FREE_OPTIMIZED" /\ PipelineAvailable("chomp")]

-----------------------------------------------------------------------------
NoJob == [at |-> "none"]

DoorInit ==
  /\ setup \in Setups
  /\ mode = EffectiveMode(LaunchMode)
  /\ mgi = InitialInterface
  /\ pc = "idle" /\ job = NoJob
  /\ sent = {} /\ moved = FALSE /\ res = Succeeded
  /\ arm = Home /\ drive = Home /\ loose = {}

\* The call returns r to the node.
Return(r) == pc' = "returned" /\ job' = NoJob /\ res' = r

\* doPlan(): the interface is asked to plan, for the targets it has now.
DoPlan(m, profile, chomp, attempt) ==
  LET pipeline == IF chomp THEN "chomp" ELSE profile.pipeline IN
  /\ pc' = "plan"
  /\ job' = [at |-> "plan", profile |-> profile, chomp |-> chomp, attempt |-> attempt]
  /\ sent' = sent \union {[by |-> pipeline, goal |-> Goal(m)]}
  /\ UNCHANGED <<moved, res>>

\* planAndExecute(): the first attempt, CHOMP first in a two-stage profile.
PlanAndExecute(m, profile) == DoPlan(m, profile, profile.optimize, 1)

\* Nothing is asked of MoveIt.
Refuse(r) == Return(r) /\ UNCHANGED <<sent, moved>>

MovePtpDoor(t) ==
  LET cleared == ClearPoseTargets(mgi) IN
  /\ UNCHANGED <<setup, mode, robot, loose>>
  /\ IF t.kind = "bad" /\ t.named
       THEN mgi' = cleared /\ Refuse(Unrecorded)
       ELSE /\ mgi' = SetJoints(cleared, t)
            /\ PlanAndExecute(mgi', SelectPlanner("PTP", mode))

\* Mutant of MoveLinearDoor: the pose targets of earlier calls are kept.
MoveLinearDoorUncleared(link, place) ==
  /\ mgi' = SetPoseTarget(mgi, link, place)
  /\ PlanAndExecute(mgi', SelectPlanner("LINEAR", mode))
  /\ UNCHANGED <<setup, mode, robot, loose>>

MoveLinearDoor(link, place) ==
  /\ mgi' = SetPoseTarget(ClearPoseTargets(mgi), link, place)
  /\ PlanAndExecute(mgi', SelectPlanner("LINEAR", mode))
  /\ UNCHANGED <<setup, mode, robot, loose>>

\* A pose target of moveCollisionFree(): its configuration resolved nearest
\* the start state or the taught one, else left to the planner.
PoseGoal(cleared, t, profile) ==
  \/ /\ ~setup.resolves
     /\ IF t.taught
          THEN mgi' = cleared /\ Refuse(RequestRefused("CONFIGURATION_UNREACHABLE"))
          ELSE /\ mgi' = SetPoseTarget(cleared, t.need.link, t.need.place)
               /\ PlanAndExecute(mgi', profile)
  \/ /\ setup.resolves
     /\ mgi' = SetJointTarget(cleared, t.need)
     /\ \/ PlanAndExecute(mgi', profile)
        \/ Refuse(RequestRefused("INVALID_CONFIGURATION"))   \* out of bounds
  \/ /\ setup.resolves
     /\ mgi' = cleared
     /\ \/ Refuse(RequestRefused("STATE_UNAVAILABLE"))
        \/ Refuse(Failed("PLAN", NoCause, "NO_IK_SOLUTION"))
        \/ Refuse(RequestRefused("INVALID_CONFIGURATION"))
        \/ t.taught /\ Refuse(RequestRefused("CONFIGURATION_UNREACHABLE"))

\* The mode asked for stays the selector's: setMode is never undone.
MoveCollisionFreeDoor(t, asked) ==
  LET cleared == ClearPoseTargets(mgi)
      intent  == IF asked = "ompl_chomp" THEN "COLLISION_FREE_OPTIMIZED"
                 ELSE "COLLISION_FREE"
  IN  /\ mode' = EffectiveMode(asked)
      /\ IF t.kind = "pose"
           THEN PoseGoal(cleared, t, SelectPlanner(intent, mode'))
           ELSE /\ mgi' = SetJoints(cleared, t)   \* its answer is not read
                /\ PlanAndExecute(mgi', SelectPlanner(intent, mode'))
      /\ UNCHANGED <<setup, robot, loose>>

-----------------------------------------------------------------------------
(* A planned motion's answers: plan (retried), validate, execute.          *)

ExecutionCodes == {"CONTROL_FAILED", "TIMED_OUT", "PREEMPTED"}

\* A goal without a constraint cannot be planned for.
PlanRefused(code) ==
  /\ pc = "plan"
  /\ CASE job.chomp -> DoPlan(mgi, job.profile, FALSE, job.attempt)
       [] ~job.chomp /\ job.attempt < PlanRetries + 1 ->
            DoPlan(mgi, job.profile, job.profile.optimize, job.attempt + 1)
       [] ~job.chomp /\ job.attempt >= PlanRetries + 1 ->
            Return(Failed("PLAN", NoCause, code)) /\ UNCHANGED <<sent, moved>>
  /\ UNCHANGED <<setup, mode, mgi, robot, loose>>

\* Found, and refused by the validator (enforce_validation).
PlanInvalid(cause) ==
  /\ pc = "plan" /\ Goal(mgi) # {}
  /\ Return(Failed("VALIDATE", cause, "SUCCESS"))
  /\ UNCHANGED <<setup, mode, mgi, sent, moved, robot, loose>>

PlanFound ==
  /\ pc = "plan" /\ Goal(mgi) # {}
  /\ pc' = "execute"
  /\ job' = [at |-> "planned", to |-> Landed(Goal(mgi)), whole |-> TRUE]
  /\ moved' = TRUE
  /\ UNCHANGED <<setup, mode, mgi, sent, res, robot, loose>>

\* The controller's time is up: the arm is there, or still settling.
Arrive(place) ==
  /\ drive' = place
  /\ arm' \in {place, Elsewhere}

StopShort == arm' \in {arm, Elsewhere} /\ drive' = arm'

\* The execution of a planned motion, or of a Cartesian path: leaving the
\* Cartesian backend puts the interface's frame back (ScopedFrameAndLink).
RestoredInterface ==
  IF job.at = "cartesian" THEN [mgi EXCEPT !.frame = job.frame] ELSE mgi

ExecutionDone ==
  /\ pc = "execute"
  /\ Return([Succeeded EXCEPT !.whole = job.whole])
  /\ IF job.whole THEN Arrive(job.to) ELSE arm' = Elsewhere /\ drive' = Elsewhere
  /\ mgi' = RestoredInterface
  /\ UNCHANGED <<setup, mode, sent, moved, loose>>

ExecutionFailed(code) ==
  /\ pc = "execute"
  /\ Return(IF job.at = "cartesian" THEN Unrecorded
            ELSE Failed("EXECUTE", NoCause, code))
  /\ StopShort
  /\ mgi' = RestoredInterface
  /\ UNCHANGED <<setup, mode, sent, moved, loose>>

-----------------------------------------------------------------------------
(* The Pilz sequence backend: one goal that plans and executes its items.  *)

Item(need, blend) == [need |-> need, blend |-> blend]

\* The last item's blend is zeroed, whatever was asked.
SequenceGoal(items) == [items EXCEPT ![Len(items)].blend = FALSE]

Unanswered(cause) == Failed("PLAN_AND_EXECUTE", cause, NoCode)

ExecuteProcessSequence(items) ==
  /\ \/ items = <<>> /\ Refuse(Unrecorded)
     \/ items # <<>> /\ Refuse(Unanswered("SERVER_UNAVAILABLE"))
     \/ /\ items # <<>>
        /\ pc' = "send"
        /\ job' = [at |-> "sequence", to |-> Landed({items[Len(items)].need})]
        /\ sent' = sent \union {[by |-> "sequence", items |-> SequenceGoal(items)]}
        /\ UNCHANGED <<moved, res>>
  /\ UNCHANGED <<setup, robot, loose>>

GoalAccepted ==
  /\ pc = "send" /\ pc' = "sequence"
  /\ UNCHANGED <<setup, mode, mgi, job, call, robot, loose>>

\* Rejected, or not answered in time: then the goal may still be accepted, and
\* nobody will know.
GoalRejected ==
  /\ pc = "send" /\ Return(Unanswered("GOAL_REJECTED"))
  /\ UNCHANGED <<setup, mode, mgi, sent, moved, robot, loose>>

GoalSendTimeout ==
  /\ pc = "send" /\ Return(Unanswered("GOAL_SEND_TIMEOUT"))
  /\ loose' = loose \union {job.to}
  /\ UNCHANGED <<setup, mode, mgi, sent, moved, robot>>

\* No plan for the goal, or its execution failed.
SequencePlanRefused(code) ==
  /\ pc = "sequence" /\ Return(Failed("PLAN_AND_EXECUTE", NoCause, code))
  /\ UNCHANGED <<setup, mode, mgi, sent, moved, robot, loose>>

SequenceFailed(code) ==
  /\ pc = "sequence" /\ Return(Failed("PLAN_AND_EXECUTE", NoCause, code))
  /\ moved' = TRUE /\ StopShort
  /\ UNCHANGED <<setup, mode, mgi, sent, loose>>

SequenceDone ==
  /\ pc = "sequence" /\ Return(Succeeded)
  /\ moved' = TRUE /\ Arrive(job.to)
  /\ UNCHANGED <<setup, mode, mgi, sent, loose>>

\* No result in time: the goal is cancelled and its end awaited, for so long.
ResultTimeout ==
  /\ pc = "sequence" /\ Return(Unanswered("RESULT_TIMEOUT"))
  /\ moved' = TRUE /\ StopShort
  /\ loose' \in {loose, loose \union {job.to}}
  /\ UNCHANGED <<setup, mode, mgi, sent>>

\* moveCircular(): a circle point MoveIt cannot use is refused; else one item.
MoveCircularDoor(link, place) ==
  /\ \/ Refuse(RequestRefused("INVALID_POSE")) /\ UNCHANGED <<setup, robot, loose>>
     \/ Refuse(RequestRefused("CIRCLE_GEOMETRY")) /\ UNCHANGED <<setup, robot, loose>>
     \/ ExecuteProcessSequence(<<Item(Need(link, place, Base), FALSE)>>)
  /\ UNCHANGED <<mode, mgi>>

-----------------------------------------------------------------------------
(* The Cartesian waypoint backend.                                         *)

\* The frame and the tip are the path's, until the backend returns.
CartesianPath(places, frame) ==
  /\ \/ /\ Len(places) < 2 /\ Refuse(Unrecorded) /\ mgi' = mgi
     \/ /\ Len(places) >= 2 /\ Refuse(RequestRefused("STATE_UNAVAILABLE")) /\ mgi' = mgi
     \/ /\ Len(places) >= 2
        /\ mgi' = [mgi EXCEPT !.frame = frame]
        /\ pc' = "compute"
        /\ job' = [at |-> "cartesian", frame |-> mgi.frame, whole |-> TRUE,
                   to |-> Landed({Need(Tip, places[Len(places)], frame)})]
        /\ sent' = sent \union
             {[by |-> "cartesian",
               items |-> [k \in 1..Len(places) |->
                            Item(Need(Tip, places[k], mgi'.frame), FALSE)]]}
        /\ UNCHANGED <<moved, res>>
  /\ UNCHANGED <<setup, robot, loose>>

\* The whole path, or the part the threshold and allow_partial accept.
PathComputed(whole) ==
  /\ pc = "compute" /\ pc' = "execute"
  /\ job' = [job EXCEPT !.whole = whole]
  /\ moved' = TRUE
  /\ UNCHANGED <<setup, mode, mgi, sent, res, robot, loose>>

\* Incomplete, or not time-parameterized.
PathNotComputed(code) ==
  /\ pc = "compute" /\ Return(Failed("NONE", NoCause, code))
  /\ mgi' = RestoredInterface
  /\ UNCHANGED <<setup, mode, sent, moved, robot, loose>>

\* executeCartesianProcess(): the configured backend.  The sequence takes the
\* waypoints' poses alone: the path's frame is not read.
ExecuteCartesianProcess(places, frame) ==
  /\ \/ setup.backend = "cartesian_waypoints" /\ CartesianPath(places, frame)
     \/ /\ setup.backend = "pilz_sequence"
        /\ ExecuteProcessSequence([k \in 1..Len(places) |->
                                    Item(Need(Tip, places[k], Base), FALSE)])
        /\ mgi' = mgi
  /\ mode' = mode

-----------------------------------------------------------------------------
(* What happens whether or not a call is in progress.                      *)

Settle ==
  /\ arm # drive /\ arm' = drive
  /\ UNCHANGED <<setup, mode, mgi, pc, job, call, drive, loose>>

\* A goal whose caller gave up waiting moves the arm, and ends.
LooseGoal ==
  /\ \E p \in loose :
       /\ arm' \in {p, Elsewhere} /\ drive' = arm'
       /\ loose' \in {loose, loose \ {p}}
  /\ UNCHANGED <<setup, mode, mgi, pc, job, call>>

DoorStep ==
  \/ \E code \in PlanCodes : PlanRefused(code) \/ SequencePlanRefused(code)
  \/ \E cause \in Defects : PlanInvalid(cause)
  \/ PlanFound \/ ExecutionDone
  \/ \E code \in ExecutionCodes : ExecutionFailed(code) \/ SequenceFailed(code)
  \/ GoalAccepted \/ GoalRejected \/ GoalSendTimeout
  \/ SequenceDone \/ ResultTimeout
  \/ \E whole \in BOOLEAN : PathComputed(whole)
  \/ \E code \in {"SUCCESS", "FAILURE", NoCode} : PathNotComputed(code)

DoorTypeOK ==
  /\ mode \in PlannerModes
  /\ mgi \in [type : {"joint", "pose"}, joint : Needs,
              poses : [Links -> Needs \union {NoTarget}], frame : Frames]
  /\ pc \in {"idle", "start", "plan", "execute", "send", "sequence", "compute",
             "returned", "ended"}
  /\ moved \in BOOLEAN
  /\ arm \in Somewhere /\ drive \in Somewhere /\ loose \subseteq Somewhere
=============================================================================
