---------------------------- MODULE MotionNodes ----------------------------
(***************************************************************************)
(* The motion nodes of the behaviour tree (bt_nodes.cpp): MoveWaypoint,    *)
(* FollowPath and the older Move* nodes, each one blocking tick with one   *)
(* call of the motion door, and ProcessEvent between the runs of a path.   *)
(*                                                                         *)
(* The tree is the application's: any node may be ticked next, with any    *)
(* data, except that a process event of a path follows the run that ends   *)
(* at its state, as a Sequence of the two makes it.  A tick begins, goes   *)
(* through the door's steps, ends (the result is classified and a fault    *)
(* written), and the tree moves on.  Between ticks a detection may rewrite *)
(* a waypoint.                                                             *)
(***************************************************************************)
EXTENDS Integers, Sequences, MotionDoor, PathLibrary

CONSTANTS
  Waypoints,   \* waypoints of the blackboard that path states name
  PathFiles,   \* path definitions paths.yaml may hold
  ProcessFiles,\* the files of ExecuteProcessPath: their places and frame
  Planners,    \* the planners moves name; "" for none
  MaxTicks     \* bound: ticks of nodes that move the robot

\* A path's state: a waypoint's name, or an inline place.
StateOK(s) == s.at \in (IF s.waypoint THEN Waypoints ELSE Places)

ASSUME NodesAssumption ==
  /\ MaxTicks \in Nat
  /\ Planners \subseteq PlannerModes \union {""}
  /\ ProcessFiles \subseteq [places : Seq(Places), frame : Frames]
  /\ \A p \in PathFiles :
       /\ p.last \in Nat /\ \A i \in 0..p.last : StateOK(p.states[i])
       /\ p.continuity \in {"blend", "stop"}
  /\ Elsewhere \notin Places

VARIABLES
  path,     \* the library's path
  bb,       \* the blackboard: where each waypoint is
  ask,      \* what the node being ticked asks for
  status,   \* what its tick returned
  wrote,    \* what it wrote to its fault port
  at,       \* the run that just ended: its last state, that state's place
  event,    \* the event just dispatched
  ticks,
  inherited \* the planner a move that names none has: the newest free or ptp move's,
            \* LaunchMode before any (history)

node == <<path, bb, ask, status, wrote, at, event, ticks, inherited>>
vars == <<door, node>>

NoFault == [cause |-> NoCause, phase |-> "none written"]
NoAsk   == [node |-> "none"]
NoRun   == [state |-> -1]
NoEvent == [state |-> -1]

\* The nodes that have a fault port.
HasFaultPort == {"MoveWaypoint", "FollowPath"}

-----------------------------------------------------------------------------
(* What a node may ask for.                                                *)

PoseTarget(link, place, taught) ==
  [kind |-> "pose", need |-> Need(link, place, Base), named |-> FALSE, taught |-> taught]
JointTarget(place, named) ==
  [kind |-> "joint", need |-> Need(Tip, place, Base), named |-> named, taught |-> FALSE]
\* A named state the robot does not have, or a vector of the wrong size.
BadTarget(named) ==
  [kind |-> "bad", need |-> Need(Tip, Home, Base), named |-> named, taught |-> FALSE]

JointTargets == {JointTarget(Home, TRUE)} \union {BadTarget(n) : n \in BOOLEAN}

\* An ask for one target, of one planner.
AskTarget(who, t, planner) ==
  [node |-> who, target |-> t, planner |-> planner]
\* An ask that is refused before it is read to its end.
AskRefused(who) == [node |-> who]
\* An ask for a path through the items; places are the path's states.
AskItems(who, items) == [node |-> who, items |-> items]

\* The tick of a node begins: every node that moves the robot starts here.
Tick(a) ==
  /\ pc = "idle" /\ ticks < MaxTicks
  /\ ticks' = ticks + 1
  /\ ask' = a
  /\ at' = NoRun /\ event' = NoEvent
  /\ UNCHANGED <<path, bb, status, wrote>>

\* A node's own refusal: the door is not called.
RefuseNode(r) ==
  Refuse(r) /\ UNCHANGED <<setup, mode, mgi, robot, loose>>

Exception == Failed("NONE", "EXCEPTION", NoCode)

WaypointRefusals ==
  {"EMPTY_WAYPOINT", "UNKNOWN_MOTION", "SERVO_EXECUTION", "UNKNOWN_EXECUTION",
   "UNKNOWN_PLANNER", "UNSUPPORTED_TCP", "UNKNOWN_PROFILE",
   "UNSUPPORTED_TOLERANCE", "FRAME_UNRESOLVED", "UNSUPPORTED_FRAME"}

\* The mode of a free or ptp move ("" for no planner): the planner it names, Pilz for a
\* ptp that names none, else the runtime's: the selector's mode as the last move left it.
MoveMode(motion, planner) ==
  CASE planner # "" -> planner
    [] planner = "" /\ motion = "ptp"  -> "pilz"
    [] planner = "" /\ motion = "free" -> mode

\* The planner a move asks for, said without the selector; a lin or circ has Pilz's.
PlannerOf(motion, planner) ==
  CASE motion \in {"lin", "circ"} -> "pilz"
    [] motion \in {"ptp", "free"} /\ planner # "" -> planner
    [] motion = "ptp"  /\ planner = "" -> "pilz"
    [] motion = "free" /\ planner = "" -> inherited

\* A free or ptp move leaves its planner to the moves after it.
Leaves(motion, planner) ==
  inherited' = IF motion \in {"ptp", "free"} THEN PlannerOf(motion, planner) ELSE inherited

MoveWaypointRefused ==
  /\ Tick(AskRefused("MoveWaypoint")) /\ UNCHANGED inherited
  /\ \/ \E cause \in WaypointRefusals : RefuseNode(RequestRefused(cause))
     \/ RefuseNode(Exception)

MoveWaypoint(t, motion, planner) ==
  /\ Tick(AskTarget("MoveWaypoint", t, PlannerOf(motion, planner)))
  /\ Leaves(motion, planner)
  /\ \/ /\ motion = "lin"
        /\ IF t.kind = "bad" THEN RefuseNode(Exception)
           ELSE MoveLinearDoor(Tip, t.need.place)
     \/ /\ motion = "circ"
        /\ IF t.kind = "bad" THEN RefuseNode(Exception)
           ELSE MoveCircularDoor(Tip, t.need.place)
     \/ /\ motion \in {"ptp", "free"}
        /\ MoveCollisionFreeDoor(t, MoveMode(motion, planner))

-----------------------------------------------------------------------------
(* The older nodes: they take their targets from ports and have no fault   *)
(* port.  MovePtp stands for MoveToNamed and MoveToJoint as well, BadPort  *)
(* for the tick of any of them whose ports name no target, an unreadable   *)
(* one or an unknown planner.                                              *)

BadPort == Tick(AskRefused("MovePtp")) /\ UNCHANGED inherited /\ RefuseNode(Unrecorded)

MovePtp(t) ==
  /\ Tick(AskTarget("MovePtp", t, inherited)) /\ UNCHANGED inherited
  /\ MovePtpDoor(t)

MoveLinear(link, place) ==
  /\ Tick(AskTarget("MoveLinear", PoseTarget(link, place, FALSE), "pilz"))
  /\ UNCHANGED inherited
  /\ MoveLinearDoor(link, place)

MoveCircular(link, place) ==
  /\ Tick(AskTarget("MoveCircular", PoseTarget(link, place, FALSE), "pilz"))
  /\ UNCHANGED inherited
  /\ MoveCircularDoor(link, place)

MoveCollisionFree(t, planner) ==
  /\ Tick(AskTarget("MoveCollisionFree", t, PlannerOf("free", planner)))
  /\ Leaves("free", planner)
  /\ MoveCollisionFreeDoor(t, MoveMode("free", planner))

ExecuteProcessPath(places, frame) ==
  /\ Tick(AskItems("ExecuteProcessPath",
                   [k \in 1..Len(places) |-> Item(Need(Tip, places[k], frame), FALSE)]))
  /\ UNCHANGED inherited
  /\ ExecuteCartesianProcess(places, frame)

-----------------------------------------------------------------------------
(* FollowPath: one run from..to of the library's path.                     *)

\* Every state of the path, in the base frame, as the blackboard has it now.
Resolved == [i \in 0..path.last |->
  IF path.states[i].waypoint THEN bb[path.states[i].at] ELSE path.states[i].at]

\* What FollowPath refuses before it looks for the robot.
PathRefusals ==
  {"UNKNOWN_PATH", "NO_PATH_LIBRARY", "UNKNOWN_PROFILE", "FRAME_UNRESOLVED",
   "PATH_UNRESOLVED", "INVALID_POSE"}

\* The items the run asks for.
RunItems(from, to) ==
  LET items == SequenceItems(path, Resolved, from, to) IN
  [k \in 1..Len(items) |-> Item(Need(Tip, items[k].place, Base), items[k].blend)]

\* The checks before the robot is looked for; then pc = "start".
FollowPath(ranged, from, to) ==
  /\ ranged \/ (from = 0 /\ to = path.last)
  /\ Tick([node |-> "FollowPath", items |-> RunItems(from, to),
           from |-> from, to |-> to, place |-> Resolved, loose |-> loose # {}])
  /\ UNCHANGED inherited
  /\ IF ~RunInRange(path, ranged, from, to)
       THEN RefuseNode(RequestRefused("PATH_RANGE"))
     ELSE IF ~GeometryHolds(path, Resolved)
       THEN RefuseNode(RequestRefused("PATH_GEOMETRY"))
     ELSE
       \/ path.circ # {} /\ RefuseNode(RequestRefused("PATH_GEOMETRY"))
       \/ pc' = "start" /\ UNCHANGED <<setup, mode, mgi, job, call, robot, loose>>

FollowPathRefused ==
  /\ Tick(AskRefused("FollowPath")) /\ UNCHANGED inherited
  /\ \E cause \in PathRefusals : RefuseNode(RequestRefused(cause))

\* settleAt() waits for the arm to settle at the place, for so long: the arm
\* settles in a step of its own, and the wait ends with it there or not.
SettledAt(place) == arm = place

RobotNotRead == {"FRAME_UNRESOLVED", "STATE_UNAVAILABLE", "INVALID_POSE"}

NotAtStart ==
  /\ pc = "start"
  /\ \/ ~SettledAt(ask.place[ask.from])
        /\ RefuseNode(RequestRefused("NOT_AT_PATH_START"))
     \/ \E cause \in RobotNotRead : RefuseNode(RequestRefused(cause))
  /\ UNCHANGED node

\* A run of one state sends nothing.
AtOneState ==
  /\ pc = "start" /\ SettledAt(ask.place[ask.from]) /\ ask.from = ask.to
  /\ RefuseNode(Succeeded)
  /\ UNCHANGED node

\* The motion, through the door method the provider's route names.
SendRun ==
  /\ pc = "start" /\ SettledAt(ask.place[ask.from]) /\ ask.from # ask.to
  /\ LET route == Providers[Provider(path)].route IN
     \/ RefuseNode(RequestRefused("UNKNOWN_PROFILE"))   \* a segment's
     \/ RefuseNode(Exception)
     \/ /\ route = "motion_sequence"
        /\ ExecuteProcessSequence(ask.items)
        /\ UNCHANGED <<mode, mgi>>
     \/ /\ route = "cartesian_path"
        /\ ExecuteCartesianProcess([k \in 1..path.last |-> ask.place[k]], Base)
  /\ UNCHANGED node

-----------------------------------------------------------------------------
(* The end of a tick.                                                      *)

\* A fault is written only for a failure that is not this target's.
Fault(r) ==
  IF ask.node \in HasFaultPort /\ ClassifyMotionFailure(r) = "FAULT"
    THEN MotionFaultText(r) ELSE NoFault

End(outcome, fault, run) ==
  /\ pc = "returned" /\ pc' = "ended"
  /\ status' = outcome /\ wrote' = fault /\ at' = run
  /\ UNCHANGED <<setup, mode, mgi, job, call, robot, loose>>
  /\ UNCHANGED <<path, bb, ask, event, ticks, inherited>>

\* A part of a continuous path is not the path.
RunResult ==
  [res EXCEPT !.success = res.success /\ (ask.node = "FollowPath" => res.whole)]

EndFailed == ~RunResult.success /\ End("FAILURE", Fault(RunResult), NoRun)

EndMoved ==
  ask.node # "FollowPath" /\ res.success /\ End("SUCCESS", NoFault, NoRun)

\* Mutant of RunEnd: the state after the one the run ended at.
RunEndNext == [state |-> ask.to + 1, place |-> ask.place[ask.to],
               loose |-> ask.loose \/ loose # {}]

\* loose: a goal given up on may move the arm, or moved it during the run.
RunEnd == [state |-> ask.to, place |-> ask.place[ask.to],
           loose |-> ask.loose \/ loose # {}]

\* Mutant of Confirms: the state the run left is looked up.
ConfirmsDeparture == ask.from # ask.to /\ ask.from \in EventStates(path)

\* A run that moved to an event state confirms that the robot arrived.
Confirms == ask.from # ask.to /\ ask.to \in EventStates(path)

EndRun ==
  /\ ask.node = "FollowPath" /\ RunResult.success
  /\ Confirms => SettledAt(ask.place[ask.to])
  /\ End("SUCCESS", NoFault, RunEnd)

\* Not there, or its pose could not be read.
NotArrived ==
  /\ ask.node = "FollowPath" /\ RunResult.success /\ Confirms
  /\ End("FAILURE", MotionFaultText(Failed("EXECUTE", "NOT_AT_PATH_STATE", NoCode)),
         NoRun)

\* The tree moves on.
MoveOn ==
  /\ pc = "ended" /\ pc' = "idle"
  /\ sent' = {} /\ moved' = FALSE /\ res' = Succeeded
  /\ ask' = NoAsk /\ status' = "none" /\ wrote' = NoFault
  /\ UNCHANGED <<setup, mode, mgi, job, robot, loose, path, bb, at, event, ticks,
                 inherited>>

-----------------------------------------------------------------------------
\* ProcessEvent after the run that ended at its state: the controller
\* publishes at once.
ProcessEvent ==
  /\ pc = "idle" /\ at.state \in EventStates(path)
  /\ event' = [state |-> at.state, place |-> at.place, arm |-> arm, loose |-> at.loose]
  /\ at' = NoRun
  /\ UNCHANGED <<door, path, bb, ask, status, wrote, ticks, inherited>>

\* SetWaypointFromDetection rewrites a waypoint.
Detect(w, place) ==
  /\ pc = "idle" /\ bb[w] # place
  /\ bb' = [bb EXCEPT ![w] = place]
  /\ UNCHANGED <<door, path, ask, status, wrote, at, event, ticks, inherited>>

Background == (Settle \/ LooseGoal) /\ UNCHANGED node

Init ==
  /\ DoorInit
  /\ path \in {p \in PathFiles : ParsePath(p, setup.backend)}
  /\ bb \in [Waypoints -> Places]
  /\ ask = NoAsk /\ status = "none" /\ wrote = NoFault
  /\ at = NoRun /\ event = NoEvent /\ ticks = 0 /\ inherited = LaunchMode

\* The poses the blackboard holds.
Poses == {bb[w] : w \in Waypoints}

PoseTargets(links, taught) == {PoseTarget(l, p, taught) : l \in links, p \in Poses}

Next ==
  \/ \E t \in PoseTargets({Tip}, TRUE) \union PoseTargets({Tip}, FALSE) \union JointTargets,
        planner \in Planners, motion \in {"lin", "circ", "ptp", "free"} :
        MoveWaypoint(t, motion, planner)
  \/ MoveWaypointRefused \/ BadPort
  \/ \E t \in JointTargets : MovePtp(t)
  \/ \E link \in Links, place \in Poses : MoveLinear(link, place) \/ MoveCircular(link, place)
  \/ \E t \in PoseTargets(Links, FALSE) \union JointTargets, planner \in Planners :
        MoveCollisionFree(t, planner)
  \/ \E f \in ProcessFiles : ExecuteProcessPath(f.places, f.frame)
  \/ \E ranged \in BOOLEAN, from, to \in 0..path.last : FollowPath(ranged, from, to)
  \/ FollowPathRefused
  \/ DoorStep /\ UNCHANGED node
  \/ NotAtStart \/ AtOneState \/ SendRun
  \/ EndFailed \/ EndMoved \/ EndRun \/ NotArrived \/ MoveOn
  \/ ProcessEvent
  \/ \E w \in Waypoints, p \in Places : Detect(w, p)
  \/ Background

Spec == Init /\ [][Next]_vars

-----------------------------------------------------------------------------
(* Properties.                                                             *)

\* The variables' types.
TypeOK ==
  /\ DoorTypeOK
  /\ bb \in [Waypoints -> Places]
  /\ ask.node \in HasFaultPort \union {"none", "MovePtp", "MoveLinear",
       "MoveCircular", "MoveCollisionFree", "ExecuteProcessPath"}
  /\ status \in {"none", "SUCCESS", "FAILURE"}
  /\ wrote.phase \in Phases \union {NoFault.phase}
  /\ at.state \in -1..path.last /\ event.state \in -1..path.last
  /\ ticks \in 0..MaxTicks
  /\ inherited \in PlannerModes

\* The pipelines that may answer for a planner.
HonouredBy(planner) ==
  CASE planner = "ompl_chomp" /\ PipelineAvailable("chomp")  -> {"chomp", "ompl"}
    [] planner = "ompl_chomp" /\ ~PipelineAvailable("chomp") -> {"ompl"}
    [] planner = "stomp" /\ ~PipelineAvailable("stomp")      -> {"ompl"}
    [] OTHER -> {planner}

\* The items of the path a node asks for; MoveCircular's one arc.
AskedItems == IF ask.node \in {"FollowPath", "ExecuteProcessPath"} THEN ask.items
              ELSE <<Item(ask.target.need, FALSE)>>

\* A request asks MoveIt for the link and the place, in its frame, or the items with
\* their blends, that the node being ticked asks for.
TargetAsAsked(r) ==
  IF r.by \in {"sequence", "cartesian"} THEN r.items = AskedItems
  ELSE r.goal = {ask.target.need}

\* A planned one, first try or retry, is answered by a pipeline of the node's planner.
PlannerAsAsked(r) ==
  r.by \in {"sequence", "cartesian"} \/ r.by \in HonouredBy(ask.planner)

AsTheAsk(r) == TargetAsAsked(r) /\ PlannerAsAsked(r)

\* Two kinds of ask whose target the code does not carry out as written: a named state
\* or a joint vector the interface refuses (its answer is not read), and the frame of a
\* process path that runs through the Pilz sequence.
Exempt ==
  \/ "target" \in DOMAIN ask /\ ask.target.kind = "bad"
  \/ ask.node = "ExecuteProcessPath" /\ setup.backend = "pilz_sequence"

\* No target of an earlier move is part of a request: no pose target left on the shared
\* interface, no frame a Cartesian path set (moveit_motion_runtime.cpp clears targets
\* first; ScopedFrameAndLink).  A request's planner is the one the node names, Pilz for
\* a lin and for a ptp waypoint that names none.  For any other move that names none it
\* is NOT the launch mode, as bt_nodes.cpp says at lines 548 and 688, but the planner of
\* the newest free or ptp move before it, failed or not (setMode is never undone).
GoalsAsAsked ==
  \A r \in sent : PlannerAsAsked(r) /\ (~Exempt => TargetAsAsked(r))

\* What a node tells of its failure is true of what happened before it.  One that writes
\* no fault lets the tree try another target as if nothing had happened: then nothing has
\* (motion_failure.hpp).  And "during request" says that nothing was sent.
FailureToldTruly ==
  pc = "ended" =>
    /\ status = "FAILURE" /\ ask.node \in HasFaultPort /\ wrote = NoFault => ~moved
    /\ wrote.phase = "REQUEST" => sent = {} /\ ~moved

\* A run never drives through a state where the path stops for an event, and
\* leaves from its first state (unless a goal given up on moves the arm).
RunIsEventFree ==
  ask.node = "FollowPath" /\ pc \in {"send", "sequence"} =>
    /\ \A i \in EventStates(path) : ~(ask.from < i /\ i < ask.to)
    /\ ask.loose \/ arm = ask.place[ask.from]

\* An event is dispatched with the robot at the event's state, as the run that
\* ends there resolved it (unless a goal given up on moves the arm).
EventAtItsState ==
  event.state >= 0 => event.arm = event.place \/ event.loose

\* The library's path can be run, split at its events, unless it is a continuous dense
\* path of two samples: that one the loader accepts, and the runs of it all fail.
AcceptedPathRuns == AcceptedIsRunnable(path, setup.backend)

\* What a canonical node asks for is what MoveIt is asked for, or nothing is.
AsAsked ==
  ask.node \in HasFaultPort => \A r \in sent : AsTheAsk(r)
=============================================================================
