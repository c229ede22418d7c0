-------------------------- MODULE ActuatorOutcome --------------------------
(***************************************************************************)
(* What one actuator command ended as (actuator_outcome.cpp): a pure map   *)
(* from what the client observed of the command to DONE or to one reason,  *)
(* and whether the goal must be cancelled.  Texts are left out.            *)
(***************************************************************************)
EXTENDS Integers

Interfaces == {"set_bool", "gripper_command", "follow_joint_trajectory"}

Phases == {"NO_SERVER", "NO_RESPONSE", "REJECTED", "NO_RESULT", "RESULT"}

GoalStatuses == {"SUCCEEDED", "ABORTED", "CANCELED", "UNKNOWN"}

ResultPolicies == {"succeeded", "succeeded_or_stalled"}

\* FollowJointTrajectory's error codes the table names, and one it does not.
FjtSuccessful    == 0
FjtInvalidGoal   == -1
FjtInvalidJoints == -2
FjtPathTolerance == -4
FjtGoalTolerance == -5
FjtCodes == {FjtSuccessful, FjtInvalidGoal, FjtInvalidJoints, FjtPathTolerance,
             FjtGoalTolerance}

\* What a server answers: the fields of the three result types together.
Answers == [status  : GoalStatuses, code : FjtCodes, reached : BOOLEAN,
            stalled : BOOLEAN, success : BOOLEAN]

\* Never a ros2_control GripperCommand goal: after a deactivation the
\* controller's cancel callback reads a released state interface.
MayCancel(interface, ros2) == ~(ros2 /\ interface = "gripper_command")

Done         == [done |-> TRUE,  reason |-> "NONE", cancel |-> FALSE]
Fail(reason) == [done |-> FALSE, reason |-> reason, cancel |-> FALSE]

GripperDone(c, a) ==
  IF c.engage
    THEN \/ a.status = "SUCCEEDED"
         \/ /\ a.status = "ABORTED" /\ a.stalled
            /\ c.policy = "succeeded_or_stalled"
    ELSE a.status = "SUCCEEDED" /\ a.reached

GripperBlocked(c, a) ==
  ~c.engage /\ a.status \in {"SUCCEEDED", "ABORTED"} /\ a.stalled

GripperResult(c, a) ==
  CASE a.status = "CANCELED" -> Fail("COMMAND_CANCELED")
    [] a.status # "CANCELED" /\ GripperDone(c, a) -> Done
    [] a.status # "CANCELED" /\ ~GripperDone(c, a) /\ GripperBlocked(c, a) ->
         Fail("ACTUATOR_BLOCKED")
    [] OTHER -> Fail("COMMAND_ABORTED")

TrajectoryResult(c, a) ==
  CASE a.status = "CANCELED" -> Fail("COMMAND_CANCELED")
    [] a.status = "SUCCEEDED" /\ a.code = FjtSuccessful -> Done
    [] a.status = "ABORTED" /\ a.code = FjtPathTolerance ->
         Fail("PATH_TOLERANCE_VIOLATED")
    [] a.status = "ABORTED" /\ a.code = FjtGoalTolerance ->
         Fail("GOAL_TOLERANCE_VIOLATED")
    [] a.status = "ABORTED" /\ a.code = FjtInvalidGoal /\ c.ros2 ->
         Fail("ACTUATOR_UNAVAILABLE")
    [] OTHER -> Fail("COMMAND_ABORTED")

SetBoolResult(a) == IF a.success THEN Done ELSE Fail("COMMAND_REJECTED")

\* mapOutcome: c is the command ([interface, engage, policy, ros2]), phase how
\* far it got, a the answer (read in phase RESULT only).
MapOutcome(c, phase, a) ==
  LET cancel == MayCancel(c.interface, c.ros2)
  IN CASE phase = "NO_SERVER" -> Fail("SERVER_MISSING")
       [] phase = "NO_RESPONSE" /\ c.interface = "set_bool" ->
            Fail("COMMAND_TIMEOUT")
       [] phase = "NO_RESPONSE" /\ c.interface # "set_bool" ->
            [Fail("SEND_TIMEOUT") EXCEPT !.cancel = cancel]
       [] phase = "REJECTED"  -> Fail("COMMAND_REJECTED")
       [] phase = "NO_RESULT" -> [Fail("COMMAND_TIMEOUT") EXCEPT !.cancel = cancel]
       [] phase = "RESULT" /\ c.interface = "set_bool" -> SetBoolResult(a)
       [] phase = "RESULT" /\ c.interface = "gripper_command" -> GripperResult(c, a)
       [] phase = "RESULT" /\ c.interface = "follow_joint_trajectory" ->
            TrajectoryResult(c, a)
       [] OTHER -> Fail("COMMAND_ABORTED")

=============================================================================
