----------------------- MODULE MCEndEffectorCommand -----------------------
(* Model-checking instances of EndEffectorCommand. *)
EXTENDS EndEffectorCommand

Answer(status, code, reached, stalled, success) ==
  [status |-> status, code |-> code, reached |-> reached,
   stalled |-> stalled, success |-> success]

\* DONE, a stall and a cancelled goal; the first is SetBool's success.
MCAnswers ==
  {Answer("SUCCEEDED", FjtSuccessful, TRUE, FALSE, TRUE),
   Answer("ABORTED", FjtInvalidGoal, FALSE, TRUE, FALSE),
   Answer("CANCELED", FjtSuccessful, FALSE, FALSE, FALSE)}

\* One actuator of each interface; the FollowJointTrajectory one moves no site.
MCActuators ==
  {[interface |-> "set_bool", policy |-> "succeeded", tmr |-> FALSE],
   [interface |-> "gripper_command", policy |-> "succeeded_or_stalled", tmr |-> TRUE],
   [interface |-> "follow_joint_trajectory", policy |-> "succeeded", tmr |-> FALSE]}

=============================================================================
