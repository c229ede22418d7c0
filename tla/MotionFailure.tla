--------------------------- MODULE MotionFailure ---------------------------
(***************************************************************************)
(* Whose failure a failed motion is (motion_failure.cpp): this target's    *)
(* (TARGET: a tree may try another one) or not (FAULT: the infrastructure, *)
(* the robot or scene state, the configuration), decided from the phase,   *)
(* the recorded cause and the MoveIt code of its result; and the cause the *)
(* trajectory validator names.  Stage texts and metrics are left out.      *)
(***************************************************************************)

Phases ==
  {"NONE", "REQUEST", "PLAN", "VALIDATE", "EXECUTE", "PLAN_AND_EXECUTE"}

\* The codes a planning answer names this goal with.
TargetCodes ==
  {"PLANNING_FAILED", "INVALID_MOTION_PLAN", "GOAL_IN_COLLISION",
   "GOAL_VIOLATES_PATH_CONSTRAINTS", "GOAL_CONSTRAINTS_VIOLATED",
   "GOAL_STATE_INVALID", "NO_IK_SOLUTION"}

NoCause == ""
NoCode  == "NO_ERROR_CODE"   \* error_code.val left 0

\* A result; whole says that a Cartesian path was covered to its end
\* (cartesian_fraction), which only FollowPath reads.
Succeeded == [success |-> TRUE, phase |-> "NONE", cause |-> NoCause,
              code |-> "SUCCESS", whole |-> TRUE]
Failed(phase, cause, code) ==
  [success |-> FALSE, phase |-> phase, cause |-> cause, code |-> code,
   whole |-> FALSE]

\* MotionResult::failure(stage): nothing recorded.
Unrecorded == Failed("NONE", NoCause, NoCode)

\* Refused before MoveIt is asked.
RequestRefused(cause) == Failed("REQUEST", cause, NoCode)

\* Mutant of NamesTarget: a motion that ran out of time is this target's.
NamesTargetAtTimeout(r) ==
  IF r.cause # NoCause
    THEN r.phase = "VALIDATE" /\ r.cause \in {"JOINT_JUMP", "COLLISION"}
    ELSE r.phase \in {"PLAN", "PLAN_AND_EXECUTE"} /\ r.code \in TargetCodes \union {"TIMED_OUT"}

\* A recorded cause wins over the code; of the validator's causes only two
\* name this path.
NamesTarget(r) ==
  IF r.cause # NoCause
    THEN r.phase = "VALIDATE" /\ r.cause \in {"JOINT_JUMP", "COLLISION"}
    ELSE \/ r.phase = "PLAN" /\ r.code \in TargetCodes \union {"TIMED_OUT"}
         \/ r.phase = "PLAN_AND_EXECUTE" /\ r.code \in TargetCodes

ClassifyMotionFailure(r) ==
  CASE r.success                       -> "NONE"
    [] ~r.success /\ NamesTarget(r)    -> "TARGET"
    [] ~r.success /\ ~NamesTarget(r)   -> "FAULT"

\* "MOTION_FAULT: <cause> during <phase>", as the cause and the phase.
MotionFaultText(r) ==
  [cause |-> CASE r.cause # NoCause -> r.cause
               [] r.cause = NoCause /\ r.code = "SUCCESS" -> "INCONSISTENT_RESULT"
               [] r.cause = NoCause /\ r.code # "SUCCESS" -> r.code,
   phase |-> r.phase]

-----------------------------------------------------------------------------
(* The trajectory validator names the first check a plan fails.  A plan is *)
(* abstract here, so any of them may be: the collision ones only when a    *)
(* scene snapshot was there to check in, and a collision at waypoint 0 is  *)
(* the robot's start, not this path.                                       *)

PlanDefects == {"UNKNOWN_GROUP", "EMPTY_TRAJECTORY", "NON_FINITE",
                "JOINT_LIMITS", "JOINT_JUMP", "NON_MONOTONIC_TIME"}
CollisionDefects == {"START_STATE_COLLISION", "COLLISION", "VALIDATION_FAILED"}

ValidationCauses(snapshot) ==
  PlanDefects \union (IF snapshot THEN CollisionDefects ELSE {})
=============================================================================
